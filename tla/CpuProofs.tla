----------------------------- MODULE CpuProofs ------------------------------
(***************************************************************************)
(* What the CPU and what is around it promise, for any number of processes *)
(* and files, for every size of the memory and width of the registers.     *)
(*                                                                         *)
(* First, that what is sent arrives: a concatenation, the walk over the    *)
(* offsets of a stream (Iterar), the parameters of an instruction, a       *)
(* program, a table of segments, the registers and the context of all of   *)
(* them are read back as they were written (LeeContexto).  Then, what the  *)
(* copies between registers and contexts do to their strings.              *)
(*                                                                         *)
(* CpuInv is the inductive invariant.  It says where the process that has  *)
(* the turn is: on its way to the CPU, in it, on its way back, or nowhere, *)
(* with the same program and table in each of those places.                *)
(* LugaresBien reads from it the counter and the registers that            *)
(* MaquinaPropia sees, and each action is a step of MaquinaPropia or a     *)
(* stutter.                                                                *)
(***************************************************************************)
EXTENDS Cpu, Pliegues, SequenceTheorems

-----------------------------------------------------------------------------
(* Sequences *)

\* A function of 0..n whose value at k follows from the one at k - 1.
PorPasos(f, n, S, base, F) ==
    /\ f \in [0..n -> S]
    /\ f[0] = base
    /\ \A k \in 1..n : f[k] = F[<<f[k - 1], k>>]

\* F keeps the values in S.
Cerrada(F, n, S) == \A x \in S : \A k \in 1..n : F[<<x, k>>] \in S

\* There is one.
LEMMA PasoAPaso ==
    ASSUME NEW n \in Nat, NEW S, NEW base \in S, NEW F, Cerrada(F, n, S)
    PROVE  \E f : PorPasos(f, n, S, base, F)
<1> USE DEF PorPasos, Cerrada
<1> DEFINE Bien(m, f) == PorPasos(f, m, S, base, F)
           Q == {m \in 0..n : \E f : Bien(m, f)}
<1>1. 0 \in Q
  <2> DEFINE f == [k \in 0..0 |-> base]
  <2>1. Bien(0, f)
    OBVIOUS
  <2> HIDE DEF Bien, f
  <2>. QED
    BY <2>1
<1>2. ASSUME NEW m \in 0..(n - 1), m \in Q
      PROVE  m + 1 \in Q
  <2>1. PICK f : Bien(m, f)
    BY <1>2
  <2> DEFINE M == m + 1
             g == [k \in 0..M |-> IF k = M THEN F[<<f[m], M>>] ELSE f[k]]
  <2>2. m \in Nat /\ M \in 1..n /\ m \in 0..m /\ (\A k \in 0..M : k # M => k \in 0..m)
    OBVIOUS
  <2>3. f[m] \in S /\ F[<<f[m], M>>] \in S
    BY <2>1, <2>2
  <2>4. g \in [0..M -> S]
    BY <2>1, <2>2, <2>3
  <2>5. g[0] = base
    BY <2>1, <2>2
  <2>6. ASSUME NEW k \in 1..M
        PROVE  g[k] = F[<<g[k - 1], k>>]
    <3>1. CASE k = M
      <4>1. M - 1 = m /\ m # M /\ m \in 0..M /\ M \in 0..M
        BY <2>2
      <4>2. g[M] = F[<<f[m], M>>] /\ g[m] = f[m]
        BY <4>1
      <4>. QED
        BY <3>1, <4>1, <4>2
    <3>2. CASE k # M
      <4>1. k \in 1..m /\ k - 1 \in 0..m /\ k - 1 # M /\ k - 1 \in 0..M /\ k \in 0..M
        BY <2>2, <3>2
      <4>2. g[k] = f[k] /\ g[k - 1] = f[k - 1]
        BY <3>2, <4>1
      <4>3. f[k] = F[<<f[k - 1], k>>]
        BY <2>1, <4>1
      <4> HIDE DEF g, M
      <4>. QED
        BY <4>2, <4>3
    <3>. QED
      BY <3>1, <3>2
  <2> HIDE DEF g, M
  <2>7. Bien(M, g) /\ M \in 0..n
    BY <2>2, <2>4, <2>5, <2>6
  <2> USE DEF M
  <2> HIDE DEF Bien
  <2>. QED
    BY <2>7
<1> HIDE DEF Bien, Q
<1>3. \A k \in 0..n : k \in Q
  <2>1. \A m \in 0..(n - 1) : m \in Q => m + 1 \in Q
    BY <1>2
  <2>. QED
    BY <1>1, <2>1, InduccionHasta
<1>4. \E f : Bien(n, f)
  BY <1>3 DEF Q
<1>. QED
  BY <1>4 DEF Bien

\* The prefixes of the concatenation of a list of sequences.
EsAplanado(g, seqs) ==
    /\ g[0] = <<>>
    /\ \A i \in 1..Len(seqs) : g[i] = g[i - 1] \o seqs[i]

\* FlattenSeq is the last of them.
LEMMA Aplanado ==
    ASSUME NEW S, NEW seqs \in Seq(Seq(S))
    PROVE  \E g \in [0..Len(seqs) -> Seq(S)] :
              EsAplanado(g, seqs) /\ FlattenSeq(seqs) = g[Len(seqs)]
<1> DEFINE n == Len(seqs)
           F == [y \in Seq(S) \X (1..n) |-> y[1] \o seqs[y[2]]]
<1>1. n \in Nat /\ \A i \in 1..n : seqs[i] \in Seq(S)
  BY LenProperties, ElementOfSeq
<1>2. \A x \in Seq(S) : \A k \in 1..n : F[<<x, k>>] = x \o seqs[k]
  OBVIOUS
<1> HIDE DEF F, n
<1>8. <<>> \in Seq(S) /\ \A x \in Seq(S) : \A k \in 1..n : F[<<x, k>>] \in Seq(S)
  <2>1. ASSUME NEW x \in Seq(S), NEW k \in 1..n
        PROVE  F[<<x, k>>] \in Seq(S)
    <3>1. F[<<x, k>>] = x \o seqs[k] /\ seqs[k] \in Seq(S)
      BY <1>1, <1>2
    <3>. QED
      BY <3>1, ConcatProperties
  <2>. QED
    BY <2>1
<1>3. PICK g \in [0..n -> Seq(S)] : g[0] = <<>> /\ \A k \in 1..n : g[k] = F[<<g[k - 1], k>>]
  <2>1. Cerrada(F, n, Seq(S)) /\ <<>> \in Seq(S)
    BY <1>8 DEF Cerrada
  <2>2. \E g : PorPasos(g, n, Seq(S), <<>>, F)
    BY <1>1, <2>1, PasoAPaso
  <2>. QED
    BY <2>2 DEF PorPasos
<1>4. EsAplanado(g, seqs)
  <2>1. ASSUME NEW k \in 1..n
        PROVE  g[k] = g[k - 1] \o seqs[k]
    <3>1. k - 1 \in 0..n
      BY <1>1
    <3>2. g[k - 1] \in Seq(S) /\ g[k] = F[<<g[k - 1], k>>]
      BY <1>3, <3>1
    <3>. QED
      BY <1>2, <3>2
  <2>. QED
    BY <1>3, <2>1 DEF EsAplanado, n
<1>5. CASE n = 0
  <2>1. seqs = <<>> /\ Len(seqs) = 0
    BY <1>5, EmptySeq DEF n
  <2>2. FlattenSeq(seqs) = <<>>
    BY <2>1 DEF FlattenSeq
  <2>. QED
    BY <1>3, <1>4, <2>1, <2>2 DEF n
<1>6. CASE n # 0
  <2> DEFINE G(f) == f = [i \in 1..n |-> IF i = 1 THEN seqs[i] ELSE f[i - 1] \o seqs[i]]
  <2>1. FlattenSeq(seqs) = (CHOOSE f : G(f))[n]
    BY <1>6 DEF FlattenSeq, n
  <2>2. G([i \in 1..n |-> g[i]])
    <3> DEFINE h == [i \in 1..n |-> g[i]]
    <3>1. ASSUME NEW i \in 1..n
          PROVE  h[i] = IF i = 1 THEN seqs[i] ELSE h[i - 1] \o seqs[i]
      <4>1. g[i] = g[i - 1] \o seqs[i]
        BY <1>4 DEF EsAplanado, n
      <4>2. CASE i = 1
        <5>1. g[0] = <<>> /\ seqs[1] \in Seq(S) /\ 1 - 1 = 0
          BY <1>1, <1>3, <4>2
        <5>2. <<>> \o seqs[1] = seqs[1]
          BY <5>1
        <5>. QED
          BY <4>1, <4>2, <5>1, <5>2
      <4>3. CASE i # 1
        <5>1. i - 1 \in 1..n
          BY <1>1, <4>3
        <5>. QED
          BY <4>1, <4>3, <5>1
      <4>. QED
        BY <4>2, <4>3
    <3>2. h = [i \in 1..n |-> h[i]]
      OBVIOUS
    <3> HIDE DEF h
    <3>3. h = [i \in 1..n |-> IF i = 1 THEN seqs[i] ELSE h[i - 1] \o seqs[i]]
      BY <3>1, <3>2
    <3>. QED
      BY <3>3 DEF h
  <2> HIDE DEF G
  <2>3. PICK f : G(f) /\ FlattenSeq(seqs) = f[n]
    BY <2>1, <2>2
  <2>4. \A i \in 1..n : f[i] = IF i = 1 THEN seqs[i] ELSE f[i - 1] \o seqs[i]
    BY <2>3 DEF G
  <2> DEFINE Q == {0} \cup {i \in 1..n : f[i] = g[i]}
  <2>5. ASSUME NEW k \in 0..(n - 1), k \in Q
        PROVE  k + 1 \in Q
    <3>1. k + 1 \in 1..n /\ (k + 1) - 1 = k
      BY <1>1
    <3>2. g[k + 1] = g[k] \o seqs[k + 1]
      BY <1>4, <3>1 DEF EsAplanado, n
    <3>3. CASE k = 0
      <4>1. g[1] = <<>> \o seqs[1] /\ seqs[1] \in Seq(S)
        <5>1. 1 \in 1..n /\ 0 + 1 = 1
          BY <3>1, <3>3
        <5>. QED
          BY <1>1, <1>3, <3>2, <3>3, <5>1
      <4>2. f[1] = seqs[1]
        BY <2>4, <3>1, <3>3
      <4>. QED
        BY <3>1, <3>3, <4>1, <4>2
    <3>4. CASE k # 0
      <4>1. f[k] = g[k] /\ k + 1 # 1
        BY <2>5, <3>4
      <4>2. f[k + 1] = f[k] \o seqs[k + 1]
        BY <2>4, <3>1, <4>1
      <4>. QED
        BY <3>1, <3>2, <4>1, <4>2
    <3>. QED
      BY <3>3, <3>4
  <2>6. \A k \in 0..n : k \in Q
    <3>1. 0 \in Q
      OBVIOUS
    <3>2. \A k \in 0..(n - 1) : k \in Q => k + 1 \in Q
      BY <2>5
    <3> HIDE DEF Q
    <3>. QED
      BY <1>1, <3>1, <3>2, InduccionHasta
  <2>7. f[n] = g[n]
    BY <1>1, <1>6, <2>6
  <2>. QED
    BY <1>3, <1>4, <2>3, <2>7 DEF n
<1>. QED
  BY <1>5, <1>6

\* The library's theorem, in a form that the steps below can cite.
Asociados(x, y, z) == (x \o y) \o z = x \o (y \o z)

\* Three sequences in a row, however they are grouped.
LEMMA Asocia ==
    ASSUME NEW S, NEW x \in Seq(S), NEW y \in Seq(S), NEW z \in Seq(S)
    PROVE  Asociados(x, y, z)
BY ConcatAssociative DEF Asociados

\* Each sequence of the list is a stretch of the whole.
HayTrozo(S, seqs, g, i) ==
    \E resto \in Seq(S) : g[Len(seqs)] = (g[i - 1] \o seqs[i]) \o resto

\* What comes before it is the concatenation of the ones before it.
LEMMA TrozoAplanado ==
    ASSUME NEW S, NEW seqs \in Seq(Seq(S)), NEW g \in [0..Len(seqs) -> Seq(S)],
           EsAplanado(g, seqs), NEW i \in 1..Len(seqs)
    PROVE  HayTrozo(S, seqs, g, i)
<1> DEFINE n == Len(seqs)
           Extiende(j) == \E r \in Seq(S) : g[j] = g[i] \o r
           Q == {j \in 0..n : j < i \/ Extiende(j)}
<1>1. n \in Nat /\ i \in 1..n /\ \A k \in 1..n : seqs[k] \in Seq(S)
  BY LenProperties, ElementOfSeq
<1>2. g \in [0..n -> Seq(S)] /\ \A k \in 1..n : g[k] = g[k - 1] \o seqs[k]
  BY DEF EsAplanado
<1> HIDE DEF n
<1>3. g[i] \in Seq(S)
  BY <1>1, <1>2
<1>4. Extiende(i)
  <2>1. g[i] = g[i] \o <<>> /\ <<>> \in Seq(S)
    BY <1>3, ConcatEmptySeq
  <2>. QED
    BY <2>1
<1>5. ASSUME NEW j \in 0..(n - 1), Extiende(j)
      PROVE  Extiende(j + 1)
  <2>1. PICK r \in Seq(S) : g[j] = g[i] \o r
    BY <1>5
  <2>2. j + 1 \in 1..n /\ (j + 1) - 1 = j
    BY <1>1
  <2> DEFINE u == seqs[j + 1]
             t == r \o u
  <2>3. g[j + 1] = g[j] \o u /\ u \in Seq(S)
    BY <1>1, <1>2, <2>2
  <2> HIDE DEF u
  <2>4. t \in Seq(S)
    BY <2>3, ConcatProperties
  <2>5. (g[i] \o r) \o u = g[i] \o t
    <3>1. Asociados(g[i], r, u)
      BY <1>3, <2>3, Asocia
    <3>. QED
      BY <3>1 DEF Asociados
  <2> HIDE DEF t
  <2>6. g[j + 1] = g[i] \o t
    BY <2>1, <2>3, <2>5
  <2>. QED
    BY <2>4, <2>6
<1> HIDE DEF Extiende
<1>6. \A j \in 0..n : j \in Q
  <2>1. 0 \in Q
    BY <1>1
  <2>2. \A j \in 0..(n - 1) : j \in Q => j + 1 \in Q
    <3>1. ASSUME NEW j \in 0..(n - 1), j \in Q
          PROVE  j + 1 \in Q
      <4>1. j + 1 \in 0..n /\ (j < i => j + 1 < i \/ j + 1 = i)
        BY <1>1
      <4>. QED
        BY <1>4, <1>5, <3>1, <4>1
    <3>. QED
      BY <3>1
  <2> HIDE DEF Q
  <2>. QED
    BY <1>1, <2>1, <2>2, InduccionHasta
<1>7. Extiende(n)
  BY <1>1, <1>6
<1>8. g[i] = g[i - 1] \o seqs[i]
  BY <1>1, <1>2
<1>. QED
  BY <1>7, <1>8 DEF n, Extiende, HayTrozo

\* A stretch of a sequence, and what is after it.
EsTrozo(S, s, a, b, c) ==
    /\ s \in Seq(S)
    /\ Len(s) = Len(a) + Len(b) + Len(c)
    /\ SubSeq(s, Len(a) + 1, Len(a) + Len(b)) = b
    /\ SubSeq(s, Len(a) + Len(b) + 1, Len(s)) = c

\* In a row of three, the second is that stretch and the third is the rest.
LEMMA Trozo ==
    ASSUME NEW S, NEW a \in Seq(S), NEW b \in Seq(S), NEW c \in Seq(S)
    PROVE  EsTrozo(S, (a \o b) \o c, a, b, c)
<1> DEFINE s == (a \o b) \o c
           k == Len(a)
           l == Len(b)
           m == Len(c)
           t == SubSeq(s, k + 1, k + l)
           u == SubSeq(s, k + l + 1, k + l + m)
<1>1. k \in Nat /\ l \in Nat /\ m \in Nat
  BY LenProperties
<1>2. /\ a \o b \in Seq(S) /\ Len(a \o b) = k + l
      /\ \A i \in 1..(k + l) : (a \o b)[i] = IF i <= k THEN a[i] ELSE b[i - k]
  BY ConcatProperties
<1>3. /\ s \in Seq(S) /\ Len(s) = k + l + m
      /\ \A i \in 1..(k + l + m) : s[i] = IF i <= k + l THEN (a \o b)[i] ELSE c[i - (k + l)]
  BY <1>2, ConcatProperties
<1>4. \A i \in 1..(k + l + m) : s[i] \in S
  BY <1>3, ElementOfSeq
<1> HIDE DEF s, k, l, m
<1>5. /\ t \in Seq(S) /\ Len(t) = l
      /\ \A i \in 1..l : t[i] = s[k + i]
  <2>1. \A i \in (k + 1)..(k + l) : s[i] \in S
    BY <1>1, <1>4
  <2>2. (k + l) - (k + 1) + 1 = l /\ \A i \in 1..l : k + 1 + i - 1 = k + i
    BY <1>1
  <2>3. k + 1 \in Int /\ k + l \in Int /\ (k + 1 <= k + l \/ l = 0)
    BY <1>1
  <2>. QED
    BY <2>1, <2>2, <2>3, SubSeqProperties
<1>6. /\ u \in Seq(S) /\ Len(u) = m
      /\ \A i \in 1..m : u[i] = s[k + l + i]
  <2>1. \A i \in (k + l + 1)..(k + l + m) : s[i] \in S
    BY <1>1, <1>4
  <2>2. (k + l + m) - (k + l + 1) + 1 = m /\ \A i \in 1..m : k + l + 1 + i - 1 = k + l + i
    BY <1>1
  <2>3. k + l + 1 \in Int /\ k + l + m \in Int /\ (k + l + 1 <= k + l + m \/ m = 0)
    BY <1>1
  <2>. QED
    BY <2>1, <2>2, <2>3, SubSeqProperties
<1> HIDE DEF t, u
<1>7. \A i \in 1..l : t[i] = b[i]
  <2>1. ASSUME NEW i \in 1..l
        PROVE  t[i] = b[i]
    <3>1. k + i \in 1..(k + l) /\ k + i \in 1..(k + l + m) /\ ~(k + i <= k) /\ (k + i) - k = i /\ k + i <= k + l
      BY <1>1
    <3>. QED
      BY <1>2, <1>3, <1>5, <3>1
  <2>. QED
    BY <2>1
<1>8. \A i \in 1..m : u[i] = c[i]
  <2>1. ASSUME NEW i \in 1..m
        PROVE  u[i] = c[i]
    <3>1. k + l + i \in 1..(k + l + m) /\ ~(k + l + i <= k + l) /\ (k + l + i) - (k + l) = i
      BY <1>1
    <3>. QED
      BY <1>3, <1>6, <3>1
  <2>. QED
    BY <2>1
<1>9. t = b
  BY <1>5, <1>7, SeqEqual DEF l
<1>10. u = c
  BY <1>6, <1>8, SeqEqual DEF m
<1>. QED
  BY <1>3, <1>9, <1>10 DEF s, k, l, m, t, u, EsTrozo

\* What is at the start.
LEMMA Comienzo ==
    ASSUME NEW S, NEW b \in Seq(S), NEW c \in Seq(S)
    PROVE  /\ SubSeq(b \o c, 1, Len(b)) = b
           /\ SubSeq(b \o c, Len(b) + 1, Len(b \o c)) = c
<1>1. <<>> \in Seq(S) /\ Len(<<>>) = 0 /\ <<>> \o b = b
  BY ConcatEmptySeq
<1>2. 0 + 1 = 1 /\ 0 + Len(b) = Len(b)
  BY LenProperties
<1>3. SubSeq((<<>> \o b) \o c, Len(<<>>) + 1, Len(<<>>) + Len(b)) = b
  BY <1>1, Trozo DEF EsTrozo
<1>4. SubSeq((<<>> \o b) \o c, Len(<<>>) + Len(b) + 1, Len((<<>> \o b) \o c)) = c
  BY <1>1, Trozo DEF EsTrozo
<1>. QED
  BY <1>1, <1>2, <1>3, <1>4

\* One element of a sequence.
LEMMA Elemento ==
    ASSUME NEW S, NEW a \in Seq(S), NEW x \in S, NEW c \in Seq(S)
    PROVE  LET s == (a \o <<x>>) \o c
           IN  s \in Seq(S) /\ Len(a) + 1 \in 1..Len(s) /\ s[Len(a) + 1] = x
<1> DEFINE s == (a \o <<x>>) \o c
           k == Len(a)
<1>1. <<x>> \in Seq(S) /\ Len(<<x>>) = 1 /\ <<x>>[1] = x /\ k \in Nat /\ Len(c) \in Nat
  BY LenProperties
<1>2. /\ a \o <<x>> \in Seq(S) /\ Len(a \o <<x>>) = k + 1
      /\ (a \o <<x>>)[k + 1] = x
  <2>1. /\ a \o <<x>> \in Seq(S) /\ Len(a \o <<x>>) = k + 1
        /\ \A i \in 1..(k + 1) : (a \o <<x>>)[i] = IF i <= k THEN a[i] ELSE <<x>>[i - k]
    BY <1>1, ConcatProperties
  <2> HIDE DEF k
  <2>2. k + 1 \in 1..(k + 1) /\ ~(k + 1 <= k) /\ (k + 1) - k = 1
    BY <1>1
  <2>. QED
    BY <1>1, <2>1, <2>2
<1>3. /\ s \in Seq(S) /\ Len(s) = (k + 1) + Len(c)
      /\ \A i \in 1..((k + 1) + Len(c)) : s[i] = IF i <= k + 1 THEN (a \o <<x>>)[i] ELSE c[i - (k + 1)]
  BY <1>2, ConcatProperties
<1> HIDE DEF s, k
<1>4. k + 1 \in 1..((k + 1) + Len(c)) /\ k + 1 <= k + 1
  BY <1>1
<1>. QED
  BY <1>2, <1>3, <1>4 DEF s, k

\* Iterar follows the offsets of any walk that jumps as it does.
LEMMA Recorre ==
    ASSUME NEW n \in Nat, NEW salto, NEW g, NEW x, g[0] = x,
           \A k \in 1..n : g[k] = salto[g[k - 1]]
    PROVE  Iterar(salto, x, n) = g[n]
<1> DEFINE G(f) == f = [k \in 0..n |-> IF k = 0 THEN x ELSE salto[f[k - 1]]]
<1>1. Iterar(salto, x, n) = (CHOOSE f : G(f))[n]
  BY DEF Iterar
<1>2. G([k \in 0..n |-> g[k]])
  <2> DEFINE h == [k \in 0..n |-> g[k]]
  <2>1. ASSUME NEW k \in 0..n
        PROVE  h[k] = IF k = 0 THEN x ELSE salto[h[k - 1]]
    <3>1. CASE k = 0
      BY <3>1
    <3>2. CASE k # 0
      <4>1. k \in 1..n /\ k - 1 \in 0..n
        BY <3>2
      <4>. QED
        BY <3>2, <4>1
    <3>. QED
      BY <3>1, <3>2
  <2>2. h = [k \in 0..n |-> h[k]]
    OBVIOUS
  <2> HIDE DEF h
  <2>3. h = [k \in 0..n |-> IF k = 0 THEN x ELSE salto[h[k - 1]]]
    BY <2>1, <2>2
  <2>. QED
    BY <2>3 DEF h
<1> HIDE DEF G
<1>3. PICK f : G(f) /\ Iterar(salto, x, n) = f[n]
  BY <1>1, <1>2
<1>4. \A k \in 0..n : f[k] = IF k = 0 THEN x ELSE salto[f[k - 1]]
  BY <1>3 DEF G
<1> DEFINE Q == {k \in 0..n : f[k] = g[k]}
<1>5. 0 \in Q
  BY <1>4
<1>6. \A k \in 0..(n - 1) : k \in Q => k + 1 \in Q
  <2>1. ASSUME NEW k \in 0..(n - 1), k \in Q
        PROVE  k + 1 \in Q
    <3>1. k + 1 \in 1..n /\ k + 1 \in 0..n /\ (k + 1) - 1 = k /\ k + 1 # 0
      OBVIOUS
    <3>2. f[k + 1] = salto[f[k]] /\ g[k + 1] = salto[g[k]] /\ f[k] = g[k]
      BY <1>4, <2>1, <3>1
    <3>. QED
      BY <3>1, <3>2
  <2>. QED
    BY <2>1
<1> HIDE DEF Q
<1>7. \A k \in 0..n : k \in Q
  BY <1>5, <1>6, InduccionHasta
<1>. QED
  BY <1>3, <1>7 DEF Q


\* The start of a sequence does not depend on what is after it.
LEMMA Prolonga ==
    ASSUME NEW S, NEW s \in Seq(S), NEW t \in Seq(S)
    PROVE  /\ s \o t \in Seq(S)
           /\ Len(s \o t) = Len(s) + Len(t)
           /\ \A i \in 1..Len(s) : (s \o t)[i] = s[i]
           /\ \A m \in Nat \ {0}, n \in 0..Len(s) : SubSeq(s \o t, m, n) = SubSeq(s, m, n)
<1> DEFINE u == s \o t
           k == Len(s)
<1>1. k \in Nat /\ Len(t) \in Nat /\ \A i \in 1..k : s[i] \in S
  BY LenProperties, ElementOfSeq
<1>2. u \in Seq(S) /\ Len(u) = k + Len(t) /\ \A i \in 1..(k + Len(t)) : u[i] = IF i <= k THEN s[i] ELSE t[i - k]
  BY ConcatProperties
<1> HIDE DEF u, k
<1>3. \A i \in 1..k : u[i] = s[i]
  BY <1>1, <1>2
<1>4. ASSUME NEW m \in Nat \ {0}, NEW n \in 0..k
      PROVE  SubSeq(u, m, n) = SubSeq(s, m, n)
  <2> DEFINE x == SubSeq(u, m, n)
             y == SubSeq(s, m, n)
             l == IF m <= n THEN n - m + 1 ELSE 0
  <2>1. \A i \in m..n : i \in 1..k /\ u[i] \in S /\ s[i] \in S
    BY <1>1, <1>3
  <2>2. m \in Int /\ n \in Int
    BY <1>1
  <2>3. x \in Seq(S) /\ Len(x) = l /\ \A i \in 1..(n - m + 1) : x[i] = u[m + i - 1]
    BY <2>1, <2>2, SubSeqProperties
  <2>4. y \in Seq(S) /\ Len(y) = l /\ \A i \in 1..(n - m + 1) : y[i] = s[m + i - 1]
    BY <2>1, <2>2, SubSeqProperties
  <2> HIDE DEF x, y
  <2>5. \A i \in 1..l : i \in 1..(n - m + 1) /\ m + i - 1 \in 1..k
    BY <1>1, <2>2
  <2>6. \A i \in 1..Len(x) : x[i] = y[i]
    BY <1>3, <2>3, <2>4, <2>5
  <2>7. x = y
    BY <2>3, <2>4, <2>6, SeqEqual
  <2>. QED
    BY <2>7 DEF x, y
<1>. QED
  BY <1>2, <1>3, <1>4 DEF u, k

\* A buffer with its size before it, at position i of what has arrived, and what is
\* after the buffer.
EsBuffer(s, i, b, c) ==
    /\ s \in Seq(Celda)
    /\ i \in 1..Len(s)
    /\ s[i] = Len(b)
    /\ Buffer(s, i) = b
    /\ Tras(s, i + 1 + Len(b)) = c

\* A size and as many cells are read back as those cells.
LEMMA LeeBuffer ==
    ASSUME NEW a \in Seq(Celda), NEW b \in Seq(Celda), NEW c \in Seq(Celda)
    PROVE  EsBuffer(((a \o <<Len(b)>>) \o b) \o c, Len(a) + 1, b, c)
<1> DEFINE d == a \o <<Len(b)>>
           s == (d \o b) \o c
           k == Len(a)
           l == Len(b)
<1>1. k \in Nat /\ l \in Nat /\ Len(c) \in Nat /\ l \in Celda /\ <<l>> \in Seq(Celda) /\ Len(<<l>>) = 1
      /\ <<l>>[1] = l
  BY LenProperties DEF Celda
<1>2. d \in Seq(Celda) /\ Len(d) = k + 1 /\ d[k + 1] = l
  <2>1. d \in Seq(Celda) /\ Len(d) = k + 1
        /\ \A i \in 1..(k + 1) : d[i] = IF i <= k THEN a[i] ELSE <<l>>[i - k]
    BY <1>1, ConcatProperties
  <2> HIDE DEF k, l, d
  <2>2. k + 1 \in 1..(k + 1) /\ ~(k + 1 <= k) /\ (k + 1) - k = 1
    BY <1>1
  <2>. QED
    BY <1>1, <2>1, <2>2
<1> HIDE DEF d
<1>3. /\ s \in Seq(Celda)
      /\ Len(s) = Len(d) + Len(b) + Len(c)
      /\ SubSeq(s, Len(d) + 1, Len(d) + Len(b)) = b
      /\ SubSeq(s, Len(d) + Len(b) + 1, Len(s)) = c
  <2>1. EsTrozo(Celda, s, d, b, c)
    BY <1>2, Trozo
  <2>. QED
    BY <2>1 DEF EsTrozo
<1>4. s[k + 1] = l
  <2>1. d \o b \in Seq(Celda) /\ Len(d \o b) = Len(d) + l /\ \A i \in 1..Len(d) : (d \o b)[i] = d[i]
    BY <1>2, Prolonga
  <2>2. \A i \in 1..Len(d \o b) : s[i] = (d \o b)[i]
    BY <2>1, Prolonga
  <2> HIDE DEF s, k, l
  <2>3. k + 1 \in 1..Len(d) /\ k + 1 \in 1..(Len(d) + l)
    BY <1>1, <1>2
  <2>. QED
    BY <1>2, <2>1, <2>2, <2>3
<1> HIDE DEF s
<1>5. Buffer(s, k + 1) = b
  <2>1. Buffer(s, k + 1) = SubSeq(s, (k + 1) + 1, (k + 1) + l)
    BY <1>4 DEF Buffer
  <2>. QED
    BY <1>2, <1>3, <2>1
<1>6. Tras(s, (k + 1) + 1 + l) = c
  <2>1. (k + 1) + 1 + l = Len(d) + Len(b) + 1
    BY <1>1, <1>2
  <2>. QED
    BY <1>3, <2>1 DEF Tras
<1>7. k + 1 \in 1..Len(s)
  <2> HIDE DEF k, l
  <2>1. Len(s) = (k + 1) + l + Len(c)
    BY <1>2, <1>3 DEF l
  <2>. QED
    BY <1>1, <2>1
<1>8. EsBuffer(s, k + 1, b, c)
  BY <1>3, <1>4, <1>5, <1>6, <1>7 DEF EsBuffer
<1>. QED
  BY <1>8 DEF s, d


-----------------------------------------------------------------------------
(* Strings *)

\* The string of a block has n bytes.
EsCadena(b, n) ==
    /\ n \in 0..Len(b)
    /\ \A i \in 1..n : b[i] # NUL
    /\ n < Len(b) => b[n + 1] = NUL

\* Every block has a string.
LEMMA HayCadena ==
    ASSUME NEW S, NEW b \in Seq(S)
    PROVE  \E n : EsCadena(b, n)
<1> DEFINE I == {i \in 1..Len(b) : b[i] = NUL}
<1>1. Len(b) \in Nat
  BY LenProperties
<1>2. CASE I = {}
  <2>1. EsCadena(b, Len(b))
    BY <1>1, <1>2 DEF EsCadena
  <2>. QED
    BY <2>1
<1>3. CASE I # {}
  <2>1. PICK m \in I : \A k \in I : m <= k
    <3>1. I \subseteq Nat
      OBVIOUS
    <3> HIDE DEF I
    <3>. QED
      BY <1>3, <3>1, BuenOrden
  <2>2. m \in 1..Len(b) /\ b[m] = NUL /\ m - 1 \in 0..Len(b) /\ (m - 1) + 1 = m
    BY <1>1, <2>1
  <2>3. \A i \in 1..(m - 1) : b[i] # NUL
    <3>1. ASSUME NEW i \in 1..(m - 1), b[i] = NUL
          PROVE  FALSE
      <4>1. i \in 1..Len(b) /\ ~(m <= i)
        BY <1>1, <2>2
      <4>. QED
        BY <2>1, <3>1, <4>1
    <3>. QED
      BY <3>1
  <2>4. EsCadena(b, m - 1)
    BY <2>2, <2>3 DEF EsCadena
  <2>. QED
    BY <2>4
<1>. QED
  BY <1>2, <1>3

\* Cadena is that string: its first n bytes.
LEMMA CadenaUnica ==
    ASSUME NEW S, NEW b \in Seq(S), NEW n, EsCadena(b, n)
    PROVE  /\ Cadena(b) = SubSeq(b, 1, n)
           /\ Cadena(b) \in Seq(S)
           /\ Len(Cadena(b)) = n
           /\ \A i \in 1..n : Cadena(b)[i] = b[i]
<1> DEFINE I == {i \in 1..Len(b) : b[i] = NUL}
<1>1. Len(b) \in Nat /\ DOMAIN b = 1..Len(b) /\ \A i \in 1..Len(b) : b[i] \in S
  BY LenProperties, ElementOfSeq
<1>2. n \in 0..Len(b) /\ (\A i \in 1..n : b[i] # NUL) /\ (n < Len(b) => b[n + 1] = NUL)
  BY DEF EsCadena
<1>3. Cadena(b) = SubSeq(b, 1, n)
  <2>1. CASE n = Len(b)
    <3>1. ~ \E i \in DOMAIN b : b[i] = NUL
      BY <1>1, <1>2, <2>1
    <3>2. Cadena(b) = b
      BY <3>1 DEF Cadena
    <3>3. SubSeq(b, 1, Len(b)) = b
      BY SubSeqFull
    <3>. QED
      BY <2>1, <3>2, <3>3
  <2>2. CASE n # Len(b)
    <3>1. n + 1 \in 1..Len(b) /\ b[n + 1] = NUL
      <4>1. n < Len(b)
        <5>1. Len(b) \in Nat /\ n \in 0..Len(b)
          BY <1>1, <1>2
        <5> HIDE DEF I
        <5>. QED
          BY <2>2, <5>1
      <4>2. n + 1 \in 1..Len(b)
        BY <1>1, <1>2, <4>1
      <4>. QED
        BY <1>2, <4>1, <4>2
    <3>2. n + 1 \in I /\ \E i \in DOMAIN b : b[i] = NUL
      BY <1>1, <3>1
    <3>3. I \subseteq Nat /\ I # {}
      BY <3>2
    <3>4. \A i \in I : i \in 1..Len(b) /\ ~(i \in 1..n)
      BY <1>2
    <3>5. SelectInSeq(b, LAMBDA x : x = NUL) = Min(I)
      BY <3>3 DEF SelectInSeq
    <3> HIDE DEF I
    <3>6. Min(I) \in I /\ \A i \in I : Min(I) <= i
      BY <3>3, MinimoDe
    <3>7. Min(I) - 1 = n
      BY <1>1, <1>2, <3>2, <3>4, <3>6
    <3>. QED
      BY <3>2, <3>5, <3>7 DEF Cadena
  <2>. QED
    BY <2>1, <2>2
<1>4. SubSeq(b, 1, n) \in Seq(S) /\ Len(SubSeq(b, 1, n)) = n /\ \A i \in 1..n : SubSeq(b, 1, n)[i] = b[i]
  <2>1. n \in Nat /\ \A i \in 1..n : b[i] \in S
    BY <1>1, <1>2
  <2>2. n - 1 + 1 = n /\ (1 <= n \/ n = 0) /\ \A i \in 1..n : 1 + i - 1 = i
    BY <2>1
  <2>3. /\ SubSeq(b, 1, n) \in Seq(S)
        /\ Len(SubSeq(b, 1, n)) = IF 1 <= n THEN n - 1 + 1 ELSE 0
        /\ \A i \in 1..(n - 1 + 1) : SubSeq(b, 1, n)[i] = b[1 + i - 1]
    BY <2>1, SubSeqProperties
  <2>. QED
    BY <2>1, <2>2, <2>3
<1>. QED
  BY <1>3, <1>4

\* The string of a block has no NUL.
LEMMA SinNul ==
    ASSUME NEW S, NEW b \in Seq(S)
    PROVE  Cadena(b) \in Seq(S \ {NUL})
<1>1. PICK n : EsCadena(b, n)
  BY HayCadena
<1>2. n \in 0..Len(b) /\ \A i \in 1..n : b[i] # NUL
  BY <1>1 DEF EsCadena
<1>3. Len(b) \in Nat /\ \A i \in 1..Len(b) : b[i] \in S
  BY LenProperties, ElementOfSeq
<1>4. \A i \in 1..n : b[i] \in S \ {NUL}
  BY <1>2, <1>3
<1>5. n \in Int
  BY <1>2, <1>3
<1>6. SubSeq(b, 1, n) \in Seq(S \ {NUL})
  BY <1>4, <1>5, SubSeqProperties
<1>. QED
  BY <1>1, <1>6, CadenaUnica

\* A string, with a NUL after it.
LEMMA ConNul ==
    ASSUME NEW S, NEW s \in Seq(S), NUL \notin S
    PROVE  Cadena(s \o <<NUL>>) = s
<1> DEFINE T == S \cup {NUL}
           b == s \o <<NUL>>
           n == Len(s)
<1>1. s \in Seq(T) /\ <<NUL>> \in Seq(T) /\ Len(<<NUL>>) = 1 /\ <<NUL>>[1] = NUL /\ n \in Nat
  BY LenProperties, SeqMonotonic
<1>2. /\ b \in Seq(T) /\ Len(b) = n + 1
      /\ \A i \in 1..(n + 1) : b[i] = IF i <= n THEN s[i] ELSE <<NUL>>[i - n]
  BY <1>1, ConcatProperties
<1>3. \A i \in 1..n : s[i] \in S
  BY ElementOfSeq
<1> HIDE DEF b, n
<1>4. \A i \in 1..n : b[i] = s[i] /\ b[i] # NUL
  BY <1>1, <1>2, <1>3
<1>5. b[n + 1] = NUL
  <2>1. n + 1 \in 1..(n + 1) /\ ~(n + 1 <= n) /\ (n + 1) - n = 1
    BY <1>1
  <2>. QED
    BY <1>1, <1>2, <2>1
<1>6. EsCadena(b, n)
  BY <1>1, <1>2, <1>4, <1>5 DEF EsCadena
<1>7. Cadena(b) \in Seq(T) /\ Len(Cadena(b)) = n /\ \A i \in 1..n : Cadena(b)[i] = b[i]
  BY <1>2, <1>6, CadenaUnica
<1>8. Cadena(b) = s
  <2>1. \A i \in 1..Len(Cadena(b)) : Cadena(b)[i] = s[i]
    BY <1>4, <1>7
  <2>. QED
    BY <1>1, <1>7, <2>1, SeqEqual DEF n
<1>. QED
  BY <1>8 DEF b


-----------------------------------------------------------------------------
(* The instructions of a program *)

\* What is in the middle of a stretch of a sequence, and what is around it.
Reunidos(a, h, l, b, r, c) ==
    (a \o ((h \o (l \o b)) \o r)) \o c = (((a \o h) \o l) \o b) \o (r \o c)

\* The same elements, grouped around the ones that are read.
LEMMA Reune ==
    ASSUME NEW S, NEW a \in Seq(S), NEW h \in Seq(S), NEW l \in Seq(S), NEW b \in Seq(S),
           NEW r \in Seq(S), NEW c \in Seq(S)
    PROVE  Reunidos(a, h, l, b, r, c)
<1> DEFINE lb == l \o b
           hlb == h \o lb
           m == a \o hlb
           rc == r \o c
           ah == a \o h
           ahl == ah \o l
<1>1. lb \in Seq(S) /\ rc \in Seq(S) /\ ah \in Seq(S)
  BY ConcatProperties
<1>2. hlb \in Seq(S) /\ ahl \in Seq(S)
  <2> HIDE DEF lb, ah
  <2>. QED
    BY <1>1, ConcatProperties
<1>3. m \in Seq(S)
  <2> HIDE DEF hlb
  <2>. QED
    BY <1>2, ConcatProperties
<1>4. Asociados(a, hlb, r)
  <2> HIDE DEF hlb
  <2>. QED
    BY <1>2, Asocia
<1>5. Asociados(m, r, c)
  <2> HIDE DEF m
  <2>. QED
    BY <1>3, Asocia
<1>6. Asociados(a, h, lb)
  <2> HIDE DEF lb
  <2>. QED
    BY <1>1, Asocia
<1>7. Asociados(ah, l, b)
  <2> HIDE DEF ah
  <2>. QED
    BY <1>1, Asocia
<1>8. a \o (hlb \o r) = m \o r
  BY <1>4 DEF Asociados
<1>9. (m \o r) \o c = m \o rc
  BY <1>5 DEF Asociados
<1>10. m = ah \o lb
  BY <1>6 DEF Asociados
<1>11. ah \o lb = ahl \o b
  BY <1>7 DEF Asociados
<1>12. (a \o (hlb \o r)) \o c = (ahl \o b) \o rc
  <2> HIDE DEF lb, hlb, m, rc, ah, ahl
  <2>. QED
    BY <1>8, <1>9, <1>10, <1>11
<1>. QED
  BY <1>12 DEF Reunidos

\* What goes on the wire: numbers, bytes and NUL, which is neither.
LEMMA CeldasTipo == /\ Int \subseteq Celda /\ NUL \in Celda
                    /\ Int \cup Byte \subseteq Celda /\ NUL \notin Int \cup Byte
BY SerializacionAssumption DEF Celda

\* The parameters of an instruction, as they travel.
Enviados(parametros) == [j \in DOMAIN parametros |-> ConTamanio(parametros[j])]

\* A parameter travels as its size with its NUL, its bytes and the NUL.
LEMMA UnParametro ==
    ASSUME NEW s \in Seq(Int \cup Byte)
    PROVE  LET b == s \o <<NUL>> IN
           /\ b \in Seq(Celda) /\ Len(b) = Len(s) + 1 /\ Cadena(b) = s
           /\ <<Len(b)>> \in Seq(Celda) /\ Len(<<Len(b)>>) = 1
           /\ ConTamanio(s) = <<Len(b)>> \o b
           /\ ConTamanio(s) \in Seq(Celda) /\ Len(ConTamanio(s)) = Len(s) + 2
<1> DEFINE b == s \o <<NUL>>
           l == <<Len(s) + 1>>
<1>1. s \in Seq(Celda) /\ <<NUL>> \in Seq(Celda) /\ Len(<<NUL>>) = 1 /\ Len(s) \in Nat
  BY CeldasTipo, SeqMonotonic, LenProperties
<1>2. b \in Seq(Celda) /\ Len(b) = Len(s) + 1
  BY <1>1, ConcatProperties
<1>3. Cadena(b) = s
  BY ConNul, CeldasTipo
<1>4. l \in Seq(Celda) /\ Len(l) = 1
  BY <1>1, CeldasTipo
<1>5. Asociados(l, s, <<NUL>>)
  <2> HIDE DEF l
  <2>. QED
    BY <1>1, <1>4, Asocia
<1>6. ConTamanio(s) = l \o b
  BY <1>5 DEF Asociados, ConTamanio
<1>7. l \o b \in Seq(Celda) /\ Len(l \o b) = Len(l) + Len(b)
  <2> HIDE DEF l, b
  <2>. QED
    BY <1>2, <1>4, ConcatProperties
<1>8. l = <<Len(b)>>
  BY <1>2
<1>9. Len(l \o b) = Len(s) + 2
  BY <1>1, <1>2, <1>4, <1>7
<1> HIDE DEF l, b
<1>10. ConTamanio(s) \in Seq(Celda) /\ Len(ConTamanio(s)) = Len(s) + 2
  BY <1>6, <1>7, <1>9
<1>. QED
  BY <1>2, <1>3, <1>4, <1>6, <1>8, <1>10 DEF b


\* A function of the first n naturals is a sequence.
LEMMA EsSecuencia ==
    ASSUME NEW S, NEW n \in Nat, NEW e \in [1..n -> S]
    PROVE  e \in Seq(S) /\ Len(e) = n
OBVIOUS

\* From an offset of the stream, these parameters are read, and nothing after fin.
ParametrosLeidos(stream, o, ps, fin) ==
    /\ TrasParametros(stream, o, Len(ps)) = fin
    /\ LeerParametros(stream, o, Len(ps)) = ps

\* There is one for each parameter.
LEMMA EnviadosTipo ==
    ASSUME NEW ps \in Seq(Seq(Int \cup Byte))
    PROVE  /\ Enviados(ps) \in Seq(Seq(Celda)) /\ Len(Enviados(ps)) = Len(ps)
           /\ \A j \in 1..Len(ps) : Enviados(ps)[j] = ConTamanio(ps[j]) /\ ps[j] \in Seq(Int \cup Byte)
<1>1. Len(ps) \in Nat /\ DOMAIN ps = 1..Len(ps) /\ \A j \in 1..Len(ps) : ps[j] \in Seq(Int \cup Byte)
  BY LenProperties, ElementOfSeq
<1> DEFINE e == Enviados(ps)
<1>2. e = [j \in 1..Len(ps) |-> ConTamanio(ps[j])]
  BY <1>1 DEF Enviados
<1>3. \A j \in 1..Len(ps) : ConTamanio(ps[j]) \in Seq(Celda)
  <2>1. ASSUME NEW j \in 1..Len(ps)
        PROVE  ConTamanio(ps[j]) \in Seq(Celda)
    <3>1. ps[j] \in Seq(Int \cup Byte)
      BY <1>1
    <3>. QED
      BY <3>1, UnParametro
  <2>. QED
    BY <2>1
<1> HIDE DEF e
<1>4. e \in [1..Len(ps) -> Seq(Celda)]
  BY <1>2, <1>3
<1>5. e \in Seq(Seq(Celda)) /\ Len(e) = Len(ps)
  BY <1>1, <1>4, EsSecuencia
<1>6. \A j \in 1..Len(ps) : e[j] = ConTamanio(ps[j]) /\ ps[j] \in Seq(Int \cup Byte)
  BY <1>1, <1>2
<1>. QED
  BY <1>5, <1>6 DEF e

\* The concatenation of sequences over S is over S.
LEMMA AplanadoTipo ==
    ASSUME NEW S, NEW seqs \in Seq(Seq(S))
    PROVE  FlattenSeq(seqs) \in Seq(S)
<1>1. PICK g \in [0..Len(seqs) -> Seq(S)] : FlattenSeq(seqs) = g[Len(seqs)]
  BY Aplanado
<1>2. Len(seqs) \in 0..Len(seqs)
  BY LenProperties
<1>. QED
  BY <1>1, <1>2

\* The parameters of an instruction are read back, whatever is around them.
LEMMA Parametros ==
    ASSUME NEW ps \in Seq(Seq(Int \cup Byte)), NEW a \in Seq(Celda), NEW c \in Seq(Celda)
    PROVE  ParametrosLeidos((a \o FlattenSeq(Enviados(ps))) \o c, Len(a) + 1, ps,
                            Len(a) + 1 + Len(FlattenSeq(Enviados(ps))))
<1> DEFINE n == Len(ps)
           e == Enviados(ps)
           P == FlattenSeq(e)
           stream == (a \o P) \o c
           base == Len(a) + 1
<1>1. /\ e \in Seq(Seq(Celda)) /\ Len(e) = n /\ n \in Nat
      /\ \A j \in 1..n : e[j] = ConTamanio(ps[j]) /\ ps[j] \in Seq(Int \cup Byte)
  BY EnviadosTipo, LenProperties
<1> HIDE DEF e
<1>2. PICK h \in [0..n -> Seq(Celda)] : EsAplanado(h, e) /\ P = h[n]
  <2>1. \E h \in [0..Len(e) -> Seq(Celda)] : EsAplanado(h, e) /\ FlattenSeq(e) = h[Len(e)]
    BY <1>1, Aplanado
  <2>. QED
    BY <1>1, <2>1
<1> DEFINE g == [k \in 0..n |-> base + Len(h[k])]
           salto == [o \in DOMAIN stream |-> o + 1 + stream[o]]
<1>3. P \in Seq(Celda) /\ Len(a) \in Nat
  BY <1>1, AplanadoTipo, LenProperties
<1>4. stream \in Seq(Celda)
  BY <1>3, ConcatProperties
<1> HIDE DEF P, stream, salto, g, n
<1>5. ASSUME NEW j \in 1..n
      PROVE  /\ g[j - 1] \in DOMAIN stream
             /\ g[j] = g[j - 1] + 1 + stream[g[j - 1]]
             /\ Cadena(Buffer(stream, g[j - 1])) = ps[j]
  <2> DEFINE s == ps[j]
             b == s \o <<NUL>>
             l == <<Len(b)>>
             hj == h[j - 1]
             ah == a \o hj
  <2>1. s \in Seq(Int \cup Byte) /\ e[j] = ConTamanio(s) /\ j - 1 \in 0..n /\ j \in 0..n
    BY <1>1
  <2> HIDE DEF s
  <2>2. /\ b \in Seq(Celda) /\ Len(b) = Len(s) + 1 /\ Cadena(b) = s
        /\ l \in Seq(Celda) /\ Len(l) = 1
        /\ ConTamanio(s) = l \o b
        /\ ConTamanio(s) \in Seq(Celda) /\ Len(ConTamanio(s)) = Len(s) + 2
    BY <2>1, UnParametro
  <2>3. hj \in Seq(Celda) /\ h[j] \in Seq(Celda) /\ h[j] = hj \o e[j]
    BY <1>1, <1>2, <2>1 DEF EsAplanado
  <2>4. PICK r \in Seq(Celda) : P = (hj \o e[j]) \o r
    <3>1. j \in 1..Len(e) /\ h \in [0..Len(e) -> Seq(Celda)]
      BY <1>1, <1>2
    <3>2. HayTrozo(Celda, e, h, j)
      BY <1>1, <1>2, <3>1, TrozoAplanado
    <3>. QED
      BY <1>1, <1>2, <3>2 DEF HayTrozo
  <2> HIDE DEF hj, b, l
  <2>5. stream = ((ah \o l) \o b) \o (r \o c)
    <3>1. Reunidos(a, hj, l, b, r, c)
      BY <2>2, <2>3, Reune
    <3>2. P = (hj \o (l \o b)) \o r
      BY <2>1, <2>2, <2>4
    <3>. QED
      BY <3>1, <3>2 DEF Reunidos, stream
  <2>6. ah \in Seq(Celda) /\ Len(ah) = Len(a) + Len(hj) /\ r \o c \in Seq(Celda)
    BY <2>3, ConcatProperties
  <2> HIDE DEF ah
  <2>7. EsBuffer(stream, Len(ah) + 1, b, r \o c)
    BY <2>2, <2>5, <2>6, LeeBuffer DEF l
  <2>8. g[j - 1] = Len(ah) + 1 /\ g[j] = base + Len(h[j])
    <3>1. Len(hj) \in Nat
      BY <2>3, LenProperties
    <3>2. g[j - 1] = base + Len(hj) /\ g[j] = base + Len(h[j])
      BY <2>1 DEF g, hj
    <3>3. base + Len(hj) = Len(ah) + 1
      BY <1>3, <2>6, <3>1
    <3>. QED
      BY <3>2, <3>3
  <2>9. Len(h[j]) = Len(hj) + Len(s) + 2
    <3>1. Len(hj \o e[j]) = Len(hj) + Len(e[j])
      <4>1. e[j] \in Seq(Celda)
        BY <2>1, <2>2
      <4>. QED
        BY <2>3, <4>1, ConcatProperties
    <3>2. Len(hj) \in Nat /\ Len(s) \in Nat
      BY <2>1, <2>3, LenProperties
    <3>3. Len(e[j]) = Len(s) + 2 /\ Len(h[j]) = Len(hj \o e[j])
      BY <2>1, <2>2, <2>3
    <3>. QED
      BY <3>1, <3>2, <3>3
  <2>10. g[j - 1] \in DOMAIN stream /\ stream[g[j - 1]] = Len(s) + 1 /\ Buffer(stream, g[j - 1]) = b
    BY <1>4, <2>2, <2>7, <2>8, LenProperties DEF EsBuffer
  <2>11. g[j] = g[j - 1] + 1 + stream[g[j - 1]]
    <3>1. Len(hj) \in Nat /\ Len(s) \in Nat
      BY <2>1, <2>3, LenProperties
    <3>. QED
      BY <1>3, <2>6, <2>8, <2>9, <2>10, <3>1
  <2>. QED
    BY <2>2, <2>10, <2>11 DEF s
<1>6. g[0] = base
  <2>1. h[0] = <<>> /\ 0 \in 0..n
    BY <1>1, <1>2 DEF EsAplanado
  <2>2. g[0] = base + 0
    BY <2>1 DEF g
  <2>. QED
    BY <1>3, <2>2
<1>7. \A k \in 1..n : g[k] = salto[g[k - 1]]
  BY <1>5 DEF salto
<1>8. ASSUME NEW m \in 0..n
      PROVE  TrasParametros(stream, base, m) = g[m]
  <2>1. m \in Nat /\ \A k \in 1..m : k \in 1..n
    BY <1>1
  <2>2. \A k \in 1..m : g[k] = salto[g[k - 1]]
    BY <1>7, <2>1
  <2>3. Iterar(salto, base, m) = g[m]
    BY <1>6, <2>1, <2>2, Recorre
  <2>. QED
    BY <2>3 DEF TrasParametros, salto
<1>9. TrasParametros(stream, base, n) = base + Len(P)
  <2>1. n \in 0..n
    BY <1>1
  <2>. QED
    BY <1>2, <1>8, <2>1 DEF g
<1>10. LeerParametros(stream, base, n) = ps
  <2>1. LeerParametros(stream, base, n) =
           [j \in 1..n |-> Cadena(Buffer(stream, TrasParametros(stream, base, j - 1)))]
    BY DEF LeerParametros
  <2>2. ASSUME NEW j \in 1..n
        PROVE  Cadena(Buffer(stream, TrasParametros(stream, base, j - 1))) = ps[j]
    <3>1. j - 1 \in 0..n
      BY <1>1
    <3>2. TrasParametros(stream, base, j - 1) = g[j - 1]
      BY <1>8, <3>1
    <3>. QED
      BY <1>5, <3>2
  <2>3. LeerParametros(stream, base, n) = [j \in 1..n |-> ps[j]]
    BY <2>1, <2>2
  <2>4. ps = [j \in 1..n |-> ps[j]]
    BY LenProperties DEF n
  <2>. QED
    BY <2>3, <2>4
<1>. QED
  BY <1>9, <1>10 DEF ParametrosLeidos, stream, P, e, n


\* The programs that can be sent.
Instrucciones == Seq([codigo : Int, parametros : Seq(Seq(Int \cup Byte))])

\* The cells of an instruction, and of each one of a program.
Bloque(i) == <<i.codigo, Len(i.parametros)>> \o FlattenSeq(Enviados(i.parametros))
Bloques(instrucciones) == [i \in DOMAIN instrucciones |-> Bloque(instrucciones[i])]

\* An instruction travels as its code, the number of its parameters and these.
LEMMA BloqueTipo ==
    ASSUME NEW i \in [codigo : Int, parametros : Seq(Seq(Int \cup Byte))]
    PROVE  /\ Bloque(i) \in Seq(Celda)
           /\ <<i.codigo, Len(i.parametros)>> \in Seq(Celda)
           /\ FlattenSeq(Enviados(i.parametros)) \in Seq(Celda)
           /\ Len(Bloque(i)) = 2 + Len(FlattenSeq(Enviados(i.parametros)))
<1> DEFINE h == <<i.codigo, Len(i.parametros)>>
           P == FlattenSeq(Enviados(i.parametros))
<1>1. i.parametros \in Seq(Seq(Int \cup Byte)) /\ i.codigo \in Int
  OBVIOUS
<1>2. Len(i.parametros) \in Int
  BY <1>1, LenProperties
<1>3. h \in Seq(Celda) /\ Len(h) = 2
  BY <1>1, <1>2, CeldasTipo
<1>4. P \in Seq(Celda)
  <2> DEFINE e == Enviados(i.parametros)
  <2>1. e \in Seq(Seq(Celda))
    BY <1>1, EnviadosTipo
  <2> HIDE DEF e
  <2>2. FlattenSeq(e) \in Seq(Celda)
    BY <2>1, AplanadoTipo
  <2>. QED
    BY <2>2 DEF e
<1> HIDE DEF h, P
<1>5. h \o P \in Seq(Celda) /\ Len(h \o P) = 2 + Len(P)
  <2>1. h \o P \in Seq(Celda) /\ Len(h \o P) = Len(h) + Len(P)
    BY <1>3, <1>4, ConcatProperties
  <2>. QED
    BY <1>3, <2>1
<1>. QED
  BY <1>3, <1>4, <1>5 DEF h, P, Bloque

\* A program travels as the number of its instructions and these.
LEMMA BloquesTipo ==
    ASSUME NEW is \in Instrucciones
    PROVE  /\ Bloques(is) \in Seq(Seq(Celda)) /\ Len(Bloques(is)) = Len(is)
           /\ \A i \in 1..Len(is) : /\ Bloques(is)[i] = Bloque(is[i])
                                    /\ is[i] \in [codigo : Int, parametros : Seq(Seq(Int \cup Byte))]
           /\ Len(is) \in Nat /\ Len(is) \in Celda
           /\ SerializarInstrucciones(is) = <<Len(is)>> \o FlattenSeq(Bloques(is))
           /\ SerializarInstrucciones(is) \in Seq(Celda)
<1> DEFINE I == [codigo : Int, parametros : Seq(Seq(Int \cup Byte))]
           e == Bloques(is)
<1>0. is \in Seq(I)
  BY DEF Instrucciones
<1> HIDE DEF I
<1>1. Len(is) \in Nat /\ DOMAIN is = 1..Len(is) /\ \A i \in 1..Len(is) : is[i] \in I
  BY <1>0, LenProperties, ElementOfSeq
<1>2. e = [i \in 1..Len(is) |-> Bloque(is[i])]
  BY <1>1 DEF Bloques
<1>3. \A i \in 1..Len(is) : Bloque(is[i]) \in Seq(Celda)
  BY <1>1, BloqueTipo DEF I
<1>7. SerializarInstrucciones(is) = <<Len(is)>> \o FlattenSeq(e)
  BY DEF SerializarInstrucciones, Bloques, Bloque, Enviados
<1> HIDE DEF e
<1>4. e \in [1..Len(is) -> Seq(Celda)]
  BY <1>2, <1>3
<1>5. e \in Seq(Seq(Celda)) /\ Len(e) = Len(is)
  BY <1>1, <1>4, EsSecuencia
<1>6. \A i \in 1..Len(is) : e[i] = Bloque(is[i])
  BY <1>2
<1>8. SerializarInstrucciones(is) \in Seq(Celda)
  <2> DEFINE F == FlattenSeq(e)
             l == <<Len(is)>>
  <2>1. F \in Seq(Celda)
    BY <1>5, AplanadoTipo
  <2>2. l \in Seq(Celda)
    BY <1>1, CeldasTipo
  <2>3. SerializarInstrucciones(is) = l \o F
    BY <1>7
  <2> HIDE DEF l, F
  <2>. QED
    BY <2>1, <2>2, <2>3, ConcatProperties
<1>9. Len(is) \in Celda
  BY <1>1, CeldasTipo
<1>. QED
  BY <1>1, <1>5, <1>6, <1>7, <1>8, <1>9 DEF e, I


\* A program read from the stream it was sent in is the program.
LEMMA InstruccionesVuelven ==
    ASSUME NEW is \in Instrucciones
    PROVE  DeserializarInstrucciones[SerializarInstrucciones(is)] = is
<1> DEFINE n == Len(is)
           e == Bloques(is)
           uno == <<n>>
           F == FlattenSeq(e)
           stream == SerializarInstrucciones(is)
           instruccion == [o \in DOMAIN stream |->
              [codigo |-> stream[o], parametros |-> LeerParametros(stream, o + 2, stream[o + 1])]]
           siguiente == [o \in DOMAIN stream |-> TrasParametros(stream, o + 2, stream[o + 1])]
<1>1. /\ e \in Seq(Seq(Celda)) /\ Len(e) = n
      /\ \A i \in 1..n : /\ e[i] = Bloque(is[i])
                         /\ is[i] \in [codigo : Int, parametros : Seq(Seq(Int \cup Byte))]
      /\ n \in Nat /\ n \in Celda
      /\ stream = uno \o F
      /\ stream \in Seq(Celda)
  BY BloquesTipo
<1>2. uno \in Seq(Celda) /\ Len(uno) = 1 /\ uno[1] = n
  BY <1>1
<1>3. is = [i \in 1..n |-> is[i]]
  BY LenProperties DEF Instrucciones
<1> HIDE DEF e, n, uno
<1>4. PICK g \in [0..n -> Seq(Celda)] : EsAplanado(g, e) /\ F = g[n]
  <2>1. \E h \in [0..Len(e) -> Seq(Celda)] : EsAplanado(h, e) /\ FlattenSeq(e) = h[Len(e)]
    BY <1>1, Aplanado
  <2>. QED
    BY <1>1, <2>1
<1>5. F \in Seq(Celda)
  BY <1>1, AplanadoTipo
<1> HIDE DEF F
<1>6. stream[1] = n
  <2>1. \A i \in 1..Len(uno) : (uno \o F)[i] = uno[i]
    BY <1>2, <1>5, Prolonga
  <2>2. 1 \in 1..Len(uno)
    BY <1>2
  <2>3. (uno \o F)[1] = n
    BY <1>2, <2>1, <2>2
  <2>. QED
    BY <1>1, <2>3
<1>7. DeserializarInstrucciones[stream] =
         [i \in 1..stream[1] |-> instruccion[Iterar(siguiente, 2, i - 1)]]
  <2>1. \A s \in Seq(Celda) : DeserializarInstrucciones[s] =
          LET ins == [o \in DOMAIN s |->
                [codigo |-> s[o], parametros |-> LeerParametros(s, o + 2, s[o + 1])]]
              sig == [o \in DOMAIN s |-> TrasParametros(s, o + 2, s[o + 1])]
          IN [i \in 1..s[1] |-> ins[Iterar(sig, 2, i - 1)]]
    BY DEF DeserializarInstrucciones
  <2> HIDE DEF stream
  <2>. QED
    BY <1>1, <2>1
<1> DEFINE o == [k \in 0..n |-> 2 + Len(g[k])]
<1> HIDE DEF stream, o, instruccion, siguiente
<1>8. ASSUME NEW i \in 1..n
      PROVE  siguiente[o[i - 1]] = o[i] /\ instruccion[o[i - 1]] = is[i]
  <2> DEFINE ps == is[i].parametros
             P == FlattenSeq(Enviados(ps))
             h == <<is[i].codigo, Len(ps)>>
             G == g[i - 1]
             a == uno \o G
             ah == a \o h
  <2>1. is[i] \in [codigo : Int, parametros : Seq(Seq(Int \cup Byte))] /\ e[i] = Bloque(is[i])
    BY <1>1
  <2>2. ps \in Seq(Seq(Int \cup Byte)) /\ is[i] = [codigo |-> is[i].codigo, parametros |-> ps]
    BY <2>1
  <2>3. /\ e[i] = h \o P /\ e[i] \in Seq(Celda) /\ P \in Seq(Celda) /\ h \in Seq(Celda)
        /\ Len(e[i]) = 2 + Len(P) /\ Len(h) = 2 /\ h[1] = is[i].codigo /\ h[2] = Len(ps)
    BY <2>1, BloqueTipo DEF Bloque
  <2>4. i - 1 \in 0..n /\ i \in 0..n
    BY <1>1
  <2>5. G \in Seq(Celda) /\ g[i] \in Seq(Celda) /\ g[i] = G \o e[i]
    BY <1>1, <1>4, <2>4 DEF EsAplanado
  <2>6. PICK r \in Seq(Celda) : F = (G \o e[i]) \o r
    <3>1. i \in 1..Len(e) /\ g \in [0..Len(e) -> Seq(Celda)]
      BY <1>1, <1>4
    <3>2. HayTrozo(Celda, e, g, i)
      BY <1>1, <1>4, <3>1, TrozoAplanado
    <3>. QED
      BY <1>1, <1>4, <3>2 DEF HayTrozo
  <2> HIDE DEF G, P, h, ps
  <2>7. stream = (ah \o P) \o r
    <3> DEFINE x == (G \o (h \o P)) \o r
    <3>1. Reunidos(uno, G, h, P, r, <<>>)
      <4>1. <<>> \in Seq(Celda)
        OBVIOUS
      <4>. QED
        BY <1>2, <2>3, <2>5, <4>1, Reune
    <3>2. x = F
      BY <2>3, <2>6
    <3>3. (uno \o F) \o <<>> = (ah \o P) \o (r \o <<>>)
      BY <3>1, <3>2 DEF Reunidos
    <3>4. (uno \o F) \o <<>> = stream
      BY <1>1, ConcatEmptySeq
    <3>5. r \o <<>> = r
      BY ConcatEmptySeq
    <3>. QED
      BY <3>3, <3>4, <3>5
  <2>8. a \in Seq(Celda) /\ Len(a) = 1 + Len(G)
    <3>1. a \in Seq(Celda) /\ Len(a) = Len(uno) + Len(G)
      BY <1>2, <2>5, ConcatProperties
    <3>. QED
      BY <1>2, <3>1
  <2> HIDE DEF a
  <2>9. ah \in Seq(Celda) /\ Len(ah) = 3 + Len(G) /\ Len(G) \in Nat
        /\ \A j \in 1..2 : ah[1 + Len(G) + j] = h[j]
    <3>1. ah \in Seq(Celda) /\ Len(ah) = Len(a) + Len(h)
          /\ \A k \in 1..(Len(a) + Len(h)) : ah[k] = IF k <= Len(a) THEN a[k] ELSE h[k - Len(a)]
      BY <2>3, <2>8, ConcatProperties
    <3>2. Len(G) \in Nat
      BY <2>5, LenProperties
    <3> HIDE DEF ah
    <3>3. ASSUME NEW j \in 1..2
          PROVE  ah[1 + Len(G) + j] = h[j]
      <4> DEFINE k == 1 + Len(G) + j
      <4>1. k \in 1..(Len(a) + Len(h)) /\ ~(k <= Len(a)) /\ k - Len(a) = j
        BY <2>3, <2>8, <3>2
      <4> HIDE DEF k
      <4>2. ah[k] = h[j]
        BY <3>1, <4>1
      <4>. QED
        BY <4>2 DEF k
    <3>4. Len(a) + Len(h) = 3 + Len(G)
      BY <2>3, <2>8, <3>2
    <3>. QED
      BY <3>1, <3>2, <3>3, <3>4
  <2> HIDE DEF ah
  <2>10. ParametrosLeidos(stream, Len(ah) + 1, ps, Len(ah) + 1 + Len(P))
    BY <2>2, <2>7, <2>9, Parametros DEF P
  <2>11. /\ ah \o P \in Seq(Celda) /\ Len(ah \o P) = Len(ah) + Len(P)
         /\ \A k \in 1..Len(ah) : (ah \o P)[k] = ah[k]
    BY <2>3, <2>9, Prolonga
  <2>12. /\ Len(stream) = Len(ah \o P) + Len(r)
         /\ \A k \in 1..Len(ah \o P) : stream[k] = (ah \o P)[k]
    <3> DEFINE x == ah \o P
    <3>1. x \in Seq(Celda)
      BY <2>11
    <3>2. stream = x \o r
      BY <2>7
    <3> HIDE DEF x
    <3>3. Len(stream) = Len(x) + Len(r) /\ \A k \in 1..Len(x) : stream[k] = x[k]
      BY <3>1, <3>2, Prolonga
    <3>. QED
      BY <3>3 DEF x
  <2>13. o[i - 1] = 2 + Len(G) /\ o[i] = 2 + Len(g[i])
    BY <2>4 DEF o, G
  <2>14. Len(P) \in Nat /\ Len(r) \in Nat /\ Len(g[i]) = Len(G) + 2 + Len(P)
    <3>1. Len(P) \in Nat /\ Len(r) \in Nat
      BY <2>3, LenProperties
    <3>2. Len(G \o e[i]) = Len(G) + Len(e[i])
      BY <2>3, <2>5, ConcatProperties
    <3>. QED
      BY <2>3, <2>5, <2>9, <3>1, <3>2
  <2>15. \A k \in 1..Len(ah) : k \in 1..Len(stream) /\ stream[k] = ah[k]
    BY <2>9, <2>11, <2>12, <2>14
  <2>16. /\ o[i - 1] \in DOMAIN stream /\ stream[o[i - 1]] = is[i].codigo
         /\ stream[o[i - 1] + 1] = Len(ps)
    <3>1. 1 \in 1..2 /\ 2 \in 1..2 /\ 1 + Len(G) + 1 = o[i - 1] /\ 1 + Len(G) + 2 = o[i - 1] + 1
      BY <2>9, <2>13
    <3>2. ah[o[i - 1]] = h[1] /\ ah[o[i - 1] + 1] = h[2]
      BY <2>9, <3>1
    <3>3. o[i - 1] \in 1..Len(ah) /\ o[i - 1] + 1 \in 1..Len(ah)
      BY <2>9, <2>13
    <3>4. DOMAIN stream = 1..Len(stream)
      BY <1>1, LenProperties
    <3>. QED
      BY <2>3, <2>15, <3>2, <3>3, <3>4
  <2>17. o[i - 1] + 2 = Len(ah) + 1 /\ Len(ah) + 1 + Len(P) = o[i]
    BY <2>9, <2>13, <2>14
  <2>18. TrasParametros(stream, o[i - 1] + 2, Len(ps)) = o[i]
         /\ LeerParametros(stream, o[i - 1] + 2, Len(ps)) = ps
    BY <2>10, <2>17 DEF ParametrosLeidos
  <2>19. siguiente[o[i - 1]] = o[i]
    BY <2>16, <2>18 DEF siguiente
  <2>20. instruccion[o[i - 1]] = [codigo |-> is[i].codigo, parametros |-> ps]
    BY <2>16, <2>18 DEF instruccion
  <2>. QED
    BY <2>2, <2>19, <2>20
<1>9. o[0] = 2
  <2>1. g[0] = <<>> /\ 0 \in 0..n
    BY <1>1, <1>4 DEF EsAplanado
  <2>. QED
    BY <2>1 DEF o
<1>10. ASSUME NEW i \in 1..n
       PROVE  instruccion[Iterar(siguiente, 2, i - 1)] = is[i]
  <2> DEFINE m == i - 1
  <2>1. m \in Nat /\ \A k \in 1..m : k \in 1..n
    BY <1>1
  <2>2. \A k \in 1..m : o[k] = siguiente[o[k - 1]]
    BY <1>8, <2>1
  <2> HIDE DEF m
  <2>3. Iterar(siguiente, 2, m) = o[m]
    BY <1>9, <2>1, <2>2, Recorre
  <2>. QED
    BY <1>8, <2>3 DEF m
<1>11. DeserializarInstrucciones[stream] = [i \in 1..n |-> is[i]]
  BY <1>6, <1>7, <1>10
<1>. QED
  BY <1>3, <1>11 DEF stream


-----------------------------------------------------------------------------
(* Tables of segments, and registers *)

\* The elements of the middle one of three sequences.
EnMedio(a, b, c) == \A k \in 1..Len(b) : ((a \o b) \o c)[Len(a) + k] = b[k]

\* They are where they should be.
LEMMA Dentro ==
    ASSUME NEW S, NEW a \in Seq(S), NEW b \in Seq(S), NEW c \in Seq(S)
    PROVE  EnMedio(a, b, c)
<1> DEFINE ab == a \o b
           s == ab \o c
<1>1. /\ ab \in Seq(S) /\ Len(ab) = Len(a) + Len(b)
      /\ \A i \in 1..(Len(a) + Len(b)) : ab[i] = IF i <= Len(a) THEN a[i] ELSE b[i - Len(a)]
  BY ConcatProperties
<1>2. Len(a) \in Nat /\ Len(b) \in Nat
  BY LenProperties
<1> HIDE DEF ab
<1>3. \A i \in 1..Len(ab) : s[i] = ab[i]
  BY <1>1, Prolonga
<1> HIDE DEF s
<1>4. ASSUME NEW k \in 1..Len(b)
      PROVE  s[Len(a) + k] = b[k]
  <2>1. /\ Len(a) + k \in 1..(Len(a) + Len(b)) /\ ~(Len(a) + k <= Len(a))
        /\ (Len(a) + k) - Len(a) = k
    BY <1>2
  <2>. QED
    BY <1>1, <1>3, <2>1
<1>. QED
  BY <1>4 DEF s, ab, EnMedio

\* The rows of a table of segments.
Segmentos == [descriptor_id : Int, segmento_id : Int, inicio : Int, tam_segmento : Int]

\* The cells of a segment, and of each one of a table.
Fila(s) == <<s.descriptor_id, s.segmento_id, s.inicio, s.tam_segmento>>
Filas(tabla) == [i \in DOMAIN tabla |-> Fila(tabla[i])]

\* A row travels as its four numbers.
LEMMA FilaTipo ==
    ASSUME NEW s \in Segmentos
    PROVE  /\ Fila(s) \in Seq(Celda) /\ Len(Fila(s)) = 4
           /\ s = [descriptor_id |-> Fila(s)[1], segmento_id |-> Fila(s)[2],
                   inicio |-> Fila(s)[3], tam_segmento |-> Fila(s)[4]]
<1>1. /\ s.descriptor_id \in Int /\ s.segmento_id \in Int /\ s.inicio \in Int
      /\ s.tam_segmento \in Int
      /\ s = [descriptor_id |-> s.descriptor_id, segmento_id |-> s.segmento_id,
              inicio |-> s.inicio, tam_segmento |-> s.tam_segmento]
  BY DEF Segmentos
<1>2. Fila(s) \in Seq(Celda) /\ Len(Fila(s)) = 4
  BY <1>1, CeldasTipo DEF Fila
<1>3. Fila(s)[1] = s.descriptor_id /\ Fila(s)[2] = s.segmento_id /\ Fila(s)[3] = s.inicio
      /\ Fila(s)[4] = s.tam_segmento
  BY DEF Fila
<1>. QED
  BY <1>1, <1>2, <1>3

\* A table read from the stream it was sent in is the table.
LEMMA TablaVuelve ==
    ASSUME NEW t \in Seq(Segmentos)
    PROVE  /\ SerializarTablaSegmentos(t) \in Seq(Celda)
           /\ DeserializarTablaSegmentos[SerializarTablaSegmentos(t)] = t
<1> DEFINE n == Len(t)
           e == Filas(t)
           F == FlattenSeq(e)
           uno == <<n>>
           stream == SerializarTablaSegmentos(t)
<1>1. n \in Nat /\ DOMAIN t = 1..n /\ (\A i \in 1..n : t[i] \in Segmentos)
      /\ t = [i \in 1..n |-> t[i]]
  BY LenProperties, ElementOfSeq
<1>2. uno \in Seq(Celda) /\ Len(uno) = 1 /\ uno[1] = n
  BY <1>1, CeldasTipo
<1>3. e = [i \in 1..n |-> Fila(t[i])]
  BY <1>1 DEF Filas
<1>4. \A i \in 1..n : Fila(t[i]) \in Seq(Celda) /\ Len(Fila(t[i])) = 4
  BY <1>1, FilaTipo
<1>5. stream = uno \o F
  BY DEF SerializarTablaSegmentos, Filas, Fila
<1> HIDE DEF n, e, uno, stream
<1>6. e \in Seq(Seq(Celda)) /\ Len(e) = n /\ \A i \in 1..n : e[i] = Fila(t[i])
  <2>1. e \in [1..n -> Seq(Celda)] /\ \A i \in 1..n : e[i] = Fila(t[i])
    BY <1>3, <1>4
  <2>. QED
    BY <1>1, <2>1, EsSecuencia
<1>7. PICK g \in [0..n -> Seq(Celda)] : EsAplanado(g, e) /\ F = g[n]
  <2>1. \E h \in [0..Len(e) -> Seq(Celda)] : EsAplanado(h, e) /\ FlattenSeq(e) = h[Len(e)]
    BY <1>6, Aplanado
  <2>. QED
    BY <1>6, <2>1
<1>8. F \in Seq(Celda)
  BY <1>6, AplanadoTipo
<1> HIDE DEF F
<1>9. stream \in Seq(Celda)
  BY <1>2, <1>5, <1>8, ConcatProperties
<1>10. stream[1] = n
  <2>1. \A i \in 1..Len(uno) : (uno \o F)[i] = uno[i]
    BY <1>2, <1>8, Prolonga
  <2>2. 1 \in 1..Len(uno)
    BY <1>2
  <2>3. (uno \o F)[1] = n
    BY <1>2, <2>1, <2>2
  <2>. QED
    BY <1>5, <2>3
<1> DEFINE Q == {k \in 0..n : Len(g[k]) = 4 * k}
<1>11. \A k \in 0..n : k \in Q
  <2>1. 0 \in Q
    BY <1>1, <1>7 DEF EsAplanado
  <2>2. ASSUME NEW k \in 0..(n - 1), k \in Q
        PROVE  k + 1 \in Q
    <3>1. k + 1 \in 1..n /\ k \in 0..n /\ (k + 1) - 1 = k /\ k + 1 \in 0..n
      BY <1>1
    <3>2. g[k + 1] = g[k] \o e[k + 1] /\ g[k] \in Seq(Celda)
      BY <1>6, <1>7, <3>1 DEF EsAplanado
    <3>3. e[k + 1] \in Seq(Celda) /\ Len(e[k + 1]) = 4
      BY <1>4, <1>6, <3>1
    <3>4. Len(g[k] \o e[k + 1]) = Len(g[k]) + Len(e[k + 1])
      BY <3>2, <3>3, ConcatProperties
    <3>5. Len(g[k]) = 4 * k
      BY <2>2
    <3>6. Len(g[k + 1]) = 4 * k + 4
      BY <3>2, <3>3, <3>4, <3>5
    <3>. QED
      BY <1>1, <3>1, <3>6
  <2> HIDE DEF Q
  <2>. QED
    BY <1>1, <2>1, <2>2, InduccionHasta
<1>12. ASSUME NEW i \in 1..n
       PROVE  LET o == 4 * i - 2 IN
              t[i] = [descriptor_id |-> stream[o], segmento_id |-> stream[o + 1],
                      inicio |-> stream[o + 2], tam_segmento |-> stream[o + 3]]
  <2> DEFINE f == Fila(t[i])
             G == g[i - 1]
             a == uno \o G
             o == 4 * i - 2
  <2>1. i - 1 \in 0..n /\ i \in Nat
    BY <1>1
  <2>2. G \in Seq(Celda) /\ Len(G) = 4 * (i - 1)
    BY <1>7, <1>11, <2>1
  <2>3. f \in Seq(Celda) /\ Len(f) = 4 /\ e[i] = f
        /\ t[i] = [descriptor_id |-> f[1], segmento_id |-> f[2], inicio |-> f[3],
                   tam_segmento |-> f[4]]
    BY <1>1, <1>6, FilaTipo
  <2>4. PICK r \in Seq(Celda) : F = (G \o e[i]) \o r
    <3>1. i \in 1..Len(e) /\ g \in [0..Len(e) -> Seq(Celda)]
      BY <1>6, <1>7
    <3>2. HayTrozo(Celda, e, g, i)
      BY <1>6, <1>7, <3>1, TrozoAplanado
    <3>. QED
      BY <1>6, <1>7, <3>2 DEF HayTrozo
  <2> HIDE DEF f, G
  <2>5. stream = (a \o f) \o r
    <3> DEFINE Gf == G \o f
    <3>1. Gf \in Seq(Celda)
      BY <2>2, <2>3, ConcatProperties
    <3>2. Asociados(uno, G, f)
      BY <1>2, <2>2, <2>3, Asocia
    <3>3. Asociados(uno, Gf, r)
      <4> HIDE DEF Gf
      <4>. QED
        BY <1>2, <3>1, Asocia
    <3>4. uno \o Gf = a \o f
      BY <3>2 DEF Asociados
    <3>5. uno \o (Gf \o r) = (uno \o Gf) \o r
      BY <3>3 DEF Asociados
    <3>6. F = Gf \o r
      BY <2>3, <2>4
    <3> HIDE DEF Gf, a
    <3>. QED
      BY <1>5, <3>4, <3>5, <3>6
  <2>6. a \in Seq(Celda) /\ Len(a) = 1 + Len(G)
    <3>1. a \in Seq(Celda) /\ Len(a) = Len(uno) + Len(G)
      BY <1>2, <2>2, ConcatProperties
    <3>. QED
      BY <1>2, <3>1
  <2> HIDE DEF a
  <2>7. \A k \in 1..Len(f) : ((a \o f) \o r)[Len(a) + k] = f[k]
    <3>1. EnMedio(a, f, r)
      BY <2>3, <2>6, Dentro
    <3>. QED
      BY <3>1 DEF EnMedio
  <2>8. Len(a) + 1 = o /\ Len(a) + 2 = o + 1 /\ Len(a) + 3 = o + 2 /\ Len(a) + 4 = o + 3
    <3>1. Len(a) = 4 * i - 3
      BY <2>1, <2>2, <2>6
    <3>. QED
      BY <2>1, <3>1
  <2>9. \A k \in 1..4 : stream[Len(a) + k] = f[k]
    BY <2>3, <2>5, <2>7
  <2>10. stream[o] = f[1] /\ stream[o + 1] = f[2] /\ stream[o + 2] = f[3] /\ stream[o + 3] = f[4]
    <3>1. 1 \in 1..4 /\ 2 \in 1..4 /\ 3 \in 1..4 /\ 4 \in 1..4
      OBVIOUS
    <3> HIDE DEF o
    <3>. QED
      BY <2>8, <2>9, <3>1
  <2> HIDE DEF o
  <2>11. t[i] = [descriptor_id |-> stream[o], segmento_id |-> stream[o + 1],
                 inicio |-> stream[o + 2], tam_segmento |-> stream[o + 3]]
    BY <2>3, <2>10
  <2>. QED
    BY <2>11 DEF o
<1>13. DeserializarTablaSegmentos[stream] =
          [i \in 1..stream[1] |->
             LET o == 4 * i - 2 IN
             [descriptor_id |-> stream[o], segmento_id |-> stream[o + 1],
              inicio |-> stream[o + 2], tam_segmento |-> stream[o + 3]]]
  BY <1>9 DEF DeserializarTablaSegmentos
<1>14. DeserializarTablaSegmentos[stream] = [i \in 1..n |-> t[i]]
  BY <1>10, <1>12, <1>13
<1>. QED
  BY <1>1, <1>9, <1>14 DEF stream


\* The registers the CPU has, each with its width.
LEMMA RegistrosTipo ==
    /\ Len(REGISTROS) \in Nat /\ DOMAIN REGISTROS = 1..Len(REGISTROS)
    /\ \A k \in 1..Len(REGISTROS) : REGISTROS[k] \in Range(REGISTROS)
    /\ \A r \in Range(REGISTROS) : \E k \in 1..Len(REGISTROS) : REGISTROS[k] = r
    /\ \A r \in Range(REGISTROS) : ANCHO[r] \in Nat /\ ANCHO[r] > 0
    /\ DOMAIN ANCHO = Range(REGISTROS)
<1>1. REGISTROS \in Seq(Byte) /\ ANCHO \in [Range(REGISTROS) -> Nat \ {0}]
  BY SerializacionAssumption
<1>2. Len(REGISTROS) \in Nat /\ DOMAIN REGISTROS = 1..Len(REGISTROS)
  BY <1>1, LenProperties
<1>3. Range(REGISTROS) = {REGISTROS[k] : k \in 1..Len(REGISTROS)}
  BY <1>2 DEF Range
<1>. QED
  BY <1>1, <1>2, <1>3

\* Where each register starts: after the one before.
LEMMA DesdePasos ==
    /\ Desde[1] = 1
    /\ \A k \in 1..Len(REGISTROS) : Desde[k + 1] = Desde[k] + ANCHO[REGISTROS[k]] + 1
<1> DEFINE n == Len(REGISTROS)
           F == [y \in Nat \X (1..n) |-> y[1] + ANCHO[REGISTROS[y[2]]] + 1]
           G(f) == f = [k \in 1..n + 1 |->
                           IF k = 1 THEN 1 ELSE f[k - 1] + ANCHO[REGISTROS[k - 1]] + 1]
<1>1. n \in Nat /\ \A k \in 1..n : ANCHO[REGISTROS[k]] \in Nat
  BY RegistrosTipo
<1>2. \A x \in Nat : \A k \in 1..n : F[<<x, k>>] = x + ANCHO[REGISTROS[k]] + 1
  OBVIOUS
<1>3. Cerrada(F, n, Nat)
  <2>1. ASSUME NEW x \in Nat, NEW k \in 1..n
        PROVE  F[<<x, k>>] \in Nat
    <3>1. F[<<x, k>>] = x + ANCHO[REGISTROS[k]] + 1 /\ ANCHO[REGISTROS[k]] \in Nat
      BY <1>1, <1>2
    <3> HIDE DEF F
    <3>. QED
      BY <3>1
  <2>. QED
    BY <2>1 DEF Cerrada
<1> HIDE DEF F, n
<1>4. PICK f : PorPasos(f, n, Nat, 1, F)
  <2>1. \E f : PorPasos(f, n, Nat, 1, F)
    BY <1>1, <1>3, PasoAPaso
  <2>. QED
    BY <2>1
<1>5. /\ f \in [0..n -> Nat] /\ f[0] = 1
      /\ \A k \in 1..n : f[k] = F[<<f[k - 1], k>>]
  BY <1>4 DEF PorPasos
<1> DEFINE h == [k \in 1..n + 1 |-> f[k - 1]]
<1>6. G(h)
  <2>1. ASSUME NEW k \in 1..n + 1
        PROVE  h[k] = IF k = 1 THEN 1 ELSE h[k - 1] + ANCHO[REGISTROS[k - 1]] + 1
    <3>1. CASE k = 1
      BY <1>1, <1>5, <3>1
    <3>2. CASE k # 1
      <4>1. k - 1 \in 1..n /\ k - 1 \in 1..n + 1 /\ (k - 1) - 1 \in 0..n
        BY <1>1, <3>2
      <4>2. f[k - 1] = F[<<f[(k - 1) - 1], k - 1>>] /\ f[(k - 1) - 1] \in Nat
        BY <1>5, <4>1
      <4>3. f[k - 1] = f[(k - 1) - 1] + ANCHO[REGISTROS[k - 1]] + 1
        BY <1>2, <4>1, <4>2
      <4>4. h[k] = f[k - 1] /\ h[k - 1] = f[(k - 1) - 1]
        BY <4>1
      <4> HIDE DEF h
      <4>. QED
        BY <3>2, <4>3, <4>4
    <3>. QED
      BY <3>1, <3>2
  <2>2. h = [k \in 1..n + 1 |-> h[k]]
    OBVIOUS
  <2> HIDE DEF h
  <2>3. h = [k \in 1..n + 1 |-> IF k = 1 THEN 1 ELSE h[k - 1] + ANCHO[REGISTROS[k - 1]] + 1]
    BY <2>1, <2>2
  <2>. QED
    BY <2>3
<1>7. Desde = CHOOSE x : G(x)
  BY DEF Desde, n
<1> HIDE DEF G
<1>8. G(Desde)
  BY <1>6, <1>7
<1> HIDE DEF h
<1>9. \A k \in 1..n + 1 :
         Desde[k] = IF k = 1 THEN 1 ELSE Desde[k - 1] + ANCHO[REGISTROS[k - 1]] + 1
  BY <1>8 DEF G
<1>10. Desde[1] = 1
  BY <1>1, <1>9
<1>11. ASSUME NEW k \in 1..n
       PROVE  Desde[k + 1] = Desde[k] + ANCHO[REGISTROS[k]] + 1
  <2>1. k + 1 \in 1..n + 1 /\ k + 1 # 1 /\ (k + 1) - 1 = k
    BY <1>1
  <2>. QED
    BY <1>9, <2>1
<1>. QED
  BY <1>10, <1>11 DEF n

\* The registers, as they travel.
Enteros(rs) ==
    /\ rs = [r \in Range(REGISTROS) |-> rs[r]]
    /\ \A r \in Range(REGISTROS) : rs[r] \in Seq(Celda) /\ Len(rs[r]) = ANCHO[r] + 1
RegistrosEnviados(rs) == FlattenSeq([k \in DOMAIN REGISTROS |-> rs[REGISTROS[k]]])

\* Registers read from the stream they were sent in are the registers.
LEMMA RegistrosVuelven ==
    ASSUME NEW rs, Enteros(rs)
    PROVE  /\ RegistrosEnviados(rs) \in Seq(Celda)
           /\ Len(RegistrosEnviados(rs)) = SizeOfRegistros
           /\ RecibirRegistros[RegistrosEnviados(rs)] = rs
<1> DEFINE n == Len(REGISTROS)
           e == [k \in DOMAIN REGISTROS |-> rs[REGISTROS[k]]]
           stream == FlattenSeq(e)
<1>1. n \in Nat /\ DOMAIN REGISTROS = 1..n
  BY RegistrosTipo
<1>2. \A k \in 1..n : rs[REGISTROS[k]] \in Seq(Celda)
                      /\ Len(rs[REGISTROS[k]]) = ANCHO[REGISTROS[k]] + 1
  BY RegistrosTipo DEF Enteros
<1>3. e \in [1..n -> Seq(Celda)] /\ \A k \in 1..n : e[k] = rs[REGISTROS[k]]
  BY <1>1, <1>2
<1> HIDE DEF e, n
<1>4. e \in Seq(Seq(Celda)) /\ Len(e) = n
  BY <1>1, <1>3, EsSecuencia
<1>5. PICK g \in [0..n -> Seq(Celda)] : EsAplanado(g, e) /\ stream = g[n]
  <2>1. \E h \in [0..Len(e) -> Seq(Celda)] : EsAplanado(h, e) /\ FlattenSeq(e) = h[Len(e)]
    BY <1>4, Aplanado
  <2>. QED
    BY <1>4, <2>1
<1>6. stream \in Seq(Celda)
  BY <1>4, AplanadoTipo
<1> DEFINE Q == {k \in 0..n : Len(g[k]) = Desde[k + 1] - 1}
<1>7. \A k \in 0..n : k \in Q /\ Desde[k + 1] = Len(g[k]) + 1
  <2>0. \A k \in 0..n : Len(g[k]) \in Nat
    <3>1. ASSUME NEW k \in 0..n
          PROVE  Len(g[k]) \in Nat
      <4>1. g[k] \in Seq(Celda)
        BY <1>5
      <4>. QED
        BY <4>1, LenProperties
    <3>. QED
      BY <3>1
  <2> DEFINE R == {k \in 0..n : Desde[k + 1] = Len(g[k]) + 1}
  <2>1. 0 \in R
    <3>1. Desde[1] = 1 /\ Len(g[0]) = 0
      BY <1>5, DesdePasos DEF EsAplanado
    <3>. QED
      BY <1>1, <3>1
  <2>2. ASSUME NEW k \in 0..(n - 1), k \in R
        PROVE  k + 1 \in R
    <3>1. k + 1 \in 1..n /\ k \in 0..n /\ (k + 1) - 1 = k /\ k + 1 \in 0..n
      BY <1>1
    <3>2. g[k + 1] = g[k] \o e[k + 1] /\ g[k] \in Seq(Celda)
      BY <1>4, <1>5, <3>1 DEF EsAplanado
    <3>3. e[k + 1] \in Seq(Celda) /\ Len(e[k + 1]) = ANCHO[REGISTROS[k + 1]] + 1
      BY <1>2, <1>3, <3>1
    <3>4. Len(g[k] \o e[k + 1]) = Len(g[k]) + Len(e[k + 1])
      BY <3>2, <3>3, ConcatProperties
    <3>5. Desde[(k + 1) + 1] = Desde[k + 1] + ANCHO[REGISTROS[k + 1]] + 1
      BY <3>1, DesdePasos DEF n
    <3>6. ANCHO[REGISTROS[k + 1]] \in Nat
      BY <3>1, RegistrosTipo DEF n
    <3>7. Desde[k + 1] = Len(g[k]) + 1 /\ Len(g[k]) \in Nat
      BY <2>0, <2>2, <3>1
    <3>8. Len(g[k + 1]) = Len(g[k]) + (ANCHO[REGISTROS[k + 1]] + 1)
      BY <3>2, <3>3, <3>4
    <3>9. Desde[(k + 1) + 1] = Len(g[k + 1]) + 1
      <4> DEFINE w == ANCHO[REGISTROS[k + 1]]
                 x == Desde[k + 1]
                 y == Desde[(k + 1) + 1]
                 l == Len(g[k])
                 m == Len(g[k + 1])
      <4>1. y = x + w + 1 /\ w \in Nat /\ x = l + 1 /\ l \in Nat /\ m = l + (w + 1)
        BY <3>5, <3>6, <3>7, <3>8
      <4> HIDE DEF w, x, y, l, m
      <4>2. y = m + 1
        BY <4>1
      <4>. QED
        BY <4>2 DEF y, m
    <3>. QED
      BY <3>1, <3>9
  <2>3. \A k \in 0..n : k \in R
    <3> HIDE DEF R
    <3>. QED
      BY <1>1, <2>1, <2>2, InduccionHasta
  <2>. QED
    BY <2>0, <2>3
<1>8. Len(stream) = SizeOfRegistros
  <2>1. n \in 0..n
    BY <1>1
  <2>. QED
    BY <1>5, <1>7, <2>1 DEF SizeOfRegistros, n
<1> HIDE DEF stream, Q
<1>9. ASSUME NEW r \in Range(REGISTROS)
      PROVE  LET k == SelectInSeq(REGISTROS, LAMBDA q : q = r)
             IN [i \in 1..ANCHO[r] + 1 |-> stream[Desde[k] + i - 1]] = rs[r]
  <2> DEFINE k == SelectInSeq(REGISTROS, LAMBDA q : q = r)
             I == {i \in 1..Len(REGISTROS) : REGISTROS[i] = r}
  <2>1. I # {} /\ I \subseteq Nat
    BY RegistrosTipo
  <2>2. k = Min(I)
    BY <2>1 DEF SelectInSeq
  <2> HIDE DEF k
  <2>3. k \in I
    <3> HIDE DEF I
    <3>. QED
      BY <2>1, <2>2, MinimoDe
  <2>4. k \in 1..n /\ REGISTROS[k] = r /\ k - 1 \in 0..n /\ (k - 1) + 1 = k
    BY <1>1, <2>3 DEF n
  <2> HIDE DEF I
  <2> DEFINE G == g[k - 1]
  <2>5. G \in Seq(Celda) /\ Desde[k] = Len(G) + 1 /\ Len(G) \in Nat
    <3>1. G \in Seq(Celda) /\ Desde[(k - 1) + 1] = Len(G) + 1
      BY <1>5, <1>7, <2>4
    <3> HIDE DEF G
    <3>. QED
      BY <2>4, <3>1, LenProperties
  <2>6. e[k] = rs[r] /\ e[k] \in Seq(Celda) /\ Len(e[k]) = ANCHO[r] + 1
    BY <1>2, <1>3, <2>4
  <2>7. PICK x \in Seq(Celda) : stream = (G \o e[k]) \o x
    <3>1. k \in 1..Len(e) /\ g \in [0..Len(e) -> Seq(Celda)]
      BY <1>4, <1>5, <2>4
    <3>2. HayTrozo(Celda, e, g, k)
      BY <1>4, <1>5, <3>1, TrozoAplanado
    <3>. QED
      BY <1>4, <1>5, <3>2 DEF HayTrozo
  <2> HIDE DEF G
  <2>8. EnMedio(G, e[k], x)
    BY <2>5, <2>6, Dentro
  <2>9. ASSUME NEW i \in 1..ANCHO[r] + 1
        PROVE  stream[Desde[k] + i - 1] = rs[r][i]
    <3>1. Desde[k] + i - 1 = Len(G) + i /\ i \in 1..Len(e[k])
      BY <2>5, <2>6, RegistrosTipo
    <3>2. stream[Len(G) + i] = e[k][i]
      BY <2>7, <2>8, <3>1 DEF EnMedio
    <3>. QED
      BY <2>6, <3>1, <3>2
  <2>10. rs[r] = [i \in 1..ANCHO[r] + 1 |-> rs[r][i]]
    <3> DEFINE s == rs[r]
    <3>1. s \in Seq(Celda) /\ Len(s) = ANCHO[r] + 1
      BY <2>6
    <3> HIDE DEF s
    <3>2. s = [i \in 1..ANCHO[r] + 1 |-> s[i]]
      BY <3>1, LenProperties
    <3>. QED
      BY <3>2 DEF s
  <2>11. [i \in 1..ANCHO[r] + 1 |-> stream[Desde[k] + i - 1]] = rs[r]
    BY <2>9, <2>10
  <2>. QED
    BY <2>11 DEF k
<1>10. RecibirRegistros[stream] = [r \in Range(REGISTROS) |->
          LET k == SelectInSeq(REGISTROS, LAMBDA q : q = r)
          IN [i \in 1..ANCHO[r] + 1 |-> stream[Desde[k] + i - 1]]]
  BY <1>6 DEF RecibirRegistros
<1>11. RecibirRegistros[stream] = [r \in Range(REGISTROS) |-> rs[r]]
  BY <1>9, <1>10
<1>. QED
  BY <1>6, <1>8, <1>11 DEF Enteros, RegistrosEnviados, stream, e


-----------------------------------------------------------------------------
(* Messages *)

\* The first element of a sequence, and the others.
LEMMA Cabeza ==
    ASSUME NEW S, NEW x \in S, NEW s \in Seq(S)
    PROVE  /\ <<x>> \o s \in Seq(S)
           /\ <<x>> \o s # <<>>
           /\ Head(<<x>> \o s) = x
           /\ Tail(<<x>> \o s) = s
<1> DEFINE l == <<x>>
           t == l \o s
<1>1. l \in Seq(S) /\ Len(l) = 1 /\ l[1] = x
  OBVIOUS
<1> HIDE DEF l
<1>2. t \in Seq(S) /\ Len(t) = 1 + Len(s) /\ Len(s) \in Nat
  <2>1. t \in Seq(S) /\ Len(t) = Len(l) + Len(s)
    BY <1>1, ConcatProperties
  <2>. QED
    BY <1>1, <2>1, LenProperties
<1>3. SubSeq(t, Len(l) + 1, Len(t)) = s
  BY <1>1, Comienzo
<1>4. t[1] = x
  <2>1. \A i \in 1..Len(l) : t[i] = l[i]
    BY <1>1, Prolonga
  <2>2. 1 \in 1..Len(l)
    BY <1>1
  <2>. QED
    BY <1>1, <2>1, <2>2
<1> HIDE DEF t
<1>5. t # <<>>
  BY <1>2
<1>6. Tail(t) = SubSeq(t, 2, Len(t))
  BY <1>2, <1>5, TailIsSubSeq
<1>7. Tail(t) = s
  BY <1>1, <1>3, <1>6
<1>8. Head(t) = x
  BY <1>2, <1>4, <1>5
<1>. QED
  BY <1>2, <1>5, <1>7, <1>8 DEF t, l

\* A packet and what has arrived after it: its code, its size, its buffer.
EsPaquete(m, codigo, b, resto) ==
    /\ m \in Seq(Celda) /\ m # <<>>
    /\ Head(m) = codigo
    /\ EsBuffer(m, 2, b, resto)
    /\ EsBuffer(Tail(m), 1, b, resto)
    /\ \A i \in 1..Len(b) : m[2 + i] = b[i]

\* That is how a packet is read, whatever comes after it.
LEMMA LeePaquete ==
    ASSUME NEW codigo \in Celda, NEW b \in Seq(Celda), NEW resto \in Seq(Celda)
    PROVE  EsPaquete(Paquete(codigo, b) \o resto, codigo, b, resto)
<1> DEFINE l == <<Len(b)>>
           c == <<codigo>>
           cl == c \o l
           t == (l \o b) \o resto
           m == (cl \o b) \o resto
<1>1. Len(b) \in Celda /\ Len(b) \in Nat
  BY CeldasTipo, LenProperties
<1>2. l \in Seq(Celda) /\ Len(l) = 1 /\ c \in Seq(Celda) /\ Len(c) = 1
  BY <1>1
<1>3. <<codigo, Len(b)>> = cl
  OBVIOUS
<1>4. Paquete(codigo, b) \o resto = m
  BY <1>3 DEF Paquete
<1>5. EsBuffer(m, 2, b, resto)
  <2>1. EsBuffer(m, Len(c) + 1, b, resto)
    <3> HIDE DEF c
    <3>. QED
      BY <1>2, LeeBuffer
  <2>2. Len(c) + 1 = 2
    BY <1>2
  <2> HIDE DEF c, m
  <2>. QED
    BY <2>1, <2>2
<1>6. EsBuffer(t, 1, b, resto)
  <2>1. <<>> \in Seq(Celda) /\ <<>> \o l = l
    BY <1>2, ConcatEmptySeq
  <2>2. EsBuffer(((<<>> \o l) \o b) \o resto, Len(<<>>) + 1, b, resto)
    BY <2>1, LeeBuffer
  <2>3. Len(<<>>) + 1 = 1
    OBVIOUS
  <2> HIDE DEF l
  <2>. QED
    BY <2>1, <2>2, <2>3
<1>7. m = c \o t
  <2> DEFINE lb == l \o b
  <2>1. lb \in Seq(Celda)
    BY <1>1, ConcatProperties
  <2>2. Asociados(c, l, b)
    <3> HIDE DEF c, l
    <3>. QED
      BY <1>2, Asocia
  <2>3. Asociados(c, lb, resto)
    <3> HIDE DEF c, lb
    <3>. QED
      BY <1>2, <2>1, Asocia
  <2>4. cl \o b = c \o lb
    BY <2>2 DEF Asociados
  <2>5. (c \o lb) \o resto = c \o t
    BY <2>3 DEF Asociados
  <2> HIDE DEF c, cl, lb, t
  <2>. QED
    BY <2>4, <2>5
<1>8. t \in Seq(Celda)
  BY <1>6 DEF EsBuffer
<1> HIDE DEF t
<1>9. m \in Seq(Celda) /\ m # <<>> /\ Head(m) = codigo /\ Tail(m) = t
  BY <1>7, <1>8, Cabeza
<1>10. \A i \in 1..Len(b) : m[2 + i] = b[i]
  <2>1. cl \in Seq(Celda) /\ Len(cl) = 2
    <3>1. cl \in Seq(Celda) /\ Len(cl) = Len(c) + Len(l)
      <4> HIDE DEF c, l
      <4>. QED
        BY <1>2, ConcatProperties
    <3>. QED
      BY <1>2, <3>1
  <2> HIDE DEF cl
  <2>2. EnMedio(cl, b, resto)
    BY <2>1, Dentro
  <2>. QED
    BY <2>1, <2>2 DEF EnMedio
<1> HIDE DEF m
<1>. QED
  BY <1>4, <1>5, <1>6, <1>9, <1>10 DEF EsPaquete

\* A string sent as a message.
LEMMA LeeMensaje ==
    ASSUME NEW s \in Seq(Int \cup Byte), NEW resto \in Seq(Celda)
    PROVE  /\ RecibirString(Mensaje(s) \o resto).valor = s
           /\ RecibirString(Mensaje(s) \o resto).resto = resto
           /\ Mensaje(s) \in Seq(Celda) /\ Mensaje(s) # <<>>
<1> DEFINE b == s \o <<NUL>>
           l == <<Len(b)>>
           c == <<OpCode.MENSAJE>>
           m == Mensaje(s) \o resto
<1>1. /\ b \in Seq(Celda) /\ Len(b) = Len(s) + 1 /\ Cadena(b) = s
      /\ l \in Seq(Celda) /\ Len(l) = 1 /\ ConTamanio(s) = l \o b
      /\ ConTamanio(s) \in Seq(Celda)
  BY UnParametro
<1>2. OpCode.MENSAJE = 1 /\ OpCode.MENSAJE \in Celda
  BY CeldasTipo DEF OpCode
<1>3. c \in Seq(Celda) /\ Len(c) = 1
  BY <1>2
<1>4. Mensaje(s) = (c \o l) \o b
  <2>1. Asociados(c, l, b)
    <3> HIDE DEF c, l, b
    <3>. QED
      BY <1>1, <1>3, Asocia
  <2>. QED
    BY <1>1, <2>1 DEF Asociados, Mensaje
<1>5. EsBuffer(m, 2, b, resto)
  <2>1. EsBuffer(((c \o l) \o b) \o resto, Len(c) + 1, b, resto)
    <3> HIDE DEF c, b
    <3>. QED
      BY <1>1, <1>3, LeeBuffer
  <2>2. Len(c) + 1 = 2
    BY <1>3
  <2> HIDE DEF c, b, l
  <2>. QED
    BY <1>4, <2>1, <2>2
<1> HIDE DEF m
<1>6. m[2] = Len(b) /\ Buffer(m, 2) = b /\ Tras(m, 2 + 1 + Len(b)) = resto
  BY <1>5 DEF EsBuffer
<1>7. 3 + m[2] = 2 + 1 + Len(b)
  BY <1>1, <1>6, LenProperties
<1>8. RecibirString(m).valor = s /\ RecibirString(m).resto = resto
  BY <1>1, <1>6, <1>7 DEF RecibirString
<1>9. Mensaje(s) \in Seq(Celda) /\ Mensaje(s) # <<>>
  <2> DEFINE t == ConTamanio(s)
  <2>1. t \in Seq(Celda) /\ Mensaje(s) = <<OpCode.MENSAJE>> \o t
    BY <1>1 DEF Mensaje
  <2> HIDE DEF t
  <2>. QED
    BY <1>2, <2>1, Cabeza
<1>. QED
  BY <1>8, <1>9 DEF m


-----------------------------------------------------------------------------
(* The context of a process *)

\* A context that goes on the wire as it is.
ContextoEntero(c) ==
    /\ c = [pid |-> c.pid, program_counter |-> c.program_counter,
            instrucciones |-> c.instrucciones, tabla_segmentos |-> c.tabla_segmentos,
            registros |-> c.registros]
    /\ c.pid \in Celda
    /\ c.program_counter \in Int
    /\ c.instrucciones \in Instrucciones
    /\ c.tabla_segmentos \in Seq(Segmentos)
    /\ Enteros(c.registros)

\* The buffer a context travels in.
CuerpoContexto(c) ==
    LET instrucciones == SerializarInstrucciones(c.instrucciones)
        tabla == SerializarTablaSegmentos(c.tabla_segmentos)
    IN <<c.pid, c.program_counter, Len(instrucciones)>> \o instrucciones
       \o <<Len(tabla)>> \o tabla \o RegistrosEnviados(c.registros)

\* A context is read from its buffer as it was sent: all of it, and the counter and the
\* registers on their own.
CuerpoBien(b, c) ==
    /\ b \in Seq(Celda)
    /\ LeerContexto[b] = c
    /\ 1 \in 1..Len(b) /\ b[1] = c.pid
    /\ b[2] = c.program_counter
    /\ RecibirRegistros[Tras(b, DesdeRegistros(b))] = c.registros

\* A context read from the buffer it was sent in is the context: the serialisation of the
\* Kernel and of the CPU (shared estructuras.c, i_cpu.c) loses nothing.
LEMMA ContextoVuelve ==
    ASSUME NEW c, ContextoEntero(c)
    PROVE  /\ CuerpoBien(CuerpoContexto(c), c)
           /\ \A codigo : EnviarContexto(codigo, c) = Paquete(codigo, CuerpoContexto(c))
<1> DEFINE I == SerializarInstrucciones(c.instrucciones)
           T == SerializarTablaSegmentos(c.tabla_segmentos)
           R == RegistrosEnviados(c.registros)
           cab == <<c.pid, c.program_counter>>
           li == <<Len(I)>>
           lt == <<Len(T)>>
           cabeza == cab \o li
           s1 == cabeza \o I
           s2 == s1 \o lt
           s3 == s2 \o T
           b == s3 \o R
           TR == T \o R
           X == lt \o TR
<1>0. /\ c = [pid |-> c.pid, program_counter |-> c.program_counter,
              instrucciones |-> c.instrucciones, tabla_segmentos |-> c.tabla_segmentos,
              registros |-> c.registros]
      /\ c.pid \in Celda /\ c.program_counter \in Celda
      /\ c.instrucciones \in Instrucciones
      /\ c.tabla_segmentos \in Seq(Segmentos)
      /\ Enteros(c.registros)
  BY CeldasTipo DEF ContextoEntero
<1>1. I \in Seq(Celda) /\ T \in Seq(Celda) /\ R \in Seq(Celda)
  <2>1. I \in Seq(Celda)
    BY <1>0, BloquesTipo
  <2>2. T \in Seq(Celda)
    BY <1>0, TablaVuelve
  <2>3. R \in Seq(Celda)
    BY <1>0, RegistrosVuelven
  <2>. QED
    BY <2>1, <2>2, <2>3
<1>2. /\ DeserializarInstrucciones[I] = c.instrucciones
      /\ DeserializarTablaSegmentos[T] = c.tabla_segmentos
      /\ RecibirRegistros[R] = c.registros
      /\ Len(R) = SizeOfRegistros
  <2>1. DeserializarInstrucciones[I] = c.instrucciones
    BY <1>0, InstruccionesVuelven
  <2>2. DeserializarTablaSegmentos[T] = c.tabla_segmentos
    BY <1>0, TablaVuelve
  <2>3. RecibirRegistros[R] = c.registros /\ Len(R) = SizeOfRegistros
    BY <1>0, RegistrosVuelven
  <2>. QED
    BY <2>1, <2>2, <2>3
<1>3. CuerpoContexto(c) = b
  <2>1. <<c.pid, c.program_counter, Len(I)>> = cabeza
    OBVIOUS
  <2>. QED
    BY <2>1 DEF CuerpoContexto
<1> HIDE DEF I, T, R
<1>4. Len(I) \in Nat /\ Len(T) \in Nat /\ Len(R) \in Nat
  BY <1>1, LenProperties
<1>5. /\ cab \in Seq(Celda) /\ Len(cab) = 2 /\ cab[1] = c.pid /\ cab[2] = c.program_counter
      /\ li \in Seq(Celda) /\ Len(li) = 1
      /\ lt \in Seq(Celda) /\ Len(lt) = 1
  BY <1>0, <1>4, CeldasTipo
<1> DEFINE l1 == Len(I)
           l2 == Len(T)
<1> HIDE DEF cab, li, lt
<1>6. cabeza \in Seq(Celda) /\ Len(cabeza) = 3 /\ cabeza[1] = c.pid /\ cabeza[2] = c.program_counter
  <2>1. cabeza \in Seq(Celda) /\ Len(cabeza) = Len(cab) + Len(li) /\ \A i \in 1..Len(cab) : cabeza[i] = cab[i]
    BY <1>5, Prolonga
  <2>2. 1 \in 1..Len(cab) /\ 2 \in 1..Len(cab)
    BY <1>5
  <2>. QED
    BY <1>5, <2>1, <2>2
<1> HIDE DEF cabeza
<1>7. s1 \in Seq(Celda) /\ Len(s1) = 3 + Len(I)
  <2>1. s1 \in Seq(Celda) /\ Len(s1) = Len(cabeza) + Len(I)
    BY <1>1, <1>6, ConcatProperties
  <2>. QED
    BY <1>6, <2>1
<1>8. TR \in Seq(Celda)
  BY <1>1, ConcatProperties
<1> HIDE DEF s1, TR
<1>9. X \in Seq(Celda)
  BY <1>5, <1>8, ConcatProperties
<1>10. s2 \in Seq(Celda) /\ Len(s2) = 4 + Len(I)
  <2>1. s2 \in Seq(Celda) /\ Len(s2) = Len(s1) + Len(lt)
    BY <1>5, <1>7, ConcatProperties
  <2>. QED
    BY <1>4, <1>5, <1>7, <2>1
<1>11. b = s1 \o X
  <2>1. Asociados(s2, T, R)
    <3> HIDE DEF s2
    <3>. QED
      BY <1>1, <1>10, Asocia
  <2>2. Asociados(s1, lt, TR)
    BY <1>5, <1>7, <1>8, Asocia
  <2>3. b = s2 \o TR
    BY <2>1 DEF Asociados, TR
  <2>4. s2 \o TR = s1 \o X
    BY <2>2 DEF Asociados
  <2> HIDE DEF s2, X, b
  <2>. QED
    BY <2>3, <2>4
<1>12. EsBuffer(b, 3, I, X)
  <2> HIDE DEF X
  <2>1. EsBuffer(((cab \o li) \o I) \o X, Len(cab) + 1, I, X)
    BY <1>1, <1>5, <1>9, LeeBuffer DEF li
  <2>2. Len(cab) + 1 = 3
    BY <1>5
  <2>. QED
    BY <1>11, <2>1, <2>2 DEF s1, cabeza
<1>13. EsBuffer(b, 4 + Len(I), T, R)
  <2>1. EsBuffer(((s1 \o lt) \o T) \o R, Len(s1) + 1, T, R)
    BY <1>1, <1>7, LeeBuffer DEF lt
  <2>2. Len(s1) + 1 = 4 + Len(I)
    BY <1>4, <1>7
  <2>. QED
    BY <2>1, <2>2
<1>14. b \in Seq(Celda) /\ b[3] = Len(I) /\ Buffer(b, 3) = I
  BY <1>12 DEF EsBuffer
<1>15. /\ b[4 + Len(I)] = Len(T) /\ Buffer(b, 4 + Len(I)) = T
       /\ Tras(b, 4 + Len(I) + 1 + Len(T)) = R
  BY <1>13 DEF EsBuffer
<1>16. b[1] = c.pid /\ b[2] = c.program_counter
  <2>1. Len(s1) = Len(cabeza) + Len(I) /\ \A i \in 1..Len(cabeza) : s1[i] = cabeza[i]
    BY <1>1, <1>6, Prolonga DEF s1
  <2>2. \A i \in 1..Len(s1) : b[i] = s1[i]
    <3> HIDE DEF b, X
    <3>. QED
      BY <1>7, <1>9, <1>11, Prolonga
  <2>3. 1 \in 1..Len(cabeza) /\ 2 \in 1..Len(cabeza) /\ 1 \in 1..Len(s1) /\ 2 \in 1..Len(s1)
    BY <1>4, <1>6, <1>7
  <2> HIDE DEF b
  <2>. QED
    BY <1>6, <2>1, <2>2, <2>3
<1>17. Len(b) = 4 + SizeOfRegistros + Len(I) + Len(T)
  <2>1. s3 \in Seq(Celda) /\ Len(s3) = Len(s2) + Len(T)
    <3> HIDE DEF s2
    <3>. QED
      BY <1>1, <1>10, ConcatProperties
  <2>2. Len(b) = Len(s3) + Len(R)
    <3> HIDE DEF s3
    <3>. QED
      BY <1>1, <2>1, ConcatProperties
  <2> HIDE DEF s2, s3, b
  <2>. QED
    BY <1>2, <1>4, <1>10, <2>1, <2>2
<1>18. \A codigo : EnviarContexto(codigo, c) = Paquete(codigo, b)
  <2>1. <<c.pid, c.program_counter, Len(I)>> = cabeza
    BY DEF cabeza, cab, li
  <2>2. \A codigo : EnviarContexto(codigo, c)
           = Paquete(codigo, SubSeq(b, 1, 4 + SizeOfRegistros + Len(I) + Len(T)))
    BY <2>1 DEF EnviarContexto, RegistrosEnviados, I, T, R, s1, lt
  <2> HIDE DEF b
  <2>3. SubSeq(b, 1, Len(b)) = b
    BY <1>14, SubSeqFull
  <2>. QED
    BY <1>17, <2>2, <2>3
<1> HIDE DEF b
<1>19. DesdeTabla(b) = 4 + Len(I)
  BY <1>14 DEF DesdeTabla
<1>20. DesdeRegistros(b) = 4 + Len(I) + 1 + Len(T)
  BY <1>15, <1>19 DEF DesdeRegistros
<1>21. LeerContexto[b] = c
  <2>1. LeerContexto[b] =
          [pid |-> b[1], program_counter |-> b[2],
           instrucciones |-> DeserializarInstrucciones[Buffer(b, 3)],
           tabla_segmentos |-> DeserializarTablaSegmentos[Buffer(b, DesdeTabla(b))],
           registros |-> RecibirRegistros[Tras(b, DesdeRegistros(b))]]
    BY <1>14 DEF LeerContexto
  <2>. QED
    BY <1>0, <1>2, <1>14, <1>15, <1>16, <1>19, <1>20, <2>1
<1>22. RecibirRegistros[Tras(b, DesdeRegistros(b))] = c.registros
  BY <1>2, <1>15, <1>20
<1>23. 1 \in 1..Len(b)
  <2>1. 3 \in 1..Len(b) /\ Len(b) \in Nat
    BY <1>12, <1>14, LenProperties DEF EsBuffer
  <2>. QED
    BY <2>1
<1>24. CuerpoBien(b, c)
  BY <1>14, <1>16, <1>21, <1>22, <1>23 DEF CuerpoBien
<1>. QED
  BY <1>3, <1>18, <1>24

\* What is read of a context that has arrived, with its code and what came after it.
ContextoLeido(m, codigo, c, resto) ==
    /\ m # <<>> /\ Head(m) = codigo
    /\ RecibirContexto(Tail(m)) = c
    /\ Tras(m, 3 + m[2]) = resto
    /\ m[3] = c.pid
    /\ Buffer(m, 2)[2] = c.program_counter
    /\ LET b == Buffer(m, 2) IN RecibirRegistros[Tras(b, DesdeRegistros(b))] = c.registros

\* The one who receives a context, the CPU from the Kernel or the Kernel from the CPU,
\* has the context that was sent, and what was sent after it is still there to be read.
LEMMA LeeContexto ==
    ASSUME NEW c, ContextoEntero(c), NEW codigo \in Celda, NEW resto \in Seq(Celda)
    PROVE  /\ ContextoLeido(EnviarContexto(codigo, c) \o resto, codigo, c, resto)
           /\ ContextoLeido(EnviarContexto(codigo, c), codigo, c, <<>>)
<1> DEFINE b == CuerpoContexto(c)
<1>1. CuerpoBien(b, c) /\ EnviarContexto(codigo, c) = Paquete(codigo, b)
  BY ContextoVuelve
<1> HIDE DEF b
<1>2. ASSUME NEW r \in Seq(Celda)
      PROVE  ContextoLeido(Paquete(codigo, b) \o r, codigo, c, r)
  <2> DEFINE m == Paquete(codigo, b) \o r
  <2>1. /\ b \in Seq(Celda) /\ LeerContexto[b] = c /\ 1 \in 1..Len(b)
        /\ b[1] = c.pid /\ b[2] = c.program_counter
        /\ RecibirRegistros[Tras(b, DesdeRegistros(b))] = c.registros
    BY <1>1 DEF CuerpoBien
  <2>2. EsPaquete(m, codigo, b, r)
    BY <2>1, LeePaquete
  <2> HIDE DEF m
  <2>3. m # <<>> /\ Head(m) = codigo /\ Buffer(Tail(m), 1) = b /\ Buffer(m, 2) = b
        /\ m[2] = Len(b) /\ Tras(m, 2 + 1 + Len(b)) = r /\ m[2 + 1] = b[1]
    BY <2>1, <2>2 DEF EsPaquete, EsBuffer
  <2>4. 3 + m[2] = 2 + 1 + Len(b) /\ m[3] = m[2 + 1]
    BY <2>1, <2>3, LenProperties
  <2>5. RecibirContexto(Tail(m)) = c
    BY <2>1, <2>3 DEF RecibirContexto
  <2>6. ContextoLeido(m, codigo, c, r)
    BY <2>1, <2>3, <2>4, <2>5 DEF ContextoLeido
  <2>. QED
    BY <2>6 DEF m
<1>3. Paquete(codigo, b) \o <<>> = Paquete(codigo, b) /\ <<>> \in Seq(Celda)
  <2> DEFINE h == <<codigo, Len(b)>>
  <2>1. b \in Seq(Celda) /\ Len(b) \in Nat
    BY <1>1, LenProperties DEF CuerpoBien
  <2>2. h \in Seq(Celda)
    BY <2>1, CeldasTipo
  <2> HIDE DEF h
  <2>3. h \o b \in Seq(Celda)
    BY <2>1, <2>2, ConcatProperties
  <2>4. (h \o b) \o <<>> = h \o b
    BY <2>3, ConcatEmptySeq
  <2>. QED
    BY <2>4 DEF h, Paquete
<1>4. ContextoLeido(Paquete(codigo, b) \o resto, codigo, c, resto)
  BY <1>2
<1>5. ContextoLeido(Paquete(codigo, b), codigo, c, <<>>)
  <2>1. ContextoLeido(Paquete(codigo, b) \o <<>>, codigo, c, <<>>)
    BY <1>2, <1>3
  <2>. QED
    BY <1>3, <2>1
<1>. QED
  BY <1>1, <1>4, <1>5

-----------------------------------------------------------------------------
(* Registers *)

\* A register is as long as the CPU makes it, and ends in a NUL.
RegistroBien(r, x) == x \in Registro(r) /\ x[ANCHO[r] + 1] = NUL
RegistrosBien(rs) ==
    /\ rs = [r \in Range(REGISTROS) |-> rs[r]]
    /\ \A r \in Range(REGISTROS) : RegistroBien(r, rs[r])

\* After the string of a register there are only NULs.
Limpio(r, x) == \A i \in (Len(Cadena(x)) + 1)..ANCHO[r] + 1 : x[i] = NUL
Limpios(rs) == \A r \in Range(REGISTROS) \ POR_STRCPY : Limpio(r, rs[r])

\* The strings in the registers.
Valores(rs) == [r \in Range(REGISTROS) |-> Cadena(rs[r])]

\* The bytes of the strings are bytes of the wire, and NUL is not one of them.
LEMMA LetraTipo == /\ Letra \subseteq Byte /\ NUL \notin Letra /\ Letra \cup {NUL} \subseteq Celda
                   /\ Proc \subseteq Letra /\ DATO \in Letra
BY CpuAssumption, SerializacionAssumption DEF Letra, Celda

\* A register is a sequence of cells, and its string fits in it.
LEMMA RegistroTipo ==
    ASSUME NEW r \in Range(REGISTROS), NEW x, RegistroBien(r, x)
    PROVE  /\ x \in Seq(Letra \cup {NUL}) /\ x \in Seq(Celda) /\ Len(x) = ANCHO[r] + 1
           /\ x = [i \in 1..ANCHO[r] + 1 |-> x[i]]
           /\ Cadena(x) \in Seq(Letra) /\ Len(Cadena(x)) <= ANCHO[r]
           /\ EsCadena(x, Len(Cadena(x)))
<1> DEFINE a == ANCHO[r]
           L == Letra \cup {NUL}
<1>1. a \in Nat
  BY RegistrosTipo
<1>2. x \in [1..a + 1 -> L] /\ x[a + 1] = NUL
  BY DEF RegistroBien, Registro
<1> HIDE DEF a, L
<1>3. a + 1 \in Nat
  BY <1>1
<1>4. x \in Seq(L) /\ Len(x) = a + 1
  BY <1>2, <1>3, EsSecuencia
<1>5. x \in Seq(Celda)
  BY <1>4, LetraTipo, SeqMonotonic DEF L
<1>6. PICK n : EsCadena(x, n)
  BY <1>4, HayCadena
<1>7. Len(Cadena(x)) = n
  BY <1>4, <1>6, CadenaUnica
<1>8. n \in 0..a + 1 /\ n # a + 1
  <2>1. n \in 0..a + 1 /\ \A i \in 1..n : x[i] # NUL
    BY <1>4, <1>6 DEF EsCadena
  <2>2. n = a + 1 => a + 1 \in 1..n
    BY <1>1
  <2>. QED
    BY <1>2, <2>1, <2>2
<1>9. n <= a
  BY <1>1, <1>8
<1>10. Cadena(x) \in Seq(Letra)
  <2>1. L \ {NUL} = Letra
    BY LetraTipo DEF L
  <2>. QED
    BY <1>4, <2>1, SinNul
<1>. QED
  BY <1>2, <1>4, <1>5, <1>6, <1>7, <1>9, <1>10 DEF a, L

\* The string of a register whose first bytes are s, with a NUL after them.
LEMMA CadenaDeRegistro ==
    ASSUME NEW r \in Range(REGISTROS), NEW x, RegistroBien(r, x), NEW s \in Seq(Letra),
           Len(s) <= ANCHO[r], \A i \in 1..Len(s) : x[i] = s[i], x[Len(s) + 1] = NUL
    PROVE  Cadena(x) = s
<1> DEFINE n == Len(s)
<1>1. n \in Nat /\ ANCHO[r] \in Nat /\ n <= ANCHO[r] /\ \A i \in 1..n : s[i] \in Letra
  BY LenProperties, RegistrosTipo, ElementOfSeq
<1>2. x \in Seq(Letra \cup {NUL}) /\ Len(x) = ANCHO[r] + 1
  BY RegistroTipo
<1> HIDE DEF n
<1>3. \A i \in 1..n : x[i] # NUL
  BY <1>1, LetraTipo DEF n
<1>4. EsCadena(x, n)
  BY <1>1, <1>2, <1>3 DEF EsCadena, n
<1>5. Cadena(x) \in Seq(Letra \cup {NUL}) /\ Len(Cadena(x)) = n /\ \A i \in 1..n : Cadena(x)[i] = x[i]
  BY <1>2, <1>4, CadenaUnica
<1>6. s \in Seq(Letra \cup {NUL})
  BY SeqMonotonic
<1>7. \A i \in 1..Len(Cadena(x)) : Cadena(x)[i] = s[i]
  BY <1>5 DEF n
<1>. QED
  BY <1>5, <1>6, <1>7, SeqEqual DEF n

\* strcpy into a register where the string fits.
LEMMA CopiaEntera ==
    ASSUME NEW r \in Range(REGISTROS), NEW d, RegistroBien(r, d), NEW s \in Seq(Letra),
           Len(s) <= ANCHO[r]
    PROVE  RegistroBien(r, Strcpy(d, s)) /\ Cadena(Strcpy(d, s)) = s
<1> DEFINE a == ANCHO[r]
           n == Len(s)
           y == Strcpy(d, s)
<1>1. n \in Nat /\ a \in Nat /\ n <= a /\ \A i \in 1..n : s[i] \in Letra
  BY LenProperties, RegistrosTipo, ElementOfSeq
<1>2. d \in [1..a + 1 -> Letra \cup {NUL}] /\ d[a + 1] = NUL
  BY DEF RegistroBien, Registro
<1>3. y = [i \in 1..a + 1 |-> IF i <= n THEN s[i] ELSE IF i = n + 1 THEN NUL ELSE d[i]]
  BY <1>2 DEF Strcpy
<1> HIDE DEF a, n, y
<1>4. y \in [1..a + 1 -> Letra \cup {NUL}]
  <2>1. ASSUME NEW i \in 1..a + 1
        PROVE  (IF i <= n THEN s[i] ELSE IF i = n + 1 THEN NUL ELSE d[i]) \in Letra \cup {NUL}
    <3>1. i <= n => i \in 1..n
      BY <1>1
    <3>. QED
      BY <1>1, <1>2, <3>1
  <2>. QED
    BY <1>3, <2>1
<1>5. y[n + 1] = NUL /\ \A i \in 1..n : y[i] = s[i]
  BY <1>1, <1>3
<1>6. y[a + 1] = NUL
  <2>1. a + 1 \in 1..a + 1 /\ ~(a + 1 <= n)
    BY <1>1
  <2>. QED
    BY <1>2, <1>3, <2>1
<1>7. RegistroBien(r, y)
  BY <1>4, <1>6 DEF RegistroBien, Registro, a
<1>8. Cadena(y) = s
  BY <1>1, <1>5, <1>7, CadenaDeRegistro DEF n, a
<1>. QED
  BY <1>7, <1>8 DEF y

\* What strncpy keeps of a string.
Cortada(s, n) == SubSeq(s, 1, IF Len(s) < n THEN Len(s) ELSE n)

\* It is the beginning of the string, of at most n bytes.
LEMMA CortadaTipo ==
    ASSUME NEW S, NEW s \in Seq(S), NEW n \in Nat
    PROVE  LET c == Cortada(s, n)
               l == IF Len(s) < n THEN Len(s) ELSE n
           IN  /\ c \in Seq(S) /\ Len(c) = l /\ l \in 0..n /\ l \in 0..Len(s)
               /\ \A i \in 1..l : c[i] = s[i]
               /\ Len(s) <= n => c = s
<1> DEFINE l == IF Len(s) < n THEN Len(s) ELSE n
           c == SubSeq(s, 1, l)
<1>1. Len(s) \in Nat /\ \A i \in 1..Len(s) : s[i] \in S
  BY LenProperties, ElementOfSeq
<1>2. l \in 0..n /\ l \in 0..Len(s)
  BY <1>1
<1>3. Len(s) <= n => l = Len(s)
  BY <1>1
<1> HIDE DEF l
<1>4. l \in Int /\ l \in Nat /\ \A i \in 1..l : s[i] \in S
  BY <1>1, <1>2
<1>5. /\ c \in Seq(S) /\ Len(c) = (IF 1 <= l THEN l - 1 + 1 ELSE 0)
      /\ \A i \in 1..(l - 1 + 1) : c[i] = s[1 + i - 1]
  BY <1>4, SubSeqProperties
<1>6. l - 1 + 1 = l /\ (IF 1 <= l THEN l - 1 + 1 ELSE 0) = l /\ \A i \in 1..l : 1 + i - 1 = i
  BY <1>4
<1>7. c \in Seq(S) /\ Len(c) = l /\ \A i \in 1..l : c[i] = s[i]
  BY <1>5, <1>6
<1>8. Len(s) <= n => c = s
  BY <1>3, SubSeqFull
<1>. QED
  BY <1>2, <1>7, <1>8 DEF l, Cortada

\* strncpy into a register: all of its bytes but the last, or all of them when the string
\* leaves one for the NUL.
LEMMA CopiaCortada ==
    ASSUME NEW r \in Range(REGISTROS), NEW d, RegistroBien(r, d), NEW s \in Seq(Letra),
           NEW n, n = ANCHO[r] \/ (n = ANCHO[r] + 1 /\ Len(s) <= ANCHO[r])
    PROVE  LET y == Strncpy(d, s, n) IN
           RegistroBien(r, y) /\ Cadena(y) = Cortada(s, ANCHO[r]) /\ Limpio(r, y)
<1> DEFINE a == ANCHO[r]
           c == Cortada(s, a)
           l == IF Len(s) < a THEN Len(s) ELSE a
           y == Strncpy(d, s, n)
<1>1. Len(s) \in Nat /\ a \in Nat /\ \A i \in 1..Len(s) : s[i] \in Letra
  BY LenProperties, RegistrosTipo, ElementOfSeq
<1>2. d \in [1..a + 1 -> Letra \cup {NUL}] /\ d[a + 1] = NUL
  BY DEF RegistroBien, Registro
<1>3. y = [i \in 1..a + 1 |-> IF i > n THEN d[i] ELSE IF i <= Len(s) THEN s[i] ELSE NUL]
  BY <1>2 DEF Strncpy
<1>4. n = a \/ (n = a + 1 /\ Len(s) <= a)
  OBVIOUS
<1>5. c \in Seq(Letra) /\ Len(c) = l /\ l \in 0..a /\ l \in 0..Len(s) /\ \A i \in 1..l : c[i] = s[i]
  <2> HIDE DEF a
  <2>. QED
    BY <1>1, CortadaTipo
<1>6. l = Len(s) \/ (l = a /\ a <= Len(s))
  BY <1>1
<1> HIDE DEF a, y, c, l
<1>7. y \in [1..a + 1 -> Letra \cup {NUL}]
  <2>1. ASSUME NEW i \in 1..a + 1
        PROVE  (IF i > n THEN d[i] ELSE IF i <= Len(s) THEN s[i] ELSE NUL) \in Letra \cup {NUL}
    <3>1. i <= Len(s) => i \in 1..Len(s)
      BY <1>1
    <3>. QED
      BY <1>1, <1>2, <3>1
  <2>. QED
    BY <1>3, <2>1
<1>8. \A i \in 1..l : y[i] = c[i]
  <2>1. ASSUME NEW i \in 1..l
        PROVE  y[i] = c[i]
    <3>1. i \in 1..a + 1 /\ ~(i > n) /\ i <= Len(s)
      BY <1>1, <1>4, <1>5
    <3>. QED
      BY <1>3, <1>5, <3>1
  <2>. QED
    BY <2>1
<1>9. \A i \in (l + 1)..a + 1 : y[i] = NUL
  <2>1. ASSUME NEW i \in (l + 1)..a + 1
        PROVE  y[i] = NUL
    <3>1. i \in 1..a + 1
      BY <1>1, <1>5
    <3>2. CASE i > n
      <4>1. i = a + 1
        BY <1>1, <1>4, <3>1, <3>2
      <4>. QED
        BY <1>2, <1>3, <3>1, <3>2, <4>1
    <3>3. CASE ~(i > n) /\ ~(i <= Len(s))
      BY <1>3, <3>1, <3>3
    <3>4. CASE ~(i > n) /\ i <= Len(s)
      <4>1. FALSE
        BY <1>1, <1>4, <1>5, <1>6, <2>1, <3>1, <3>4
      <4>. QED
        BY <4>1
    <3>. QED
      BY <3>2, <3>3, <3>4
  <2>. QED
    BY <2>1
<1>10. y[a + 1] = NUL /\ y[l + 1] = NUL
  <2>1. a + 1 \in (l + 1)..a + 1 /\ l + 1 \in (l + 1)..a + 1
    BY <1>1, <1>5
  <2>. QED
    BY <1>9, <2>1
<1>11. RegistroBien(r, y)
  BY <1>7, <1>10 DEF RegistroBien, Registro, a
<1>12. Cadena(y) = c
  <2>1. Len(c) <= a /\ y[Len(c) + 1] = NUL /\ \A i \in 1..Len(c) : y[i] = c[i]
    BY <1>1, <1>5, <1>8, <1>10
  <2>. QED
    BY <1>5, <1>11, <2>1, CadenaDeRegistro DEF a
<1>13. Limpio(r, y)
  BY <1>5, <1>9, <1>12 DEF Limpio, a
<1>. QED
  BY <1>11, <1>12, <1>13 DEF y, c, a


\* Registers are fit to be sent, and their strings fit in them.
LEMMA RegistrosEnteros ==
    ASSUME NEW rs, RegistrosBien(rs)
    PROVE  /\ Enteros(rs)
           /\ \A r \in Range(REGISTROS) : Cadena(rs[r]) \in Seq(Letra) /\ Len(Cadena(rs[r])) <= ANCHO[r]
<1>1. ASSUME NEW r \in Range(REGISTROS)
      PROVE  /\ rs[r] \in Seq(Celda) /\ Len(rs[r]) = ANCHO[r] + 1
             /\ Cadena(rs[r]) \in Seq(Letra) /\ Len(Cadena(rs[r])) <= ANCHO[r]
  <2> DEFINE x == rs[r]
  <2>1. RegistroBien(r, x)
    BY DEF RegistrosBien
  <2> HIDE DEF x
  <2>2. x \in Seq(Celda) /\ Len(x) = ANCHO[r] + 1
        /\ Cadena(x) \in Seq(Letra) /\ Len(Cadena(x)) <= ANCHO[r]
    BY <2>1, RegistroTipo
  <2>. QED
    BY <2>2 DEF x
<1>. QED
  BY <1>1 DEF Enteros, RegistrosBien

\* The registers a process starts with are empty.
LEMMA EnCero ==
    /\ RegistrosBien(RegistrosEnCero)
    /\ Valores(RegistrosEnCero) = [r \in Range(REGISTROS) |-> <<>>]
<1>1. ASSUME NEW r \in Range(REGISTROS)
      PROVE  RegistroBien(r, RegistrosEnCero[r]) /\ Cadena(RegistrosEnCero[r]) = <<>>
  <2> DEFINE x == [i \in 1..ANCHO[r] + 1 |-> NUL]
  <2>1. ANCHO[r] \in Nat /\ ANCHO[r] + 1 \in 1..ANCHO[r] + 1 /\ 1 \in 1..ANCHO[r] + 1
    BY RegistrosTipo
  <2>2. RegistroBien(r, x) /\ x[1] = NUL
    BY <2>1 DEF RegistroBien, Registro
  <2> HIDE DEF x
  <2>3. <<>> \in Seq(Letra) /\ Len(<<>>) = 0
    OBVIOUS
  <2>4. Len(<<>>) <= ANCHO[r] /\ x[Len(<<>>) + 1] = NUL /\ \A i \in 1..Len(<<>>) : x[i] = <<>>[i]
    BY <2>1, <2>2, <2>3
  <2>5. Cadena(x) = <<>>
    BY <2>2, <2>3, <2>4, CadenaDeRegistro
  <2>6. RegistrosEnCero[r] = x
    BY DEF RegistrosEnCero, x
  <2>. QED
    BY <2>2, <2>5, <2>6
<1>2. RegistrosEnCero = [r \in Range(REGISTROS) |-> RegistrosEnCero[r]]
  BY DEF RegistrosEnCero
<1> HIDE DEF RegistrosEnCero
<1>3. RegistrosBien(RegistrosEnCero)
  BY <1>1, <1>2 DEF RegistrosBien
<1>4. Valores(RegistrosEnCero) = [r \in Range(REGISTROS) |-> <<>>]
  BY <1>1 DEF Valores
<1>. QED
  BY <1>3, <1>4

\* What goes into the CPU with a process: its strings, and nothing after those that
\* strncpy copies.
LEMMA SetearBien ==
    ASSUME RegistrosBien(registros_cpu), NEW rs, RegistrosBien(rs)
    PROVE  /\ RegistrosBien(SetearRegistros(rs))
           /\ Limpios(SetearRegistros(rs))
           /\ Valores(SetearRegistros(rs)) = Valores(rs)
<1> DEFINE y == SetearRegistros(rs)
<1>1. /\ y = [r \in Range(REGISTROS) |-> y[r]]
      /\ \A r \in Range(REGISTROS) : y[r] =
            IF r \in POR_STRCPY THEN Strcpy(registros_cpu[r], Cadena(rs[r]))
            ELSE Strncpy(registros_cpu[r], Cadena(rs[r]), ANCHO[r] + 1)
  BY DEF SetearRegistros
<1> HIDE DEF y
<1>2. ASSUME NEW r \in Range(REGISTROS)
      PROVE  /\ RegistroBien(r, y[r]) /\ Cadena(y[r]) = Cadena(rs[r])
             /\ r \notin POR_STRCPY => Limpio(r, y[r])
  <2> DEFINE d == registros_cpu[r]
             s == Cadena(rs[r])
  <2>1. RegistroBien(r, d)
    BY DEF RegistrosBien
  <2>2. s \in Seq(Letra) /\ Len(s) <= ANCHO[r]
    BY RegistrosEnteros
  <2>3. y[r] = IF r \in POR_STRCPY THEN Strcpy(d, s) ELSE Strncpy(d, s, ANCHO[r] + 1)
    BY <1>1
  <2> HIDE DEF d, s
  <2>4. CASE r \in POR_STRCPY
    <3>1. RegistroBien(r, Strcpy(d, s)) /\ Cadena(Strcpy(d, s)) = s
      BY <2>1, <2>2, CopiaEntera
    <3>. QED
      BY <2>3, <2>4, <3>1 DEF s
  <2>5. CASE r \notin POR_STRCPY
    <3> DEFINE n == ANCHO[r] + 1
               z == Strncpy(d, s, n)
    <3>1. n = ANCHO[r] + 1 /\ Len(s) <= ANCHO[r]
      BY <2>2
    <3> HIDE DEF n
    <3>2. RegistroBien(r, z) /\ Cadena(z) = Cortada(s, ANCHO[r]) /\ Limpio(r, z)
      BY <2>1, <2>2, <3>1, CopiaCortada
    <3>3. Cortada(s, ANCHO[r]) = s
      BY <2>2, RegistrosTipo, CortadaTipo
    <3>4. y[r] = z
      BY <2>3, <2>5 DEF n
    <3>. QED
      BY <3>2, <3>3, <3>4 DEF s
  <2>. QED
    BY <2>4, <2>5
<1>3. RegistrosBien(y) /\ Limpios(y)
  BY <1>1, <1>2 DEF RegistrosBien, Limpios
<1>4. Valores(y) = Valores(rs)
  BY <1>2 DEF Valores
<1>. QED
  BY <1>3, <1>4 DEF y

\* What goes back to the pcb.
LEMMA ActualizarBien ==
    ASSUME RegistrosBien(registros_cpu), NEW rs, RegistrosBien(rs)
    PROVE  /\ RegistrosBien(ActualizarRegistros(rs))
           /\ Valores(ActualizarRegistros(rs)) = Valores(registros_cpu)
<1> DEFINE y == ActualizarRegistros(rs)
<1>1. /\ y = [r \in Range(REGISTROS) |-> y[r]]
      /\ \A r \in Range(REGISTROS) : y[r] = Strcpy(rs[r], Cadena(registros_cpu[r]))
  BY DEF ActualizarRegistros
<1> HIDE DEF y
<1>2. ASSUME NEW r \in Range(REGISTROS)
      PROVE  RegistroBien(r, y[r]) /\ Cadena(y[r]) = Cadena(registros_cpu[r])
  <2> DEFINE d == rs[r]
             s == Cadena(registros_cpu[r])
  <2>1. RegistroBien(r, d)
    BY DEF RegistrosBien
  <2>2. s \in Seq(Letra) /\ Len(s) <= ANCHO[r]
    BY RegistrosEnteros
  <2>3. y[r] = Strcpy(d, s)
    BY <1>1
  <2> HIDE DEF d, s
  <2>4. RegistroBien(r, Strcpy(d, s)) /\ Cadena(Strcpy(d, s)) = s
    BY <2>1, <2>2, CopiaEntera
  <2>. QED
    BY <2>3, <2>4 DEF s
<1>3. RegistrosBien(y)
  BY <1>1, <1>2 DEF RegistrosBien
<1>4. Valores(y) = Valores(registros_cpu)
  BY <1>2 DEF Valores
<1>. QED
  BY <1>3, <1>4 DEF y

\* What SET and MOV_IN put in a register.
LEMMA SetValorBien ==
    ASSUME RegistrosBien(registros_cpu), NEW r \in Range(REGISTROS), NEW s \in Seq(Letra)
    PROVE  /\ RegistrosBien(SetValorRegistro(r, s))
           /\ Limpios(registros_cpu) => Limpios(SetValorRegistro(r, s))
           /\ Valores(SetValorRegistro(r, s))
                 = [Valores(registros_cpu) EXCEPT ![r] = Cortada(s, ANCHO[r])]
<1> DEFINE y == SetValorRegistro(r, s)
           n == ANCHO[r]
           d == registros_cpu[r]
           z == Strncpy(d, s, n)
<1>1. registros_cpu = [q \in Range(REGISTROS) |-> registros_cpu[q]]
      /\ \A q \in Range(REGISTROS) : RegistroBien(q, registros_cpu[q])
  BY DEF RegistrosBien
<1>2. /\ y = [q \in Range(REGISTROS) |-> y[q]]
      /\ \A q \in Range(REGISTROS) : y[q] = IF q = r THEN z ELSE registros_cpu[q]
  BY <1>1 DEF SetValorRegistro
<1>3. RegistroBien(r, d) /\ n = ANCHO[r]
  BY <1>1
<1> HIDE DEF y, d, n
<1>4. RegistroBien(r, z) /\ Cadena(z) = Cortada(s, ANCHO[r]) /\ Limpio(r, z)
  BY <1>3, CopiaCortada
<1> HIDE DEF z
<1>5. RegistrosBien(y)
  BY <1>1, <1>2, <1>4 DEF RegistrosBien
<1>6. Limpios(registros_cpu) => Limpios(y)
  BY <1>2, <1>4 DEF Limpios
<1>7. Valores(y) = [Valores(registros_cpu) EXCEPT ![r] = Cortada(s, ANCHO[r])]
  BY <1>2, <1>4 DEF Valores
<1>. QED
  BY <1>5, <1>6, <1>7 DEF y

\* limpiar_registros_cpu leaves registers.
LEMMA LimpiarBien ==
    ASSUME RegistrosBien(registros_cpu)
    PROVE  RegistrosBien(LimpiarRegistros)
<1> DEFINE u == REGISTROS[1]
           y == LimpiarRegistros
<1>1. registros_cpu = [q \in Range(REGISTROS) |-> registros_cpu[q]]
      /\ \A q \in Range(REGISTROS) : RegistroBien(q, registros_cpu[q])
  BY DEF RegistrosBien
<1>2. /\ y = [q \in Range(REGISTROS) |-> y[q]]
      /\ \A q \in Range(REGISTROS) :
            y[q] = IF q = u THEN [registros_cpu[q] EXCEPT ![1] = NUL] ELSE registros_cpu[q]
  BY <1>1 DEF LimpiarRegistros
<1> HIDE DEF y, u
<1>3. ASSUME NEW q \in Range(REGISTROS)
      PROVE  RegistroBien(q, y[q])
  <2> DEFINE x == registros_cpu[q]
  <2>1. x \in [1..ANCHO[q] + 1 -> Letra \cup {NUL}] /\ x[ANCHO[q] + 1] = NUL
    BY <1>1 DEF RegistroBien, Registro
  <2>2. ANCHO[q] \in Nat /\ ANCHO[q] + 1 \in 1..ANCHO[q] + 1 /\ 1 \in 1..ANCHO[q] + 1
    BY RegistrosTipo
  <2>3. y[q] = [x EXCEPT ![1] = NUL] \/ y[q] = x
    BY <1>2
  <2> HIDE DEF x
  <2>4. [x EXCEPT ![1] = NUL] \in [1..ANCHO[q] + 1 -> Letra \cup {NUL}]
        /\ [x EXCEPT ![1] = NUL][ANCHO[q] + 1] = NUL
    BY <2>1, <2>2
  <2>. QED
    BY <2>1, <2>3, <2>4 DEF RegistroBien, Registro
<1>. QED
  BY <1>2, <1>3 DEF RegistrosBien, y

\* Without what is after its string, what MOV_OUT sends is that string and NULs.
LEMMA SinRestosBien ==
    ASSUME RegistrosBien(registros_cpu), Limpios(registros_cpu), NEW r \in Range(REGISTROS)
    PROVE  /\ SinRestos(r, SubSeq(registros_cpu[r], 1, ANCHO[r]))
           /\ SubSeq(registros_cpu[r], 1, ANCHO[r]) \in Seq(Letra \cup {NUL})
           /\ Len(SubSeq(registros_cpu[r], 1, ANCHO[r])) = ANCHO[r]
<1> DEFINE x == registros_cpu[r]
           a == ANCHO[r]
           y == SubSeq(x, 1, a)
           L == Letra \cup {NUL}
<1>1. RegistroBien(r, x) /\ (r \notin POR_STRCPY => Limpio(r, x)) /\ a \in Nat
  BY RegistrosTipo DEF RegistrosBien, Limpios
<1> HIDE DEF x
<1>2. x \in Seq(L) /\ Len(x) = a + 1 /\ EsCadena(x, Len(Cadena(x))) /\ Len(Cadena(x)) <= a
  BY <1>1, RegistroTipo
<1> HIDE DEF L, a
<1> DEFINE n == Len(Cadena(x))
<1>3. y \in Seq(L) /\ Len(y) = a /\ \A i \in 1..a : y[i] = x[i]
  <2>1. \A i \in 1..a : x[i] \in L
    <3>1. \A i \in 1..a : i \in 1..Len(x)
      BY <1>1, <1>2
    <3>. QED
      BY <1>2, <3>1, ElementOfSeq
  <2>2. a \in Int /\ a - 1 + 1 = a /\ (IF 1 <= a THEN a - 1 + 1 ELSE 0) = a /\ \A i \in 1..a : 1 + i - 1 = i
    BY <1>1
  <2>3. /\ y \in Seq(L) /\ Len(y) = (IF 1 <= a THEN a - 1 + 1 ELSE 0)
        /\ \A i \in 1..(a - 1 + 1) : y[i] = x[1 + i - 1]
    BY <2>1, <2>2, SubSeqProperties
  <2>. QED
    BY <2>2, <2>3
<1>4. n \in 0..a /\ (\A i \in 1..n : x[i] # NUL) /\ x[n + 1] = NUL
  <2>1. n \in 0..Len(x) /\ (\A i \in 1..n : x[i] # NUL) /\ (n < Len(x) => x[n + 1] = NUL)
    BY <1>2 DEF EsCadena
  <2> HIDE DEF n
  <2>2. n <= a
    BY <1>2 DEF n
  <2>. QED
    BY <1>1, <1>2, <2>1, <2>2
<1> HIDE DEF n, y
<1>5. EsCadena(y, n)
  <2>1. \A i \in 1..n : i \in 1..a
    BY <1>1, <1>4
  <2>2. n < a => n + 1 \in 1..a
    BY <1>1, <1>4
  <2>. QED
    BY <1>3, <1>4, <2>1, <2>2 DEF EsCadena
<1>6. Len(Cadena(y)) = n
  BY <1>3, <1>5, CadenaUnica
<1>7. ASSUME r \notin POR_STRCPY, NEW i \in (n + 1)..a
      PROVE  y[i] = NUL
  <2>1. i \in 1..a /\ i \in (n + 1)..a + 1
    BY <1>1, <1>4, <1>7
  <2>2. x[i] = NUL
    BY <1>1, <1>7, <2>1 DEF Limpio, n, a
  <2>. QED
    BY <1>3, <2>1, <2>2
<1>8. SinRestos(r, y)
  BY <1>6, <1>7 DEF SinRestos, a
<1>. QED
  BY <1>3, <1>8 DEF y, x, a, L


-----------------------------------------------------------------------------
(* Programs *)

\* The kinds of the parameters of an instruction.
InstruccionBien(i) ==
    LET nombre == NombreDe(i)  ps == i.parametros IN
    /\ nombre \in {"SET", "MOV_IN"} => ps[1][1] \in Range(REGISTROS)
    /\ nombre = "MOV_OUT" => ps[2][1] \in Range(REGISTROS)
    /\ nombre = "SET" => ps[2] \in Seq(Letra)
    /\ nombre \in {"I/O", "CREATE_SEGMENT", "DELETE_SEGMENT", "MOV_OUT"} => ps[1][1] \in Nat
    /\ nombre \in {"CREATE_SEGMENT", "MOV_IN", "F_SEEK", "F_TRUNCATE", "F_READ", "F_WRITE"} =>
          ps[2][1] \in Nat
    /\ nombre \in {"F_READ", "F_WRITE"} => ps[3][1] \in Nat
    /\ nombre \in {"WAIT", "SIGNAL", "F_OPEN", "F_CLOSE", "F_SEEK", "F_TRUNCATE", "F_READ", "F_WRITE"} =>
          ps[1] \in Seq(Int \cup Byte)

\* An instruction is a line of the file, parsed.
EsDeLaLinea(i, linea) ==
    /\ NombreDe(i) = linea.funcion
    /\ \A j \in 1..Cantidad(linea.funcion) : i.parametros[j] = linea.palabras[j]
    /\ InstruccionBien(i)

\* The code of an instruction is a number, and its name is the one it was found by.
LEMMA CodigoDe ==
    ASSUME NEW f \in Range(NombresDeInstruccion)
    PROVE  Codigo(f) \in Int /\ NombresDeInstruccion[Codigo(f)] = f
<1>1. \E c \in DOMAIN NombresDeInstruccion : NombresDeInstruccion[c] = f
  BY DEF Range
<1> DEFINE c == Codigo(f)
<1>2. c \in DOMAIN NombresDeInstruccion /\ NombresDeInstruccion[c] = f
  BY <1>1 DEF Codigo
<1> HIDE DEF c
<1>4. DOMAIN NombresDeInstruccion = 1..16
  BY DEF NombresDeInstruccion
<1>5. c \in Int
  BY <1>2, <1>4
<1>. QED
  BY <1>2, <1>5 DEF c

\* A line that the parser takes gives an instruction of the kinds its name calls for.
LEMMA LineaParseada ==
    ASSUME NEW linea \in Linea, ~Desconocida(linea), ~LeFalta(linea), PalabrasBien(linea)
    PROVE  /\ ParsearInstrucciones(linea) \in [codigo : Int, parametros : Seq(Seq(Int \cup Byte))]
           /\ EsDeLaLinea(ParsearInstrucciones(linea), linea)
<1> DEFINE i == ParsearInstrucciones(linea)
           f == linea.funcion
           w == linea.palabras
           n == Cantidad(f)
           ps == SubSeq(w, 1, n)
           P == Seq(Int \cup Byte)
<1>1. w \in Seq(P) /\ f \in Range(NombresDeInstruccion) /\ ~(Len(w) < n)
  BY DEF Linea, Palabra, Desconocida, LeFalta
<1>2. n \in 0..3
  BY DEF Cantidad
<1>3. i.codigo = Codigo(f) /\ i.parametros = ps /\ i = [codigo |-> Codigo(f), parametros |-> ps]
  BY DEF ParsearInstrucciones
<1>4. Codigo(f) \in Int /\ NombreDe(i) = f
  BY <1>1, <1>3, CodigoDe DEF NombreDe
<1> HIDE DEF i, n, w, P
<1>5. Len(w) \in Nat /\ \A j \in 1..Len(w) : w[j] \in P
  BY <1>1, LenProperties, ElementOfSeq
<1>6. ps \in Seq(P) /\ \A j \in 1..n : ps[j] = w[j] /\ w[j] \in P
  <2>1. \A j \in 1..n : w[j] \in P
    BY <1>1, <1>2, <1>5
  <2>2. n \in Int /\ n - 1 + 1 = n /\ \A j \in 1..n : 1 + j - 1 = j
    BY <1>2
  <2>3. ps \in Seq(P) /\ \A j \in 1..(n - 1 + 1) : ps[j] = w[1 + j - 1]
    BY <2>1, <2>2, SubSeqProperties
  <2>. QED
    BY <2>1, <2>2, <2>3
<1>7. i \in [codigo : Int, parametros : Seq(P)]
  BY <1>3, <1>4, <1>6
<1> DEFINE q == i.parametros
<1>8. \A j \in 1..n : q[j] = w[j] /\ w[j] \in P
  BY <1>3, <1>6
<1> HIDE DEF q, ps, f
<1>9. /\ f \in {"SET", "MOV_IN", "MOV_OUT", "CREATE_SEGMENT", "F_SEEK", "F_TRUNCATE"} => n = 2
      /\ f \in {"I/O", "WAIT", "SIGNAL", "F_OPEN", "F_CLOSE", "DELETE_SEGMENT"} => n = 1
      /\ f \in {"F_READ", "F_WRITE"} => n = 3
  BY DEF Cantidad, n
<1>10. /\ f \in {"SET", "MOV_IN"} => NombraRegistro(w[1])
       /\ f = "MOV_OUT" => NombraRegistro(w[2])
       /\ f = "SET" => w[2] \in Seq(Proc \cup {DATO})
       /\ f \in {"I/O", "CREATE_SEGMENT", "DELETE_SEGMENT", "MOV_OUT"} => EsNumero(w[1])
       /\ f \in {"CREATE_SEGMENT", "MOV_IN", "F_SEEK", "F_TRUNCATE", "F_READ", "F_WRITE"} => EsNumero(w[2])
       /\ f \in {"F_READ", "F_WRITE"} => EsNumero(w[3])
  BY DEF PalabrasBien, f, w
<1>11. InstruccionBien(i)
  <2>1. \A j \in {1, 2, 3} : j <= n => q[j] = w[j] /\ w[j] \in P
    BY <1>2, <1>8
  <2>2. f \in {"SET", "MOV_IN"} => q[1][1] \in Range(REGISTROS)
    BY <1>9, <1>10, <2>1 DEF NombraRegistro
  <2>3. f = "MOV_OUT" => q[2][1] \in Range(REGISTROS)
    BY <1>9, <1>10, <2>1 DEF NombraRegistro
  <2>4. f = "SET" => q[2] \in Seq(Letra)
    BY <1>9, <1>10, <2>1 DEF Letra
  <2>5. f \in {"I/O", "CREATE_SEGMENT", "DELETE_SEGMENT", "MOV_OUT"} => q[1][1] \in Nat
    BY <1>9, <1>10, <2>1 DEF EsNumero
  <2>6. f \in {"CREATE_SEGMENT", "MOV_IN", "F_SEEK", "F_TRUNCATE", "F_READ", "F_WRITE"} => q[2][1] \in Nat
    BY <1>9, <1>10, <2>1 DEF EsNumero
  <2>7. f \in {"F_READ", "F_WRITE"} => q[3][1] \in Nat
    BY <1>9, <1>10, <2>1 DEF EsNumero
  <2>8. f \in {"WAIT", "SIGNAL", "F_OPEN", "F_CLOSE", "F_SEEK", "F_TRUNCATE", "F_READ", "F_WRITE"}
           => q[1] \in P
    BY <1>9, <2>1
  <2>. QED
    BY <1>4, <2>2, <2>3, <2>4, <2>5, <2>6, <2>7, <2>8 DEF InstruccionBien, q, P
<1>12. EsDeLaLinea(i, linea)
  BY <1>4, <1>8, <1>11 DEF EsDeLaLinea, n, f, q, w
<1>. QED
  BY <1>7, <1>12 DEF i, P

\* The file of a console that sends its program.
EsPrograma(p, a) == a \in Archivos[p] /\ SeParsea(a)

\* It is parsed line by line, and its last line is an EXIT.
ProgramaLeido(P, a) ==
    /\ P \in Instrucciones
    /\ a # <<>> /\ Len(a) \in Nat /\ Len(P) = Len(a)
    /\ \A i \in 1..Len(a) : EsDeLaLinea(P[i], a[i])
    /\ \A i \in 1..Len(a) : a[i].funcion # "EXIT" => i < Len(a)

\* ParsearPrograma takes a file that is sent to a program of its lines.
LEMMA ProgramaBien ==
    ASSUME NEW p \in Proc, NEW a, EsPrograma(p, a)
    PROVE  ProgramaLeido(ParsearPrograma(a), a)
<1> DEFINE P == ParsearPrograma(a)
           I == [codigo : Int, parametros : Seq(Seq(Int \cup Byte))]
<1>1. /\ a \in Seq(Linea) /\ a # <<>> /\ a[Len(a)].funcion = "EXIT"
      /\ \A i \in DOMAIN a : PalabrasBien(a[i]) /\ ~Desconocida(a[i]) /\ ~LeFalta(a[i])
  BY ArchivosAssumption DEF EsPrograma, SeParsea
<1>2. Len(a) \in Nat /\ DOMAIN a = 1..Len(a) /\ \A i \in 1..Len(a) : a[i] \in Linea
  BY <1>1, LenProperties, ElementOfSeq
<1>3. P = [i \in 1..Len(a) |-> ParsearInstrucciones(a[i])]
  BY <1>2 DEF ParsearPrograma
<1> HIDE DEF P
<1>4. ASSUME NEW i \in 1..Len(a)
      PROVE  P[i] \in I /\ EsDeLaLinea(P[i], a[i])
  <2> DEFINE l == a[i]
  <2>1. l \in Linea /\ PalabrasBien(l) /\ ~Desconocida(l) /\ ~LeFalta(l)
    BY <1>1, <1>2
  <2>2. P[i] = ParsearInstrucciones(l)
    BY <1>3
  <2> HIDE DEF l
  <2>3. ParsearInstrucciones(l) \in I /\ EsDeLaLinea(ParsearInstrucciones(l), l)
    BY <2>1, LineaParseada
  <2>. QED
    BY <2>2, <2>3 DEF l
<1> HIDE DEF I
<1>5. P \in [1..Len(a) -> I]
  BY <1>3, <1>4
<1>6. P \in Seq(I) /\ Len(P) = Len(a)
  BY <1>2, <1>5, EsSecuencia
<1>7. ASSUME NEW i \in 1..Len(a), a[i].funcion # "EXIT"
      PROVE  i < Len(a)
  <2>1. i # Len(a)
    BY <1>1, <1>7
  <2>2. Len(a) \in Nat
    BY <1>2
  <2>. QED
    BY <2>1, <2>2
<1>. QED
  BY <1>1, <1>2, <1>4, <1>6, <1>7 DEF ProgramaLeido, Instrucciones, I, P

\* The program that arrives is the one that was sent.
LEMMA ProgramaVuelve ==
    ASSUME NEW is \in Instrucciones
    PROVE  LET m == Paquete(OpCode.PROGRAMA, SerializarInstrucciones(is)) IN
           m # <<>> /\ DeserializarInstrucciones[Buffer(m, 2)] = is
<1> DEFINE b == SerializarInstrucciones(is)
           k == OpCode.PROGRAMA
           h == <<k, Len(b)>>
           m == Paquete(k, b)
<1>1. b \in Seq(Celda) /\ DeserializarInstrucciones[b] = is
  BY BloquesTipo, InstruccionesVuelven
<1>2. k \in Celda
  BY CeldasTipo DEF OpCode
<1> HIDE DEF b, k
<1>3. EsPaquete(m \o <<>>, k, b, <<>>)
  <2>1. <<>> \in Seq(Celda)
    OBVIOUS
  <2>. QED
    BY <1>1, <1>2, <2>1, LeePaquete
<1>4. m \o <<>> = m
  <2>1. Len(b) \in Nat
    BY <1>1, LenProperties
  <2>2. h \in Seq(Celda)
    BY <1>2, <2>1, CeldasTipo
  <2>3. m = h \o b
    BY DEF Paquete
  <2> HIDE DEF h, m
  <2>4. m \in Seq(Celda)
    BY <1>1, <2>2, <2>3, ConcatProperties
  <2>. QED
    BY <2>4, ConcatEmptySeq
<1> HIDE DEF m
<1>5. m # <<>> /\ Buffer(m, 2) = b
  BY <1>3, <1>4 DEF EsPaquete, EsBuffer
<1>. QED
  BY <1>1, <1>5 DEF m, b, k


-----------------------------------------------------------------------------
(* The inductive invariant *)

\* The program of a process.
Programa(p) == ParsearPrograma(archivo[p])

\* The segments that fit in the memory.
SegmentosDeMemoria ==
    {s \in [descriptor_id : Nat, segmento_id : Nat, inicio : Nat, tam_segmento : Nat] :
        s.inicio + s.tam_segmento <= TAM_MEMORIA}

\* The pcb of a process, once the Kernel has made it.
EsPcb(p, b) ==
    /\ b = [program_counter |-> b.program_counter, instrucciones |-> Programa(p),
            tabla_segmento |-> b.tabla_segmento, registros |-> b.registros]
    /\ b.program_counter \in Nat
    /\ b.tabla_segmento \in Seq(SegmentosDeMemoria)
    /\ RegistrosBien(b.registros)

\* A process whose program has been read, and one that has not ended yet.
Admitido(p) == consola[p] \in {"espera", "fin"} /\ hacia_kernel[p] = <<>>
Corre(p) == consola[p] = "espera" /\ hacia_kernel[p] = <<>>

\* A console sends a file that it could parse, and until the Kernel reads it the packet
\* is all there is of the process.
ConsolaBien(p) ==
    /\ consola[p] \in {"inicio", "espera", "rechazada", "fin"}
    /\ consola[p] = "inicio" => archivo[p] = <<>>
    /\ consola[p] \in {"espera", "fin"} => EsPrograma(p, archivo[p])
    /\ \/ hacia_kernel[p] = <<>>
       \/ /\ consola[p] = "espera"
          /\ hacia_kernel[p] = Paquete(OpCode.PROGRAMA, SerializarInstrucciones(Programa(p)))

\* A process that has been admitted has its pcb.
PcbBien(p) == IF Admitido(p) THEN EsPcb(p, pcb[p]) ELSE pcb[p] = PcbVacio

\* The consoles and the pcbs.
DatosBien ==
    /\ consola = [p \in Proc |-> consola[p]]
    /\ archivo = [p \in Proc |-> archivo[p]]
    /\ hacia_kernel = [p \in Proc |-> hacia_kernel[p]]
    /\ pcb = [p \in Proc |-> pcb[p]]
    /\ \A p \in Proc : ConsolaBien(p) /\ PcbBien(p)

\* The program of a process has a line after the first n.
PuedeSeguir(p, n) == n < Len(archivo[p])

\* In cola_ready each process is once, has not ended, has a line left to run, and is not
\* the one in cola_exec.
ColaBien ==
    /\ cola_ready \in Seq(Proc)
    /\ \A i, j \in 1..Len(cola_ready) : cola_ready[i] = cola_ready[j] => i = j
    /\ \A i \in 1..Len(cola_ready) :
        /\ Corre(cola_ready[i])
        /\ PuedeSeguir(cola_ready[i], pcb[cola_ready[i]].program_counter)
        /\ cola_exec # <<cola_ready[i]>>

\* Where the process that has the turn is: nowhere, on its way to the CPU, in it, or on
\* its way back.
MemoriaCallada == hacia_memoria = <<>> /\ desde_memoria = <<>>
CpuVacia == cpu = "espera" /\ proceso = SinProceso /\ MemoriaCallada
CpuLibre == hacia_cpu = <<>> /\ desde_cpu = <<>> /\ CpuVacia

\* The context of the process is on its way to the CPU.
Enviado(p) ==
    /\ hacia_cpu = EjecutarProceso(p, pcb[p])
    /\ PuedeSeguir(p, pcb[p].program_counter)
    /\ desde_cpu = <<>> /\ CpuVacia

\* The instruction the counter has just passed.
Pasada == proceso.instrucciones[proceso.program_counter]

\* The CPU waits for what a MOV_IN has asked of a segment of the process.
Lee(p) ==
    /\ cpu = "espera_lectura"
    /\ proceso.program_counter > 0
    /\ NombreDe(Pasada) = "MOV_IN"
    /\ \/ /\ desde_memoria = <<>>
          /\ \E d, n \in Nat : /\ hacia_memoria = Paquete(OpCode.READ_ADRESS, <<p, d, n>>)
                               /\ DeUnSegmento(p, d, n)
       \/ /\ hacia_memoria = <<>>
          /\ \E s \in Seq(Letra) : desde_memoria = Mensaje(s)

\* The CPU waits for the answer to a MOV_OUT of the string of a register.
Escribe(p) ==
    /\ cpu = "espera_escritura"
    /\ proceso.program_counter > 0
    /\ NombreDe(Pasada) = "MOV_OUT"
    /\ LET r == Pasada.parametros[2][1] IN
       \/ /\ desde_memoria = <<>>
          /\ \E d \in Nat :
                /\ hacia_memoria = Paquete(OpCode.WRITE_ADRESS,
                       <<p, d, ANCHO[r], ANCHO[r]>> \o SubSeq(registros_cpu[r], 1, ANCHO[r]))
                /\ DeUnSegmento(p, d, ANCHO[r])
       \/ /\ hacia_memoria = <<>>
          /\ desde_memoria = Mensaje(<<>>)

\* The process is in the CPU, with its program, its table and a line to run.
EnCpu(p) ==
    /\ hacia_cpu = <<>> /\ desde_cpu = <<>>
    /\ proceso = [pid |-> p, program_counter |-> proceso.program_counter,
                  instrucciones |-> Programa(p), tabla_segmentos |-> pcb[p].tabla_segmento,
                  registros |-> proceso.registros]
    /\ proceso.program_counter \in Nat
    /\ PuedeSeguir(p, proceso.program_counter)
    /\ RegistrosBien(proceso.registros)
    /\ Limpios(registros_cpu)
    /\ \/ cpu \in {"ejecuta", "caida"} /\ MemoriaCallada
       \/ Lee(p) \/ Escribe(p)

\* The fields that go after the context, one way for each code.
CamposBien(p, codigo, campos) ==
    /\ codigo \in {OpCode.FINALIZADO, OpCode.POR_SEG_FAULT, OpCode.YIELD, ReturnCode.SEG_FAULT} =>
          campos = <<>>
    /\ codigo \in {OpCode.BLOQUEADO, OpCode.DELETE_SEGMENT} => \E x \in Nat : campos = <<x>>
    /\ codigo = OpCode.CREATE_SEGMENT => \E x, y \in Nat : campos = <<x, y>>
    /\ codigo \in {OpCode.WAIT, OpCode.SIGNAL, OpCode.F_OPEN, OpCode.F_CLOSE} =>
          \E s \in Seq(Int \cup Byte) : campos = Mensaje(s) \o <<>>
    /\ codigo \in {OpCode.F_SEEK, OpCode.F_TRUNCATE} =>
          \E s \in Seq(Int \cup Byte) : \E x \in Nat : campos = Mensaje(s) \o <<x>>
    /\ codigo \in {OpCode.F_READ, OpCode.F_WRITE} =>
          \E s \in Seq(Int \cup Byte) : \E d, n \in Nat :
              campos = Mensaje(s) \o <<d, n>> /\ DeUnSegmento(p, d, n)

\* The context of a process, as it left the CPU.
ContextoDe(p, c) ==
    /\ c = [pid |-> p, program_counter |-> c.program_counter,
            instrucciones |-> Programa(p), tabla_segmentos |-> pcb[p].tabla_segmento,
            registros |-> c.registros]
    /\ c.program_counter \in Nat
    /\ RegistrosBien(c.registros)

\* The answer on its way to the Kernel: a context of the process and the fields of its code.
Respuesta(p, codigo, c, campos) ==
    /\ desde_cpu = EnviarContexto(codigo, c) \o campos
    /\ codigo \in Int /\ campos \in Seq(Celda)
    /\ ContextoDe(p, c)
    /\ CamposBien(p, codigo, campos)
    /\ codigo \notin {OpCode.FINALIZADO, OpCode.POR_SEG_FAULT} => PuedeSeguir(p, c.program_counter)

\* The CPU has given the process back.
Devuelto(p) ==
    /\ hacia_cpu = <<>> /\ CpuVacia
    /\ \E codigo, c, campos : Respuesta(p, codigo, c, campos)

\* Whose turn it is: nobody's, and all is quiet, or the turn of the process in cola_exec,
\* which is in one place: on its way to the CPU, in it, on its way back, or nowhere,
\* because the Kernel has dropped its answer.
Turno ==
    \/ cola_exec = <<>> /\ CpuLibre
    \/ \E p \in Proc : /\ cola_exec = <<p>> /\ Corre(p)
                       /\ Enviado(p) \/ EnCpu(p) \/ Devuelto(p) \/ CpuLibre

\* The inductive invariant.
CpuInv ==
    /\ DatosBien
    /\ ColaBien
    /\ RegistrosBien(registros_cpu)
    /\ espacio_usuario \in [1..TAM_MEMORIA -> Letra \cup {NUL}]
    /\ Turno

\* It holds at the start.
LEMMA CpuInvInicial == Init => CpuInv
<1> SUFFICES ASSUME Init
             PROVE  CpuInv
  OBVIOUS
<1>1. DatosBien
  BY DEF Init, DatosBien, ConsolaBien, PcbBien, Admitido
<1>2. ColaBien
  BY DEF Init, ColaBien
<1>3. RegistrosBien(registros_cpu)
  BY EnCero DEF Init
<1>4. espacio_usuario \in [1..TAM_MEMORIA -> Letra \cup {NUL}]
  BY DEF Init
<1>5. Turno
  BY DEF Init, Turno, CpuLibre, CpuVacia, MemoriaCallada
<1>. QED
  BY <1>1, <1>2, <1>3, <1>4, <1>5 DEF CpuInv


\* The registers of every pcb, made or not.
LEMMA RegistrosDePcb ==
    ASSUME CpuInv, NEW p \in Proc
    PROVE  RegistrosBien(pcb[p].registros)
<1>1. PcbBien(p)
  BY DEF CpuInv, DatosBien
<1>2. CASE Admitido(p)
  BY <1>1, <1>2 DEF PcbBien, EsPcb
<1>3. CASE ~Admitido(p)
  <2>1. pcb[p].registros = RegistrosEnCero
    BY <1>1, <1>3 DEF PcbBien, PcbVacio
  <2>. QED
    BY <2>1, EnCero
<1>. QED
  BY <1>2, <1>3

\* The types of Cpu, and the NUL at the end of each register, follow from it.
LEMMA InvTipoCpu == CpuInv => TipoCpu
<1> SUFFICES ASSUME CpuInv
             PROVE  TipoCpu
  OBVIOUS
<1>1. consola \in [Proc -> {"inicio", "espera", "rechazada", "fin"}]
  BY DEF CpuInv, DatosBien, ConsolaBien
<1>2. {cola_ready, cola_exec} \subseteq Seq(Proc)
  <2>1. cola_ready \in Seq(Proc)
    BY DEF CpuInv, ColaBien
  <2>2. cola_exec \in Seq(Proc)
    <3>1. cola_exec = <<>> \/ \E p \in Proc : cola_exec = <<p>>
      BY DEF CpuInv, Turno
    <3>2. \A p \in Proc : <<p>> \in Seq(Proc)
      OBVIOUS
    <3>3. <<>> \in Seq(Proc)
      OBVIOUS
    <3>. QED
      BY <3>1, <3>2, <3>3, Zenon
  <2>. QED
    BY <2>1, <2>2
<1>3. cpu \in {"espera", "ejecuta", "espera_lectura", "espera_escritura", "caida"}
  BY DEF CpuInv, Turno, Enviado, EnCpu, Devuelto, CpuLibre, CpuVacia, Lee, Escribe
<1>4. ASSUME NEW r \in Range(REGISTROS)
      PROVE  /\ registros_cpu[r] \in Registro(r)
             /\ registros_cpu[r][ANCHO[r] + 1] = NUL
             /\ \A p \in Proc : pcb[p].registros[r] \in Registro(r)
                             /\ pcb[p].registros[r][ANCHO[r] + 1] = NUL
  <2>1. RegistroBien(r, registros_cpu[r])
    BY DEF CpuInv, RegistrosBien
  <2>2. \A p \in Proc : RegistroBien(r, pcb[p].registros[r])
    BY RegistrosDePcb DEF RegistrosBien
  <2>. QED
    BY <2>1, <2>2 DEF RegistroBien
<1>. QED
  BY <1>1, <1>2, <1>3, <1>4 DEF TipoCpu

\* A pid goes on the wire.
LEMMA PidTipo == Proc \subseteq Celda
BY LetraTipo, CeldasTipo DEF Letra

\* A packet alone.
LEMMA LeePaqueteSolo ==
    ASSUME NEW codigo \in Celda, NEW b \in Seq(Celda)
    PROVE  EsPaquete(Paquete(codigo, b), codigo, b, <<>>)
<1> DEFINE h == <<codigo, Len(b)>>
           m == Paquete(codigo, b)
<1>1. EsPaquete(m \o <<>>, codigo, b, <<>>)
  <2>1. <<>> \in Seq(Celda)
    OBVIOUS
  <2>. QED
    BY <2>1, LeePaquete
<1>2. m \o <<>> = m
  <2>1. Len(b) \in Nat
    BY LenProperties
  <2>2. h \in Seq(Celda)
    BY <2>1, CeldasTipo
  <2>3. m = h \o b
    BY DEF Paquete
  <2> HIDE DEF h, m
  <2>4. m \in Seq(Celda)
    BY <2>2, <2>3, ConcatProperties
  <2>. QED
    BY <2>4, ConcatEmptySeq
<1> HIDE DEF m
<1>. QED
  BY <1>1, <1>2 DEF m

\* What Memoria reads of a request to read, and of one to write.
LEMMA LeeLectura ==
    ASSUME NEW p \in Proc, NEW d \in Nat, NEW n \in Nat
    PROVE  LET m == Paquete(OpCode.READ_ADRESS, <<p, d, n>>)
               datos == Buffer(m, 2)
           IN  /\ m # <<>> /\ Head(m) = OpCode.READ_ADRESS /\ Tras(m, 3 + m[2]) = <<>>
               /\ datos[1] = p /\ datos[2] = d /\ datos[3] = n
<1> DEFINE k == OpCode.READ_ADRESS
           b == <<p, d, n>>
           m == Paquete(k, b)
<1>1. k \in Celda
  BY CeldasTipo DEF OpCode
<1>2. b \in Seq(Celda) /\ Len(b) = 3
  BY PidTipo, CeldasTipo
<1>3. b[1] = p /\ b[2] = d /\ b[3] = n
  OBVIOUS
<1> HIDE DEF k, b
<1>4. EsPaquete(m, k, b, <<>>)
  BY <1>1, <1>2, LeePaqueteSolo
<1> HIDE DEF m
<1>5. m # <<>> /\ Head(m) = k /\ m[2] = Len(b) /\ Buffer(m, 2) = b /\ Tras(m, 2 + 1 + Len(b)) = <<>>
  BY <1>4 DEF EsPaquete, EsBuffer
<1>6. 3 + m[2] = 2 + 1 + Len(b)
  BY <1>2, <1>5
<1>7. Tras(m, 3 + m[2]) = <<>>
  BY <1>5, <1>6
<1>. QED
  BY <1>3, <1>5, <1>7 DEF m, k, b

\* The bytes to write come with their number.
LEMMA LeeEscritura ==
    ASSUME NEW p \in Proc, NEW d \in Nat, NEW n \in Nat, NEW x \in Seq(Celda), Len(x) = n
    PROVE  LET m == Paquete(OpCode.WRITE_ADRESS, <<p, d, n, n>> \o x)
               datos == Buffer(m, 2)
           IN  /\ m # <<>> /\ Head(m) = OpCode.WRITE_ADRESS /\ Tras(m, 3 + m[2]) = <<>>
               /\ datos[1] = p /\ datos[2] = d /\ datos[3] = n
               /\ Buffer(datos, 4) = x
<1> DEFINE k == OpCode.WRITE_ADRESS
           h == <<p, d, n, n>>
           h3 == <<p, d, n>>
           l == <<Len(x)>>
           b == h \o x
           m == Paquete(k, b)
<1>1. k \in Celda
  BY CeldasTipo DEF OpCode
<1>2. h \in Seq(Celda) /\ Len(h) = 4 /\ h3 \in Seq(Celda) /\ Len(h3) = 3 /\ h = h3 \o l
  BY PidTipo, CeldasTipo
<1>3. h[1] = p /\ h[2] = d /\ h[3] = n
  OBVIOUS
<1> HIDE DEF k, h, h3
<1>4. b \in Seq(Celda) /\ \A i \in 1..Len(h) : b[i] = h[i]
  BY <1>2, Prolonga
<1>5. b[1] = p /\ b[2] = d /\ b[3] = n
  <2>1. 1 \in 1..Len(h) /\ 2 \in 1..Len(h) /\ 3 \in 1..Len(h)
    BY <1>2
  <2> HIDE DEF b
  <2>. QED
    BY <1>3, <1>4, <2>1
<1>6. Buffer(b, 4) = x
  <2>1. <<>> \in Seq(Celda) /\ (h \o x) \o <<>> = b
    BY <1>4, ConcatEmptySeq
  <2>2. EsBuffer(((h3 \o l) \o x) \o <<>>, Len(h3) + 1, x, <<>>)
    BY <1>2, <2>1, LeeBuffer
  <2>3. Len(h3) + 1 = 4 /\ ((h3 \o l) \o x) \o <<>> = b
    BY <1>2, <2>1
  <2> HIDE DEF b
  <2>4. EsBuffer(b, 4, x, <<>>)
    BY <2>2, <2>3
  <2>. QED
    BY <2>4 DEF EsBuffer
<1> HIDE DEF b
<1>7. EsPaquete(m, k, b, <<>>)
  BY <1>1, <1>4, LeePaqueteSolo
<1> HIDE DEF m
<1>8. m # <<>> /\ Head(m) = k /\ m[2] = Len(b) /\ Buffer(m, 2) = b /\ Tras(m, 2 + 1 + Len(b)) = <<>>
  BY <1>7 DEF EsPaquete, EsBuffer
<1>9. 3 + m[2] = 2 + 1 + Len(b)
  BY <1>4, <1>8, LenProperties
<1>10. Tras(m, 3 + m[2]) = <<>>
  BY <1>8, <1>9
<1>. QED
  BY <1>5, <1>6, <1>8, <1>10 DEF m, k, b, h

\* A process that has been admitted has a program, and a pcb whose registers, table and
\* counter go on the wire as they are.
LEMMA ProgramaDe ==
    ASSUME CpuInv, NEW p \in Proc, Admitido(p)
    PROVE  /\ ProgramaLeido(Programa(p), archivo[p])
           /\ EsPcb(p, pcb[p])
           /\ EsPrograma(p, archivo[p])
<1>1. ConsolaBien(p) /\ PcbBien(p)
  BY DEF CpuInv, DatosBien
<1>2. EsPrograma(p, archivo[p])
  BY <1>1 DEF ConsolaBien, Admitido
<1>3. ProgramaLeido(Programa(p), archivo[p])
  BY <1>2, ProgramaBien DEF Programa
<1>. QED
  BY <1>1, <1>2, <1>3 DEF PcbBien

\* The segments of the memory are rows of a table.
LEMMA TablaDe ==
    ASSUME NEW t \in Seq(SegmentosDeMemoria)
    PROVE  t \in Seq(Segmentos)
<1>1. SegmentosDeMemoria \subseteq Segmentos
  BY DEF SegmentosDeMemoria, Segmentos
<1>. QED
  BY <1>1, SeqMonotonic

\* The context of an admitted process goes on the wire as it is.
LEMMA ContextoDeEntero ==
    ASSUME CpuInv, NEW p \in Proc, Admitido(p), NEW c, ContextoDe(p, c)
    PROVE  ContextoEntero(c)
<1>1. ProgramaLeido(Programa(p), archivo[p]) /\ EsPcb(p, pcb[p])
  BY ProgramaDe
<1>2. Programa(p) \in Instrucciones
  BY <1>1 DEF ProgramaLeido
<1>3. pcb[p].tabla_segmento \in Seq(Segmentos)
  BY <1>1, TablaDe DEF EsPcb
<1>4. Enteros(c.registros)
  BY RegistrosEnteros DEF ContextoDe
<1>5. p \in Celda
  BY PidTipo
<1>. QED
  BY <1>2, <1>3, <1>4, <1>5 DEF ContextoDe, ContextoEntero

\* What the Kernel reads of an answer is what the CPU sent.
LEMMA RespuestaLeida ==
    ASSUME CpuInv, NEW p \in Proc, Admitido(p), NEW codigo, NEW c, NEW campos,
           Respuesta(p, codigo, c, campos)
    PROVE  /\ ContextoLeido(desde_cpu, codigo, c, campos)
           /\ desde_cpu # <<>> /\ Head(desde_cpu) = codigo /\ ContextoRecibido = c
           /\ Campos = campos
<1>1. ContextoEntero(c)
  BY ContextoDeEntero DEF Respuesta
<1>2. codigo \in Celda /\ campos \in Seq(Celda) /\ desde_cpu = EnviarContexto(codigo, c) \o campos
  BY CeldasTipo DEF Respuesta
<1>3. ContextoLeido(desde_cpu, codigo, c, campos)
  BY <1>1, <1>2, LeeContexto
<1>. QED
  BY <1>3 DEF ContextoLeido, ContextoRecibido, Campos

\* Of what F_READ and F_WRITE send, the Kernel reads the address and the bytes.
LEMMA AccesoLeido ==
    ASSUME NEW p, NEW codigo \in {OpCode.F_READ, OpCode.F_WRITE}, NEW campos,
           CamposBien(p, codigo, campos)
    PROVE  \E d, n \in Nat : RecibirString(campos).resto = <<d, n>> /\ DeUnSegmento(p, d, n)
<1>1. PICK s \in Seq(Int \cup Byte), d \in Nat, n \in Nat :
         campos = Mensaje(s) \o <<d, n>> /\ DeUnSegmento(p, d, n)
  BY DEF CamposBien
<1>2. <<d, n>> \in Seq(Celda)
  BY CeldasTipo
<1>3. RecibirString(campos).resto = <<d, n>>
  <2> DEFINE r == <<d, n>>
  <2>1. r \in Seq(Celda) /\ campos = Mensaje(s) \o r
    BY <1>1, <1>2
  <2> HIDE DEF r
  <2>2. RecibirString(campos).resto = r
    BY <2>1, LeeMensaje
  <2>. QED
    BY <2>2 DEF r
<1>. QED
  BY <1>1, <1>3


\* The process in the CPU has the program of its file: the instruction the counter is at
\* and the one it has passed are its lines, and only an EXIT has no line after it.
LEMMA LineaActual ==
    ASSUME CpuInv, NEW p \in Proc, Admitido(p), EnCpu(p)
    PROVE  LET n == proceso.program_counter IN
           /\ n \in Nat /\ n + 1 \in 1..Len(archivo[p])
           /\ Instruccion = Programa(p)[n + 1]
           /\ EsDeLaLinea(Instruccion, archivo[p][n + 1])
           /\ NombreDe(Instruccion) # "EXIT" => PuedeSeguir(p, n + 1)
           /\ n > 0 => InstruccionBien(Pasada) /\ EsDeLaLinea(Pasada, archivo[p][n])
<1> DEFINE n == proceso.program_counter
           a == archivo[p]
           P == Programa(p)
<1>1. ProgramaLeido(P, a)
  BY ProgramaDe
<1>2. proceso.instrucciones = P /\ n \in Nat /\ n < Len(a)
  <2> DEFINE q == proceso
  <2>1. q = [pid |-> p, program_counter |-> q.program_counter, instrucciones |-> Programa(p),
             tabla_segmentos |-> pcb[p].tabla_segmento, registros |-> q.registros]
        /\ q.program_counter \in Nat /\ q.program_counter < Len(archivo[p])
    BY DEF EnCpu, PuedeSeguir
  <2> HIDE DEF q
  <2>2. q.instrucciones = Programa(p)
    BY <2>1
  <2>. QED
    BY <2>1, <2>2 DEF q
<1>3. /\ Len(a) \in Nat
      /\ \A i \in 1..Len(a) : EsDeLaLinea(P[i], a[i])
      /\ \A i \in 1..Len(a) : a[i].funcion # "EXIT" => i < Len(a)
  BY <1>1 DEF ProgramaLeido
<1>4. Instruccion = P[n + 1] /\ Pasada = P[n]
  BY <1>2 DEF Instruccion, Pasada
<1> HIDE DEF n, a, P
<1>5. n + 1 \in 1..Len(a) /\ (n > 0 => n \in 1..Len(a))
  BY <1>2, <1>3
<1>6. EsDeLaLinea(Instruccion, a[n + 1]) /\ (n > 0 => EsDeLaLinea(Pasada, a[n]))
  BY <1>3, <1>4, <1>5
<1>7. NombreDe(Instruccion) # "EXIT" => PuedeSeguir(p, n + 1)
  BY <1>3, <1>5, <1>6 DEF EsDeLaLinea, PuedeSeguir, a
<1>8. n > 0 => InstruccionBien(Pasada)
  BY <1>6 DEF EsDeLaLinea
<1>. QED
  BY <1>2, <1>4, <1>5, <1>6, <1>7, <1>8 DEF n, a, P

\* That a process asks only for what is within its own segments follows from the invariant.
LEMMA InvAccesosPropios == CpuInv => AccesosPropios
<1> SUFFICES ASSUME CpuInv
             PROVE  AccesosPropios
  OBVIOUS
<1>1. ASSUME hacia_memoria # <<>>
      PROVE  LET datos == Buffer(hacia_memoria, 2) IN
             /\ DeUnSegmento(datos[1], datos[2], datos[3])
             /\ cpu = "espera_escritura" =>
                 SinRestos(proceso.instrucciones[proceso.program_counter].parametros[2][1],
                           Buffer(datos, 4))
  <2>1. PICK p \in Proc : Corre(p) /\ EnCpu(p)
    BY <1>1 DEF CpuInv, Turno, Enviado, Devuelto, CpuLibre, CpuVacia, MemoriaCallada
  <2>2. Admitido(p)
    BY <2>1 DEF Corre, Admitido
  <2>3. CASE Lee(p)
    <3>1. PICK d \in Nat, n \in Nat :
             hacia_memoria = Paquete(OpCode.READ_ADRESS, <<p, d, n>>) /\ DeUnSegmento(p, d, n)
      BY <1>1, <2>3 DEF Lee
    <3> DEFINE datos == Buffer(hacia_memoria, 2)
    <3>2. datos[1] = p /\ datos[2] = d /\ datos[3] = n
      BY <3>1, LeeLectura
    <3>3. cpu # "espera_escritura"
      BY <2>3 DEF Lee
    <3>. QED
      BY <3>1, <3>2, <3>3
  <2>4. CASE Escribe(p)
    <3> DEFINE r == Pasada.parametros[2][1]
               x == SubSeq(registros_cpu[r], 1, ANCHO[r])
               datos == Buffer(hacia_memoria, 2)
    <3>1. PICK d \in Nat :
             /\ hacia_memoria = Paquete(OpCode.WRITE_ADRESS, <<p, d, ANCHO[r], ANCHO[r]>> \o x)
             /\ DeUnSegmento(p, d, ANCHO[r])
      BY <1>1, <2>4 DEF Escribe
    <3>2. r \in Range(REGISTROS)
      <4>1. proceso.program_counter > 0 /\ NombreDe(Pasada) = "MOV_OUT"
        BY <2>4 DEF Escribe
      <4>2. InstruccionBien(Pasada)
        BY <2>1, <2>2, <4>1, LineaActual
      <4>. QED
        BY <4>1, <4>2 DEF InstruccionBien
    <3>3. RegistrosBien(registros_cpu) /\ Limpios(registros_cpu)
      BY <2>1 DEF CpuInv, EnCpu
    <3> HIDE DEF r
    <3>4. SinRestos(r, x) /\ x \in Seq(Letra \cup {NUL}) /\ Len(x) = ANCHO[r]
      BY <3>2, <3>3, SinRestosBien
    <3>5. x \in Seq(Celda)
      BY <3>4, LetraTipo, SeqMonotonic
    <3>6. ANCHO[r] \in Nat
      BY <3>2, RegistrosTipo
    <3> DEFINE n == ANCHO[r]
    <3> HIDE DEF x, n
    <3>7. hacia_memoria = Paquete(OpCode.WRITE_ADRESS, <<p, d, n, n>> \o x) /\ n \in Nat
          /\ Len(x) = n
      BY <3>1, <3>4, <3>6 DEF n
    <3>8. datos[1] = p /\ datos[2] = d /\ datos[3] = n /\ Buffer(datos, 4) = x
      BY <3>5, <3>7, LeeEscritura
    <3> HIDE DEF datos
    <3>9. SinRestos(Pasada.parametros[2][1], Buffer(datos, 4))
      BY <3>4, <3>8 DEF r
    <3>10. DeUnSegmento(datos[1], datos[2], datos[3])
      BY <3>1, <3>8 DEF n
    <3>. QED
      BY <3>9, <3>10 DEF Pasada, datos
  <2>. QED
    BY <1>1, <2>1, <2>3, <2>4 DEF EnCpu, MemoriaCallada
<1>2. ASSUME desde_cpu # <<>>, Head(desde_cpu) \in {OpCode.F_READ, OpCode.F_WRITE}
      PROVE  LET enteros == RecibirString(Campos).resto IN
             DeUnSegmento(desde_cpu[3], enteros[1], enteros[2])
  <2>1. PICK p \in Proc : Corre(p) /\ Devuelto(p)
    BY <1>2 DEF CpuInv, Turno, Enviado, EnCpu, CpuLibre
  <2>2. PICK codigo, c, campos : Respuesta(p, codigo, c, campos)
    BY <2>1 DEF Devuelto
  <2>3. Admitido(p)
    BY <2>1 DEF Corre, Admitido
  <2>4. ContextoLeido(desde_cpu, codigo, c, campos) /\ Head(desde_cpu) = codigo /\ Campos = campos
    BY <2>2, <2>3, RespuestaLeida
  <2>5. desde_cpu[3] = p
    <3>1. desde_cpu[3] = c.pid
      BY <2>4 DEF ContextoLeido
    <3>2. c = [pid |-> p, program_counter |-> c.program_counter, instrucciones |-> Programa(p),
               tabla_segmentos |-> pcb[p].tabla_segmento, registros |-> c.registros]
      BY <2>2 DEF Respuesta, ContextoDe
    <3>3. c.pid = p
      BY <3>2
    <3>. QED
      BY <3>1, <3>3
  <2>6. PICK d \in Nat, n \in Nat : RecibirString(campos).resto = <<d, n>> /\ DeUnSegmento(p, d, n)
    BY <1>2, <2>2, <2>4, AccesoLeido DEF Respuesta
  <2>7. RecibirString(campos).resto[1] = d /\ RecibirString(campos).resto[2] = n
    BY <2>6
  <2>. QED
    BY <2>4, <2>5, <2>6, <2>7
<1>. QED
  BY <1>1, <1>2 DEF AccesosPropios



-----------------------------------------------------------------------------
(* The steps of the CPU *)

\* The process in the CPU, when it runs an instruction.
LEMMA EnEjecucion ==
    ASSUME CpuInv, cpu = "ejecuta"
    PROVE  \E p \in Proc : /\ cola_exec = <<p>> /\ Corre(p) /\ Admitido(p)
                           /\ EnCpu(p) /\ MemoriaCallada
<1>1. PICK p \in Proc : cola_exec = <<p>> /\ Corre(p) /\ EnCpu(p)
  BY DEF CpuInv, Turno, Enviado, Devuelto, CpuLibre, CpuVacia
<1>2. MemoriaCallada
  BY <1>1 DEF EnCpu, Lee, Escribe
<1>. QED
  BY <1>1, <1>2 DEF Corre, Admitido

\* A step that leaves the consoles and the queues as they are.
LEMMA PasoDeCpu ==
    ASSUME CpuInv, UNCHANGED <<consolas, kernel>>,
           espacio_usuario' \in [1..TAM_MEMORIA -> Letra \cup {NUL}],
           RegistrosBien(registros_cpu'),
           NEW p \in Proc, cola_exec = <<p>>, Corre(p),
           (Enviado(p) \/ EnCpu(p) \/ Devuelto(p) \/ CpuLibre)'
    PROVE  CpuInv'
<1>1. DatosBien'
  BY DEF CpuInv, DatosBien, ConsolaBien, PcbBien, EsPcb, Admitido, Programa, EsPrograma,
         PcbVacio, consolas, kernel
<1>2. ColaBien'
  BY DEF CpuInv, ColaBien, Corre, PuedeSeguir, consolas, kernel
<1>3. RegistrosBien(registros_cpu)'
  BY DEF RegistrosBien, RegistroBien
<1>4. Turno'
  <2>1. cola_exec' = <<p>> /\ Corre(p)'
    BY DEF Corre, consolas, kernel
  <2>. QED
    BY <2>1 DEF Turno
<1>. QED
  BY <1>1, <1>2, <1>3, <1>4 DEF CpuInv

\* The context the Kernel sends.
Contexto(p) ==
    [pid |-> p, program_counter |-> pcb[p].program_counter,
     instrucciones |-> pcb[p].instrucciones, registros |-> pcb[p].registros,
     tabla_segmentos |-> pcb[p].tabla_segmento]

\* It is the context of the process, and the CPU reads it as it is.
LEMMA ContextoEnviado ==
    ASSUME CpuInv, NEW p \in Proc, Admitido(p)
    PROVE  /\ ContextoDe(p, Contexto(p))
           /\ EjecutarProceso(p, pcb[p]) = EnviarContexto(OpCode.CONTEXTO_PROCESO, Contexto(p))
           /\ ContextoLeido(EjecutarProceso(p, pcb[p]), OpCode.CONTEXTO_PROCESO, Contexto(p), <<>>)
<1> DEFINE b == pcb[p]
           c == Contexto(p)
           k == OpCode.CONTEXTO_PROCESO
<1>1. EsPcb(p, b)
  BY ProgramaDe
<1>2. c.pid = p /\ c.program_counter = b.program_counter /\ c.instrucciones = b.instrucciones
      /\ c.registros = b.registros /\ c.tabla_segmentos = b.tabla_segmento
      /\ c = [pid |-> c.pid, program_counter |-> c.program_counter,
              instrucciones |-> c.instrucciones, tabla_segmentos |-> c.tabla_segmentos,
              registros |-> c.registros]
  BY DEF Contexto
<1>3. EjecutarProceso(p, b) = EnviarContexto(k, c)
  BY DEF EjecutarProceso, Contexto
<1> HIDE DEF c
<1>4. b.instrucciones = Programa(p) /\ b.program_counter \in Nat /\ RegistrosBien(b.registros)
  <2> HIDE DEF b
  <2>1. /\ b = [program_counter |-> b.program_counter, instrucciones |-> Programa(p),
                tabla_segmento |-> b.tabla_segmento, registros |-> b.registros]
        /\ b.program_counter \in Nat /\ RegistrosBien(b.registros)
    BY <1>1 DEF EsPcb
  <2>2. b.instrucciones = Programa(p)
    BY <2>1
  <2>. QED
    BY <2>1, <2>2
<1>5. ContextoDe(p, c)
  BY <1>2, <1>4 DEF ContextoDe, RegistrosBien
<1>6. ContextoEntero(c) /\ k \in Celda
  BY <1>5, ContextoDeEntero, CeldasTipo DEF OpCode
<1> HIDE DEF k
<1>7. ContextoLeido(EnviarContexto(k, c), k, c, <<>>)
  <2>1. <<>> \in Seq(Celda)
    OBVIOUS
  <2>. QED
    BY <1>6, <2>1, LeeContexto
<1>. QED
  BY <1>3, <1>5, <1>7 DEF c, k

\* The CPU takes a context.
LEMMA CpuRecibeContextoInv ==
    ASSUME CpuInv, CpuRecibeContexto
    PROVE  CpuInv'
<1>1. PICK p \in Proc : cola_exec = <<p>> /\ Corre(p) /\ Enviado(p)
  BY DEF CpuRecibeContexto, CpuInv, Turno, EnCpu, Devuelto, CpuLibre
<1>2. Admitido(p)
  BY <1>1 DEF Corre, Admitido
<1> DEFINE c == Contexto(p)
<1>3. ContextoDe(p, c) /\ ContextoLeido(hacia_cpu, OpCode.CONTEXTO_PROCESO, c, <<>>)
  BY <1>1, <1>2, ContextoEnviado DEF Enviado
<1>4. proceso' = c /\ hacia_cpu' = <<>>
  BY <1>3 DEF CpuRecibeContexto, ContextoLeido
<1>5. registros_cpu' = SetearRegistros(c.registros)
  BY <1>4 DEF CpuRecibeContexto
<1>6. c.program_counter = pcb[p].program_counter
  BY DEF Contexto
<1> HIDE DEF c
<1>7. RegistrosBien(c.registros) /\ RegistrosBien(registros_cpu)
  BY <1>3 DEF ContextoDe, CpuInv
<1>8. RegistrosBien(registros_cpu') /\ Limpios(registros_cpu')
  BY <1>5, <1>7, SetearBien
<1>9. EnCpu(p)'
  <2>1. hacia_cpu' = <<>> /\ desde_cpu' = <<>> /\ cpu' = "ejecuta" /\ MemoriaCallada'
    BY <1>1, <1>4 DEF CpuRecibeContexto, Enviado, CpuVacia, MemoriaCallada, enlace
  <2>2. pcb' = pcb /\ archivo' = archivo
    BY DEF CpuRecibeContexto, kernel, consolas
  <2>3. /\ proceso' = [pid |-> p, program_counter |-> proceso'.program_counter,
              instrucciones |-> Programa(p)', tabla_segmentos |-> pcb'[p].tabla_segmento,
              registros |-> proceso'.registros]
        /\ proceso'.program_counter \in Nat
    BY <1>3, <1>4, <2>2 DEF ContextoDe, Programa
  <2>4. PuedeSeguir(p, proceso.program_counter)'
    BY <1>1, <1>4, <1>6, <2>2 DEF PuedeSeguir, Enviado
  <2>5. RegistrosBien(proceso.registros)'
    BY <1>4, <1>7 DEF RegistrosBien, RegistroBien
  <2>6. Limpios(registros_cpu)'
    BY <1>8 DEF Limpios, Limpio
  <2>. QED
    BY <2>1, <2>3, <2>4, <2>5, <2>6 DEF EnCpu
<1>10. espacio_usuario' \in [1..TAM_MEMORIA -> Letra \cup {NUL}]
  BY DEF CpuInv, CpuRecibeContexto
<1>11. UNCHANGED <<consolas, kernel>>
  BY DEF CpuRecibeContexto
<1>. QED
  BY <1>1, <1>8, <1>9, <1>10, <1>11, PasoDeCpu


\* The counter goes on to the next line.
LEMMA Avanzado ==
    ASSUME CpuInv, NEW p \in Proc, Admitido(p), EnCpu(p), NombreDe(Instruccion) # "EXIT",
           proceso' = Avanza, UNCHANGED <<consolas, kernel>>
    PROVE  /\ proceso' = [pid |-> p, program_counter |-> proceso'.program_counter,
                 instrucciones |-> Programa(p)', tabla_segmentos |-> pcb'[p].tabla_segmento,
                 registros |-> proceso'.registros]
           /\ proceso'.program_counter = proceso.program_counter + 1
           /\ proceso'.program_counter \in Nat /\ proceso'.program_counter > 0
           /\ PuedeSeguir(p, proceso.program_counter)'
           /\ RegistrosBien(proceso.registros)'
           /\ Pasada' = Instruccion
<1> DEFINE q == proceso
           n == q.program_counter
           a == archivo[p]
<1>1. /\ q = [pid |-> p, program_counter |-> n, instrucciones |-> Programa(p),
              tabla_segmentos |-> pcb[p].tabla_segmento, registros |-> q.registros]
      /\ RegistrosBien(q.registros)
  BY DEF EnCpu
<1>2. n \in Nat /\ PuedeSeguir(p, n + 1)
  BY LineaActual
<1>3. q' = [q EXCEPT !.program_counter = @ + 1]
  BY DEF Avanza
<1>4. pcb' = pcb /\ Programa(p)' = Programa(p) /\ archivo' = archivo
  BY DEF Programa, kernel, consolas
<1> HIDE DEF q
<1>5. q'.program_counter = n + 1 /\ q'.registros = q.registros /\ q'.instrucciones = q.instrucciones
      /\ q' = [pid |-> p, program_counter |-> n + 1, instrucciones |-> Programa(p),
               tabla_segmentos |-> pcb[p].tabla_segmento, registros |-> q.registros]
  BY <1>1, <1>3
<1>6. n + 1 \in Nat /\ n + 1 > 0
  BY <1>2
<1>7. Pasada' = Instruccion
  BY <1>5 DEF Pasada, Instruccion, q
<1>8. PuedeSeguir(p, proceso.program_counter)'
  BY <1>2, <1>4, <1>5 DEF PuedeSeguir, q
<1>9. RegistrosBien(proceso.registros)'
  BY <1>1, <1>5 DEF RegistrosBien, RegistroBien, q
<1>. QED
  BY <1>4, <1>5, <1>6, <1>7, <1>8, <1>9 DEF q

\* The address that the MMU gives is of a segment of the process.
LEMMA Traducida ==
    ASSUME CpuInv, NEW p \in Proc, Admitido(p), EnCpu(p), NEW d \in Nat, NEW n \in Nat,
           SegmentosDe(d) # {}, Cabe(d, n)
    PROVE  DireccionFisica(d) \in Nat /\ DeUnSegmento(p, DireccionFisica(d), n)
<1> DEFINE t == pcb[p].tabla_segmento
           k == CHOOSE i \in SegmentosDe(d) : TRUE
           s == t[k]
           resto == d % TAM_MAX_SEGMENTO
<1>1. proceso.tabla_segmentos = t
  <2> DEFINE q == proceso
  <2>1. q = [pid |-> p, program_counter |-> q.program_counter, instrucciones |-> Programa(p),
             tabla_segmentos |-> pcb[p].tabla_segmento, registros |-> q.registros]
    BY DEF EnCpu
  <2> HIDE DEF q
  <2>2. q.tabla_segmentos = pcb[p].tabla_segmento
    BY <2>1
  <2>. QED
    BY <2>2 DEF q
<1>2. k \in DOMAIN t /\ ObtenerSegmento(d) = s
  BY <1>1 DEF SegmentosDe, ObtenerSegmento
<1>3. t \in Seq(SegmentosDeMemoria)
  BY ProgramaDe DEF EsPcb
<1> HIDE DEF t, k
<1>4. s \in SegmentosDeMemoria
  BY <1>2, <1>3
<1>5. s.inicio \in Nat /\ s.tam_segmento \in Nat
  BY <1>4 DEF SegmentosDeMemoria
<1>6. resto \in Nat
  BY CpuAssumption
<1> HIDE DEF s, resto
<1>7. resto + n <= s.tam_segmento /\ DireccionFisica(d) = s.inicio + resto
  BY <1>2 DEF Cabe, DireccionFisica, resto
<1>8. /\ s.inicio + resto \in Nat /\ s.inicio <= s.inicio + resto
      /\ (s.inicio + resto) + n <= s.inicio + s.tam_segmento
  <2> DEFINE x == s.inicio
             y == s.tam_segmento
  <2>1. x \in Nat /\ y \in Nat /\ resto + n <= y
    BY <1>5, <1>7
  <2> HIDE DEF x, y
  <2>2. x + resto \in Nat /\ x <= x + resto /\ (x + resto) + n <= x + y
    BY <1>6, <2>1
  <2>. QED
    BY <2>2 DEF x, y
<1>. QED
  BY <1>2, <1>7, <1>8 DEF DeUnSegmento, s, t

\* SET.
LEMMA ExecuteSetInv ==
    ASSUME CpuInv, ExecuteSet
    PROVE  CpuInv'
<1> DEFINE r == Instruccion.parametros[1][1]
           s == Instruccion.parametros[2]
<1>1. PICK p \in Proc : cola_exec = <<p>> /\ Corre(p) /\ Admitido(p) /\ EnCpu(p) /\ MemoriaCallada
  BY EnEjecucion DEF ExecuteSet, Ejecuta
<1>2. NombreDe(Instruccion) = "SET" /\ registros_cpu' = SetValorRegistro(r, s) /\ proceso' = Avanza
      /\ UNCHANGED <<consolas, kernel, hacia_cpu, espacio_usuario, cpu, desde_cpu, enlace>>
      /\ cpu = "ejecuta"
  BY DEF ExecuteSet, Ejecuta
<1>3. r \in Range(REGISTROS) /\ s \in Seq(Letra)
  <2>1. InstruccionBien(Instruccion)
    BY <1>1, LineaActual DEF EsDeLaLinea
  <2>. QED
    BY <1>2, <2>1 DEF InstruccionBien
<1> HIDE DEF r, s
<1>4. RegistrosBien(registros_cpu') /\ Limpios(registros_cpu')
  <2>1. RegistrosBien(registros_cpu) /\ Limpios(registros_cpu)
    BY <1>1 DEF CpuInv, EnCpu
  <2>. QED
    BY <1>2, <1>3, <2>1, SetValorBien
<1>5. EnCpu(p)'
  <2>1. /\ proceso' = [pid |-> p, program_counter |-> proceso'.program_counter,
              instrucciones |-> Programa(p)', tabla_segmentos |-> pcb'[p].tabla_segmento,
              registros |-> proceso'.registros]
        /\ proceso'.program_counter \in Nat
        /\ PuedeSeguir(p, proceso.program_counter)'
        /\ RegistrosBien(proceso.registros)'
    BY <1>1, <1>2, Avanzado
  <2>2. Limpios(registros_cpu)'
    BY <1>4 DEF Limpios, Limpio
  <2>3. hacia_cpu' = <<>> /\ desde_cpu' = <<>> /\ cpu' = "ejecuta" /\ MemoriaCallada'
    BY <1>1, <1>2 DEF EnCpu, MemoriaCallada, enlace
  <2>. QED
    BY <2>1, <2>2, <2>3 DEF EnCpu
<1>6. espacio_usuario' \in [1..TAM_MEMORIA -> Letra \cup {NUL}]
  BY <1>2 DEF CpuInv
<1>. QED
  BY <1>1, <1>2, <1>4, <1>5, <1>6, PasoDeCpu


\* The CPU ends.
LEMMA CpuCaeInv ==
    ASSUME CpuInv, CpuCae
    PROVE  CpuInv'
<1>1. PICK p \in Proc : cola_exec = <<p>> /\ Corre(p) /\ EnCpu(p) /\ MemoriaCallada
  BY EnEjecucion DEF CpuCae, Ejecuta
<1>2. cpu' = "caida"
      /\ UNCHANGED <<consolas, kernel, hacia_cpu, espacio_usuario, desde_cpu, proceso,
                     registros_cpu, enlace>>
  BY DEF CpuCae, Ejecuta
<1>3. RegistrosBien(registros_cpu') /\ espacio_usuario' \in [1..TAM_MEMORIA -> Letra \cup {NUL}]
  BY <1>2 DEF CpuInv
<1>4. MemoriaCallada' /\ pcb' = pcb /\ archivo' = archivo
  BY <1>1, <1>2 DEF MemoriaCallada, enlace, kernel, consolas
<1>5. EnCpu(p)'
  BY <1>1, <1>2, <1>4 DEF EnCpu, Programa, PuedeSeguir, RegistrosBien, RegistroBien, Limpios, Limpio
<1>. QED
  BY <1>1, <1>2, <1>3, <1>5, PasoDeCpu

\* MOV_IN asks Memoria, within a segment of the process.
LEMMA ExecuteMovInInv ==
    ASSUME CpuInv, ExecuteMovIn
    PROVE  CpuInv'
<1> DEFINE d == DireccionFisica(Direccion)
           n == CantBytes
<1>1. PICK p \in Proc : cola_exec = <<p>> /\ Corre(p) /\ Admitido(p) /\ EnCpu(p) /\ MemoriaCallada
  BY EnEjecucion DEF ExecuteMovIn, Ejecuta
<1>2. /\ NombreDe(Instruccion) = "MOV_IN" /\ proceso' = Avanza /\ cpu' = "espera_lectura"
      /\ hacia_memoria' = Paquete(OpCode.READ_ADRESS, <<proceso.pid, d, n>>)
      /\ UNCHANGED <<consolas, kernel, hacia_cpu, espacio_usuario, registros_cpu, desde_cpu,
                     desde_memoria>>
      /\ SegmentosDe(Direccion) # {} /\ Cabe(Direccion, CantBytes)
  BY DEF ExecuteMovIn, Ejecuta, Traducible
<1>3. Direccion \in Nat /\ n \in Nat
  <2>1. InstruccionBien(Instruccion)
    BY <1>1, LineaActual DEF EsDeLaLinea
  <2>2. Instruccion.parametros[2][1] \in Nat /\ Instruccion.parametros[1][1] \in Range(REGISTROS)
    BY <1>2, <2>1 DEF InstruccionBien
  <2>3. ANCHO[Instruccion.parametros[1][1]] \in Nat
    BY <2>2, RegistrosTipo
  <2>. QED
    BY <1>2, <2>2, <2>3 DEF Direccion, CantBytes, Entero
<1>4. d \in Nat /\ DeUnSegmento(p, d, n)
  BY <1>1, <1>2, <1>3, Traducida
<1>5. proceso.pid = p
  <2> DEFINE q == proceso
  <2>1. q = [pid |-> p, program_counter |-> q.program_counter, instrucciones |-> Programa(p),
             tabla_segmentos |-> pcb[p].tabla_segmento, registros |-> q.registros]
    BY <1>1 DEF EnCpu
  <2> HIDE DEF q
  <2>2. q.pid = p
    BY <2>1
  <2>. QED
    BY <2>2 DEF q
<1>6. PICK e \in Nat, m \in Nat : e = d /\ m = n
  BY <1>3, <1>4
<1> HIDE DEF d, n
<1>7. /\ hacia_memoria' = Paquete(OpCode.READ_ADRESS, <<p, e, m>>)
      /\ DeUnSegmento(p, e, m)
  BY <1>2, <1>4, <1>5, <1>6
<1>8. EnCpu(p)'
  <2>1. /\ proceso' = [pid |-> p, program_counter |-> proceso'.program_counter,
              instrucciones |-> Programa(p)', tabla_segmentos |-> pcb'[p].tabla_segmento,
              registros |-> proceso'.registros]
        /\ proceso'.program_counter \in Nat /\ proceso'.program_counter > 0
        /\ PuedeSeguir(p, proceso.program_counter)'
        /\ RegistrosBien(proceso.registros)'
        /\ Pasada' = Instruccion
    BY <1>1, <1>2, Avanzado
  <2>2. Limpios(registros_cpu)'
    BY <1>1, <1>2 DEF EnCpu, Limpios, Limpio
  <2>3. hacia_cpu' = <<>> /\ desde_cpu' = <<>> /\ desde_memoria' = <<>>
    BY <1>1, <1>2 DEF EnCpu, MemoriaCallada
  <2>4. DeUnSegmento(p, e, m)'
    BY <1>2, <1>7 DEF DeUnSegmento, kernel
  <2>5. NombreDe(Pasada)' = "MOV_IN"
    BY <1>2, <2>1 DEF NombreDe
  <2>6. Lee(p)'
    BY <1>2, <1>7, <2>1, <2>3, <2>4, <2>5 DEF Lee
  <2>. QED
    BY <2>1, <2>2, <2>3, <2>6 DEF EnCpu
<1>9. espacio_usuario' \in [1..TAM_MEMORIA -> Letra \cup {NUL}] /\ RegistrosBien(registros_cpu')
  BY <1>2 DEF CpuInv
<1>. QED
  BY <1>1, <1>2, <1>8, <1>9, PasoDeCpu

\* MOV_OUT asks Memoria, within a segment of the process.
LEMMA ExecuteMovOutInv ==
    ASSUME CpuInv, ExecuteMovOut
    PROVE  CpuInv'
<1> DEFINE d == DireccionFisica(Direccion)
           r == Instruccion.parametros[2][1]
           n == ANCHO[r]
           x == SubSeq(registros_cpu[r], 1, n)
<1>1. PICK p \in Proc : cola_exec = <<p>> /\ Corre(p) /\ Admitido(p) /\ EnCpu(p) /\ MemoriaCallada
  BY EnEjecucion DEF ExecuteMovOut, Ejecuta
<1>2. /\ NombreDe(Instruccion) = "MOV_OUT" /\ proceso' = Avanza /\ cpu' = "espera_escritura"
      /\ hacia_memoria' = Paquete(OpCode.WRITE_ADRESS, <<proceso.pid, d, n, n>> \o x)
      /\ UNCHANGED <<consolas, kernel, hacia_cpu, espacio_usuario, registros_cpu, desde_cpu,
                     desde_memoria>>
      /\ SegmentosDe(Direccion) # {} /\ Cabe(Direccion, CantBytes)
  BY DEF ExecuteMovOut, Ejecuta, Traducible
<1>3. Direccion \in Nat /\ n \in Nat /\ CantBytes = n
  <2>1. InstruccionBien(Instruccion)
    BY <1>1, LineaActual DEF EsDeLaLinea
  <2>2. Instruccion.parametros[1][1] \in Nat /\ Instruccion.parametros[2][1] \in Range(REGISTROS)
    BY <1>2, <2>1 DEF InstruccionBien
  <2>3. ANCHO[Instruccion.parametros[2][1]] \in Nat
    BY <2>2, RegistrosTipo
  <2>. QED
    BY <1>2, <2>2, <2>3 DEF Direccion, CantBytes, Entero
<1>4. d \in Nat /\ DeUnSegmento(p, d, n)
  BY <1>1, <1>2, <1>3, Traducida
<1>5. proceso.pid = p
  <2> DEFINE q == proceso
  <2>1. q = [pid |-> p, program_counter |-> q.program_counter, instrucciones |-> Programa(p),
             tabla_segmentos |-> pcb[p].tabla_segmento, registros |-> q.registros]
    BY <1>1 DEF EnCpu
  <2> HIDE DEF q
  <2>2. q.pid = p
    BY <2>1
  <2>. QED
    BY <2>2 DEF q
<1>6. PICK e \in Nat : e = d
  BY <1>4
<1>7. PICK m, y : m = n /\ y = x
  OBVIOUS
<1> HIDE DEF d
<1>8. /\ hacia_memoria' = Paquete(OpCode.WRITE_ADRESS, <<p, e, m, m>> \o y)
      /\ DeUnSegmento(p, e, m)
  BY <1>2, <1>4, <1>5, <1>6, <1>7
<1>9. EnCpu(p)'
  <2>1. /\ proceso' = [pid |-> p, program_counter |-> proceso'.program_counter,
              instrucciones |-> Programa(p)', tabla_segmentos |-> pcb'[p].tabla_segmento,
              registros |-> proceso'.registros]
        /\ proceso'.program_counter \in Nat /\ proceso'.program_counter > 0
        /\ PuedeSeguir(p, proceso.program_counter)'
        /\ RegistrosBien(proceso.registros)'
        /\ Pasada' = Instruccion
    BY <1>1, <1>2, Avanzado
  <2>2. Limpios(registros_cpu)'
    BY <1>1, <1>2 DEF EnCpu, Limpios, Limpio
  <2>3. hacia_cpu' = <<>> /\ desde_cpu' = <<>> /\ desde_memoria' = <<>>
    BY <1>1, <1>2 DEF EnCpu, MemoriaCallada
  <2>4. DeUnSegmento(p, e, m)'
    BY <1>2, <1>8 DEF DeUnSegmento, kernel
  <2>5. NombreDe(Pasada)' = "MOV_OUT"
    BY <1>2, <2>1 DEF NombreDe
  <2>6. m = ANCHO[Pasada'.parametros[2][1]]
        /\ y = SubSeq(registros_cpu'[Pasada'.parametros[2][1]], 1, ANCHO[Pasada'.parametros[2][1]])
    BY <1>2, <1>6, <1>7, <2>1
  <2>7. Escribe(p)'
    BY <1>2, <1>8, <2>1, <2>3, <2>4, <2>5, <2>6 DEF Escribe
  <2>. QED
    BY <2>1, <2>2, <2>3, <2>7 DEF EnCpu
<1>10. espacio_usuario' \in [1..TAM_MEMORIA -> Letra \cup {NUL}] /\ RegistrosBien(registros_cpu')
  BY <1>2 DEF CpuInv
<1>. QED
  BY <1>1, <1>2, <1>9, <1>10, PasoDeCpu


\* A string alone.
LEMMA LeeMensajeSolo ==
    ASSUME NEW s \in Seq(Int \cup Byte)
    PROVE  RecibirString(Mensaje(s)).valor = s /\ RecibirString(Mensaje(s)).resto = <<>>
<1>1. <<>> \in Seq(Celda)
  OBVIOUS
<1>2. Mensaje(s) \in Seq(Celda)
  BY <1>1, LeeMensaje
<1>3. Mensaje(s) \o <<>> = Mensaje(s)
  BY <1>2, ConcatEmptySeq
<1>4. RecibirString(Mensaje(s) \o <<>>).valor = s /\ RecibirString(Mensaje(s) \o <<>>).resto = <<>>
  <2> DEFINE r == <<>>
  <2>1. r \in Seq(Celda)
    BY <1>1
  <2> HIDE DEF r
  <2>2. RecibirString(Mensaje(s) \o r).valor = s /\ RecibirString(Mensaje(s) \o r).resto = r
    BY <2>1, LeeMensaje
  <2>. QED
    BY <2>2 DEF r
<1>. QED
  BY <1>3, <1>4

\* An answer of Memoria leaves the process and its counter as they are.
LEMMA MemoriaContesta ==
    ASSUME CpuInv, NEW p \in Proc, EnCpu(p), cpu' = "ejecuta",
           hacia_memoria = <<>>, desde_memoria' = <<>>, Limpios(registros_cpu'),
           UNCHANGED <<consolas, kernel, hacia_cpu, desde_cpu, proceso, hacia_memoria>>
    PROVE  EnCpu(p)'
<1>1. MemoriaCallada' /\ pcb' = pcb /\ archivo' = archivo
  BY DEF MemoriaCallada, kernel, consolas
<1>2. Limpios(registros_cpu)'
  BY DEF Limpios, Limpio
<1>. QED
  BY <1>1, <1>2 DEF EnCpu, Programa, PuedeSeguir, RegistrosBien, RegistroBien

\* What MOV_IN asked for gets to the register.
LEMMA CpuLeidoInv ==
    ASSUME CpuInv, CpuLeido
    PROVE  CpuInv'
<1> DEFINE r == Pasada.parametros[1][1]
           s == RecibirString(desde_memoria).valor
<1>1. PICK p \in Proc : cola_exec = <<p>> /\ Corre(p) /\ EnCpu(p)
  BY DEF CpuLeido, CpuInv, Turno, Enviado, Devuelto, CpuLibre, CpuVacia
<1>2. /\ Lee(p) /\ hacia_memoria = <<>>
      /\ \E t \in Seq(Letra) : desde_memoria = Mensaje(t)
  BY <1>1 DEF EnCpu, CpuLeido, MemoriaCallada, Lee, Escribe
<1>3. s \in Seq(Letra) /\ RecibirString(desde_memoria).resto = <<>>
  <2>1. PICK t \in Seq(Letra) : desde_memoria = Mensaje(t)
    BY <1>2
  <2>2. t \in Seq(Int \cup Byte)
    BY LetraTipo, SeqMonotonic
  <2>. QED
    BY <2>1, <2>2, LeeMensajeSolo
<1>4. r \in Range(REGISTROS)
  <2>1. Admitido(p) /\ proceso.program_counter > 0 /\ NombreDe(Pasada) = "MOV_IN"
    BY <1>1, <1>2 DEF Corre, Admitido, Lee
  <2>2. InstruccionBien(Pasada)
    BY <1>1, <2>1, LineaActual
  <2>. QED
    BY <2>1, <2>2 DEF InstruccionBien
<1>5. /\ registros_cpu' = SetValorRegistro(r, s) /\ desde_memoria' = <<>> /\ cpu' = "ejecuta"
      /\ UNCHANGED <<consolas, kernel, hacia_cpu, desde_cpu, proceso, hacia_memoria,
                     espacio_usuario>>
  BY <1>3 DEF CpuLeido, Pasada
<1> HIDE DEF r, s
<1>6. RegistrosBien(registros_cpu') /\ Limpios(registros_cpu')
  <2>1. RegistrosBien(registros_cpu) /\ Limpios(registros_cpu)
    BY <1>1 DEF CpuInv, EnCpu
  <2>. QED
    BY <1>3, <1>4, <1>5, <2>1, SetValorBien
<1>7. EnCpu(p)'
  BY <1>1, <1>2, <1>5, <1>6, MemoriaContesta
<1>8. espacio_usuario' \in [1..TAM_MEMORIA -> Letra \cup {NUL}]
  BY <1>5 DEF CpuInv
<1>. QED
  BY <1>1, <1>5, <1>6, <1>7, <1>8, PasoDeCpu

\* Memoria has written what MOV_OUT asked for.
LEMMA CpuEscritoInv ==
    ASSUME CpuInv, CpuEscrito
    PROVE  CpuInv'
<1>1. PICK p \in Proc : cola_exec = <<p>> /\ Corre(p) /\ EnCpu(p)
  BY DEF CpuEscrito, CpuInv, Turno, Enviado, Devuelto, CpuLibre, CpuVacia
<1>2. hacia_memoria = <<>> /\ desde_memoria = Mensaje(<<>>)
  BY <1>1 DEF EnCpu, CpuEscrito, MemoriaCallada, Lee, Escribe
<1>3. RecibirString(desde_memoria).resto = <<>>
  <2>1. <<>> \in Seq(Int \cup Byte)
    OBVIOUS
  <2>. QED
    BY <1>2, <2>1, LeeMensajeSolo
<1>4. /\ desde_memoria' = <<>> /\ cpu' = "ejecuta"
      /\ UNCHANGED <<consolas, kernel, hacia_cpu, desde_cpu, proceso, registros_cpu,
                     hacia_memoria, espacio_usuario>>
  BY <1>3 DEF CpuEscrito
<1>5. RegistrosBien(registros_cpu') /\ Limpios(registros_cpu')
  BY <1>1, <1>4 DEF CpuInv, EnCpu
<1>6. EnCpu(p)'
  BY <1>1, <1>2, <1>4, <1>5, MemoriaContesta
<1>7. espacio_usuario' \in [1..TAM_MEMORIA -> Letra \cup {NUL}]
  BY <1>4 DEF CpuInv
<1>. QED
  BY <1>1, <1>4, <1>5, <1>6, <1>7, PasoDeCpu


\* A context is a sequence of cells: with nothing before it, it is what arrives.
LEMMA ContextoEnCeldas ==
    ASSUME NEW c, ContextoEntero(c), NEW codigo \in Celda
    PROVE  EnviarContexto(codigo, c) \in Seq(Celda)
<1> DEFINE b == CuerpoContexto(c)
           h == <<codigo, Len(b)>>
<1>1. CuerpoBien(b, c) /\ EnviarContexto(codigo, c) = Paquete(codigo, b)
  BY ContextoVuelve
<1> HIDE DEF b
<1>2. b \in Seq(Celda) /\ Len(b) \in Nat
  BY <1>1, LenProperties DEF CuerpoBien
<1>3. h \in Seq(Celda) /\ EnviarContexto(codigo, c) = h \o b
  BY <1>1, <1>2, CeldasTipo DEF Paquete
<1> HIDE DEF h
<1>4. h \o b \in Seq(Celda)
  BY <1>2, <1>3, ConcatProperties
<1>. QED
  BY <1>3, <1>4

\* What going back does to the process that has the CPU: its context is on its way to the
\* Kernel, one line further and with the strings of the registers of the CPU.
SeDevuelve(p) ==
    /\ cola_exec = <<p>> /\ Corre(p) /\ EnCpu(p)
    /\ UNCHANGED <<consolas, kernel>> /\ CpuVacia'
    /\ \E codigo, c, campos :
          /\ Respuesta(p, codigo, c, campos)'
          /\ c.program_counter = proceso.program_counter + 1
          /\ Valores(c.registros) = Valores(registros_cpu)

\* The process goes back with its code and its fields.
LEMMA DevolverInv ==
    ASSUME CpuInv, NEW p \in Proc, cola_exec = <<p>>, Corre(p), EnCpu(p), MemoriaCallada,
           NEW codigo \in Int, NEW campos \in Seq(Celda), CamposBien(p, codigo, campos),
           codigo \notin {OpCode.FINALIZADO, OpCode.POR_SEG_FAULT} => NombreDe(Instruccion) # "EXIT",
           Devolver(codigo, campos),
           UNCHANGED <<consolas, kernel, hacia_cpu, espacio_usuario>>
    PROVE  CpuInv' /\ SeDevuelve(p)
<1> DEFINE q == proceso
           rs == ActualizarRegistros(q.registros)
           c == [Avanza EXCEPT !.registros = ActualizarRegistros(@)]
<1>1. Admitido(p)
  BY DEF Corre, Admitido
<1>2. /\ q = [pid |-> p, program_counter |-> q.program_counter, instrucciones |-> Programa(p),
              tabla_segmentos |-> pcb[p].tabla_segmento, registros |-> q.registros]
      /\ RegistrosBien(q.registros) /\ q.program_counter \in Nat
      /\ hacia_cpu = <<>> /\ desde_cpu = <<>>
  BY DEF EnCpu
<1>3. RegistrosBien(registros_cpu)
  BY DEF CpuInv
<1>4. RegistrosBien(rs)
  BY <1>2, <1>3, ActualizarBien
<1>16. Valores(rs) = Valores(registros_cpu)
  BY <1>2, <1>3, ActualizarBien
<1>5. c.program_counter = q.program_counter + 1 /\ c.registros = rs
      /\ c = [pid |-> p, program_counter |-> q.program_counter + 1, instrucciones |-> Programa(p),
              tabla_segmentos |-> pcb[p].tabla_segmento, registros |-> rs]
  <2> DEFINE v == [q EXCEPT !.program_counter = @ + 1]
             x == ActualizarRegistros(v.registros)
  <2>1. c = [v EXCEPT !.registros = x]
    BY DEF Avanza
  <2> HIDE DEF q, c, rs
  <2>2. v = [pid |-> p, program_counter |-> q.program_counter + 1, instrucciones |-> Programa(p),
             tabla_segmentos |-> pcb[p].tabla_segmento, registros |-> q.registros]
        /\ v.registros = q.registros
    BY <1>2
  <2>3. x = rs
    BY <2>2 DEF rs
  <2> HIDE DEF v, x
  <2>4. c = [pid |-> p, program_counter |-> q.program_counter + 1, instrucciones |-> Programa(p),
             tabla_segmentos |-> pcb[p].tabla_segmento, registros |-> rs]
    BY <2>1, <2>2, <2>3
  <2>. QED
    BY <2>4
<1>6. codigo \notin {OpCode.FINALIZADO, OpCode.POR_SEG_FAULT} =>
          PuedeSeguir(p, q.program_counter + 1)
  BY <1>1, LineaActual
<1>7. /\ desde_cpu' = desde_cpu \o EnviarContexto(codigo, c) \o campos
      /\ registros_cpu' = LimpiarRegistros /\ proceso' = SinProceso /\ cpu' = "espera"
      /\ UNCHANGED enlace
  BY DEF Devolver
<1> HIDE DEF rs, c, q
<1>8. ContextoDe(p, c)
  BY <1>2, <1>4, <1>5 DEF ContextoDe
<1>9. EnviarContexto(codigo, c) \in Seq(Celda)
  BY <1>1, <1>8, ContextoDeEntero, ContextoEnCeldas, CeldasTipo
<1>10. desde_cpu' = EnviarContexto(codigo, c) \o campos
  BY <1>2, <1>7, <1>9, ConcatEmptySeq
<1>11. RegistrosBien(registros_cpu')
  BY <1>3, <1>7, LimpiarBien
<1>12. PICK d : d = c
  OBVIOUS
<1> HIDE DEF c
<1>13. Respuesta(p, codigo, d, campos)'
  <2>1. pcb' = pcb /\ archivo' = archivo
    BY DEF kernel, consolas
  <2>2. ContextoDe(p, d)'
    BY <1>8, <1>12, <2>1 DEF ContextoDe, Programa, RegistrosBien, RegistroBien
  <2>3. CamposBien(p, codigo, campos)'
    BY <2>1 DEF CamposBien, DeUnSegmento
  <2>4. (codigo \notin {OpCode.FINALIZADO, OpCode.POR_SEG_FAULT} => PuedeSeguir(p, d.program_counter))'
    BY <1>5, <1>6, <1>12, <2>1 DEF PuedeSeguir
  <2>. QED
    BY <1>10, <1>12, <2>2, <2>3, <2>4 DEF Respuesta
<1>14. Devuelto(p)'
  <2>1. hacia_cpu' = <<>> /\ CpuVacia'
    BY <1>2, <1>7 DEF CpuVacia, MemoriaCallada, enlace, SinProceso
  <2>. QED
    BY <1>13, <2>1 DEF Devuelto
<1>15. espacio_usuario' \in [1..TAM_MEMORIA -> Letra \cup {NUL}]
  BY DEF CpuInv
<1>17. d.program_counter = proceso.program_counter + 1 /\ Valores(d.registros) = Valores(registros_cpu)
  BY <1>5, <1>12, <1>16 DEF q
<1>18. SeDevuelve(p)
  BY <1>13, <1>14, <1>17 DEF SeDevuelve, Devuelto
<1>19. CpuInv'
  BY <1>11, <1>14, <1>15, PasoDeCpu
<1>. QED
  BY <1>18, <1>19


\* A segmentation fault gives the process back.
LEMMA SegFaultInv ==
    ASSUME CpuInv, SegFault
    PROVE  CpuInv' /\ \E p \in Proc : SeDevuelve(p)
<1> DEFINE k == IF NombreDe(Instruccion) = "F_READ" THEN ReturnCode.SEG_FAULT
                ELSE OpCode.POR_SEG_FAULT
<1>1. PICK p \in Proc : cola_exec = <<p>> /\ Corre(p) /\ EnCpu(p) /\ MemoriaCallada
  BY EnEjecucion DEF SegFault, Ejecuta
<1>2. /\ NombreDe(Instruccion) \in ConDireccion /\ Devolver(k, <<>>)
      /\ UNCHANGED <<consolas, kernel, hacia_cpu, espacio_usuario>>
  BY DEF SegFault, Ejecuta
<1>3. NombreDe(Instruccion) # "EXIT"
  BY <1>2 DEF ConDireccion
<1>4. k \in Int
  BY DEF OpCode, ReturnCode
<1>5. CamposBien(p, k, <<>>)
  BY DEF CamposBien, OpCode, ReturnCode
<1> HIDE DEF k
<1>6. <<>> \in Seq(Celda)
  OBVIOUS
<1> DEFINE campos == <<>>
<1>7. campos \in Seq(Celda) /\ CamposBien(p, k, campos) /\ Devolver(k, campos)
  BY <1>2, <1>5, <1>6
<1> HIDE DEF campos
<1>. QED
  BY <1>1, <1>2, <1>3, <1>4, <1>7, DevolverInv

\* YIELD and EXIT.
LEMMA ExecuteSinCamposInv ==
    ASSUME CpuInv, ExecuteSinCampos
    PROVE  CpuInv' /\ \E p \in Proc : SeDevuelve(p)
<1> DEFINE k == IF NombreDe(Instruccion) = "YIELD" THEN OpCode.YIELD ELSE OpCode.FINALIZADO
           campos == <<>>
<1>1. PICK p \in Proc : cola_exec = <<p>> /\ Corre(p) /\ EnCpu(p) /\ MemoriaCallada
  BY EnEjecucion DEF ExecuteSinCampos, Ejecuta
<1>2. /\ Devolver(k, campos)
      /\ UNCHANGED <<consolas, kernel, hacia_cpu, espacio_usuario>>
  BY DEF ExecuteSinCampos, Ejecuta
<1>3. k \notin {OpCode.FINALIZADO, OpCode.POR_SEG_FAULT} => NombreDe(Instruccion) # "EXIT"
  OBVIOUS
<1>4. k \in Int /\ campos \in Seq(Celda)
  BY DEF OpCode
<1>5. CamposBien(p, k, campos)
  BY DEF CamposBien, OpCode, ReturnCode
<1> HIDE DEF k, campos
<1>. QED
  BY <1>1, <1>2, <1>3, <1>4, <1>5, DevolverInv

\* A code and its fields, for an instruction that is not an EXIT.
LEMMA ConCamposInv ==
    ASSUME CpuInv, NEW p \in Proc, cola_exec = <<p>>, Corre(p), EnCpu(p), MemoriaCallada,
           NEW k \in Int, NEW campos \in Seq(Celda), CamposBien(p, k, campos),
           NombreDe(Instruccion) # "EXIT", Devolver(k, campos),
           UNCHANGED <<consolas, kernel, hacia_cpu, espacio_usuario>>
    PROVE  CpuInv' /\ SeDevuelve(p)
BY DevolverInv

\* I/O, CREATE_SEGMENT and DELETE_SEGMENT.
LEMMA ExecuteConEnterosInv ==
    ASSUME CpuInv, ExecuteConEnteros
    PROVE  CpuInv' /\ \E p \in Proc : SeDevuelve(p)
<1> DEFINE f == NombreDe(Instruccion)
           x == Entero(1)
           y == Entero(2)
<1>1. PICK p \in Proc : cola_exec = <<p>> /\ Corre(p) /\ Admitido(p) /\ EnCpu(p) /\ MemoriaCallada
  BY EnEjecucion DEF ExecuteConEnteros, Ejecuta
<1>2. /\ f \in {"I/O", "CREATE_SEGMENT", "DELETE_SEGMENT"}
      /\ UNCHANGED <<consolas, kernel, hacia_cpu, espacio_usuario>>
      /\ f = "I/O" => Devolver(OpCode.BLOQUEADO, <<x>>)
      /\ f = "CREATE_SEGMENT" => Devolver(OpCode.CREATE_SEGMENT, <<x, y>>)
      /\ f = "DELETE_SEGMENT" => Devolver(OpCode.DELETE_SEGMENT, <<x>>)
  BY DEF ExecuteConEnteros, Ejecuta
<1>3. InstruccionBien(Instruccion)
  BY <1>1, LineaActual DEF EsDeLaLinea
<1>4. x \in Nat /\ (f = "CREATE_SEGMENT" => y \in Nat)
  BY <1>2, <1>3 DEF InstruccionBien, Entero
<1>5. f # "EXIT"
  BY <1>2
<1> HIDE DEF f, x, y
<1>6. PICK k \in Int, campos \in Seq(Celda) : CamposBien(p, k, campos) /\ Devolver(k, campos)
  <2>1. CASE f = "I/O"
    <3> DEFINE k == OpCode.BLOQUEADO
               c == <<x>>
    <3>1. k \in Int /\ c \in Seq(Celda) /\ CamposBien(p, k, c)
      BY <1>4, CeldasTipo DEF CamposBien, OpCode, ReturnCode
    <3>2. Devolver(k, c)
      BY <1>2, <2>1
    <3> HIDE DEF k, c
    <3>. QED
      BY <3>1, <3>2
  <2>2. CASE f = "CREATE_SEGMENT"
    <3> DEFINE k == OpCode.CREATE_SEGMENT
               c == <<x, y>>
    <3>1. k \in Int /\ c \in Seq(Celda) /\ CamposBien(p, k, c)
      BY <1>4, <2>2, CeldasTipo DEF CamposBien, OpCode, ReturnCode
    <3>2. Devolver(k, c)
      BY <1>2, <2>2
    <3> HIDE DEF k, c
    <3>. QED
      BY <3>1, <3>2
  <2>3. CASE f = "DELETE_SEGMENT"
    <3> DEFINE k == OpCode.DELETE_SEGMENT
               c == <<x>>
    <3>1. k \in Int /\ c \in Seq(Celda) /\ CamposBien(p, k, c)
      BY <1>4, CeldasTipo DEF CamposBien, OpCode, ReturnCode
    <3>2. Devolver(k, c)
      BY <1>2, <2>3
    <3> HIDE DEF k, c
    <3>. QED
      BY <3>1, <3>2
  <2>. QED
    BY <1>2, <2>1, <2>2, <2>3
<1>. QED
  BY <1>1, <1>2, <1>5, <1>6, ConCamposInv DEF f

\* WAIT, SIGNAL, F_OPEN, F_CLOSE, F_SEEK and F_TRUNCATE.
LEMMA ExecuteConNombreInv ==
    ASSUME CpuInv, ExecuteConNombre
    PROVE  CpuInv' /\ \E p \in Proc : SeDevuelve(p)
<1> DEFINE f == NombreDe(Instruccion)
           s == Instruccion.parametros[1]
           y == Entero(2)
           r == IF f \in {"F_SEEK", "F_TRUNCATE"} THEN <<y>> ELSE <<>>
           campos == Mensaje(s) \o r
           k == OpCode[f]
<1>1. PICK p \in Proc : cola_exec = <<p>> /\ Corre(p) /\ Admitido(p) /\ EnCpu(p) /\ MemoriaCallada
  BY EnEjecucion DEF ExecuteConNombre, Ejecuta
<1>2. /\ f \in {"WAIT", "SIGNAL", "F_OPEN", "F_CLOSE", "F_SEEK", "F_TRUNCATE"}
      /\ UNCHANGED <<consolas, kernel, hacia_cpu, espacio_usuario>>
      /\ Devolver(k, campos)
  BY DEF ExecuteConNombre, Ejecuta
<1>3. InstruccionBien(Instruccion)
  BY <1>1, LineaActual DEF EsDeLaLinea
<1>4. s \in Seq(Int \cup Byte) /\ (f \in {"F_SEEK", "F_TRUNCATE"} => y \in Nat)
  BY <1>2, <1>3 DEF InstruccionBien, Entero
<1>5. f # "EXIT"
  BY <1>2
<1> HIDE DEF f, s, y
<1>6. r \in Seq(Celda)
  <2>1. f \in {"F_SEEK", "F_TRUNCATE"} => <<y>> \in Seq(Celda)
    BY <1>4, CeldasTipo
  <2>. QED
    BY <2>1
<1>7. campos \in Seq(Celda)
  <2> HIDE DEF r
  <2>1. Mensaje(s) \in Seq(Celda)
    BY <1>4, <1>6, LeeMensaje
  <2>. QED
    BY <1>6, <2>1, ConcatProperties
<1>8. k \in Int /\ CamposBien(p, k, campos)
  <2>1. CASE f \in {"F_SEEK", "F_TRUNCATE"}
    <3>1. campos = Mensaje(s) \o <<y>> /\ y \in Nat
      BY <1>4, <2>1
    <3>2. k \in {OpCode.F_SEEK, OpCode.F_TRUNCATE}
      BY <2>1 DEF OpCode
    <3> HIDE DEF campos, k
    <3>. QED
      BY <1>4, <3>1, <3>2 DEF CamposBien, OpCode, ReturnCode
  <2>2. CASE f \in {"WAIT", "SIGNAL", "F_OPEN", "F_CLOSE"}
    <3>1. campos = Mensaje(s) \o <<>>
      BY <2>2
    <3>2. k \in {OpCode.WAIT, OpCode.SIGNAL, OpCode.F_OPEN, OpCode.F_CLOSE}
      BY <2>2 DEF OpCode
    <3> HIDE DEF campos, k
    <3>. QED
      BY <1>4, <3>1, <3>2 DEF CamposBien, OpCode, ReturnCode
  <2>. QED
    BY <1>2, <2>1, <2>2
<1> HIDE DEF k, campos
<1>. QED
  BY <1>1, <1>2, <1>5, <1>7, <1>8, ConCamposInv DEF f

\* F_READ and F_WRITE, within a segment of the process.
LEMMA ExecuteAccesoArchivoInv ==
    ASSUME CpuInv, ExecuteAccesoArchivo
    PROVE  CpuInv' /\ \E p \in Proc : SeDevuelve(p)
<1> DEFINE f == NombreDe(Instruccion)
           s == Instruccion.parametros[1]
           d == DireccionFisica(Direccion)
           n == Entero(3)
           r == <<d, n>>
           campos == Mensaje(s) \o r
           k == OpCode[f]
<1>1. PICK p \in Proc : cola_exec = <<p>> /\ Corre(p) /\ Admitido(p) /\ EnCpu(p) /\ MemoriaCallada
  BY EnEjecucion DEF ExecuteAccesoArchivo, Ejecuta
<1>2. /\ f \in {"F_READ", "F_WRITE"}
      /\ SegmentosDe(Direccion) # {} /\ Cabe(Direccion, CantBytes)
      /\ UNCHANGED <<consolas, kernel, hacia_cpu, espacio_usuario>>
      /\ Devolver(k, campos)
  BY DEF ExecuteAccesoArchivo, Ejecuta, Traducible
<1>3. InstruccionBien(Instruccion)
  BY <1>1, LineaActual DEF EsDeLaLinea
<1>4. s \in Seq(Int \cup Byte) /\ n \in Nat /\ Direccion \in Nat /\ CantBytes = n
  BY <1>2, <1>3 DEF InstruccionBien, Entero, Direccion, CantBytes
<1>5. f # "EXIT"
  BY <1>2
<1>6. d \in Nat /\ DeUnSegmento(p, d, n)
  <2> HIDE DEF n
  <2>. QED
    BY <1>1, <1>2, <1>4, Traducida
<1> HIDE DEF f, s, d, n
<1>7. campos \in Seq(Celda)
  <2>1. r \in Seq(Celda)
    BY <1>4, <1>6, CeldasTipo
  <2> HIDE DEF r
  <2>2. Mensaje(s) \in Seq(Celda)
    BY <1>4, <2>1, LeeMensaje
  <2>. QED
    BY <2>1, <2>2, ConcatProperties
<1>8. k \in Int /\ CamposBien(p, k, campos)
  <2>1. k \in {OpCode.F_READ, OpCode.F_WRITE}
    BY <1>2 DEF OpCode
  <2>2. \E t \in Seq(Int \cup Byte) : \E e, m \in Nat :
            campos = Mensaje(t) \o <<e, m>> /\ DeUnSegmento(p, e, m)
    BY <1>4, <1>6
  <2> HIDE DEF campos, k
  <2>3. /\ k \notin {OpCode.FINALIZADO, OpCode.POR_SEG_FAULT, OpCode.YIELD, ReturnCode.SEG_FAULT}
        /\ k \notin {OpCode.BLOQUEADO, OpCode.DELETE_SEGMENT} /\ k # OpCode.CREATE_SEGMENT
        /\ k \notin {OpCode.WAIT, OpCode.SIGNAL, OpCode.F_OPEN, OpCode.F_CLOSE}
        /\ k \notin {OpCode.F_SEEK, OpCode.F_TRUNCATE} /\ k \in Int
    BY <2>1 DEF OpCode, ReturnCode
  <2>. QED
    BY <2>2, <2>3, Zenon DEF CamposBien
<1> HIDE DEF k, campos
<1>. QED
  BY <1>1, <1>2, <1>5, <1>7, <1>8, ConCamposInv DEF f



-----------------------------------------------------------------------------
(* The steps of Memoria *)

\* Memoria stays as long as it is.
LEMMA EscribirTipo ==
    ASSUME espacio_usuario \in [1..TAM_MEMORIA -> Letra \cup {NUL}], NEW d,
           NEW bytes \in Seq(Letra \cup {NUL})
    PROVE  Escribir(d, bytes) \in [1..TAM_MEMORIA -> Letra \cup {NUL}]
<1> DEFINE L == Letra \cup {NUL}
<1>1. \A i \in DOMAIN bytes : bytes[i] \in L
  OBVIOUS
<1> HIDE DEF L
<1>2. espacio_usuario \in [1..TAM_MEMORIA -> L]
  BY DEF L
<1>3. Escribir(d, bytes) \in [1..TAM_MEMORIA -> L]
  BY <1>1, <1>2 DEF Escribir
<1>. QED
  BY <1>3 DEF L

\* A segment is within the memory.
LEMMA EnMemoria ==
    ASSUME CpuInv, NEW p \in Proc, Admitido(p), NEW d \in Nat, NEW n \in Nat, DeUnSegmento(p, d, n)
    PROVE  \A i \in 1..n : d + i \in 1..TAM_MEMORIA
<1> DEFINE t == pcb[p].tabla_segmento
<1>1. t \in Seq(SegmentosDeMemoria)
  BY ProgramaDe DEF EsPcb
<1>2. PICK i \in DOMAIN t : d + n <= t[i].inicio + t[i].tam_segmento
  BY DEF DeUnSegmento
<1> HIDE DEF t
<1>3. t[i] \in SegmentosDeMemoria
  BY <1>1
<1> DEFINE x == t[i].inicio
           y == t[i].tam_segmento
<1>4. x \in Nat /\ y \in Nat /\ x + y <= TAM_MEMORIA
  BY <1>3 DEF SegmentosDeMemoria
<1>5. TAM_MEMORIA \in Nat /\ d + n <= x + y
  BY <1>2, CpuAssumption
<1> HIDE DEF x, y
<1>. QED
  BY <1>4, <1>5

\* The process that waits for Memoria.
LEMMA EnEspera ==
    ASSUME CpuInv, hacia_memoria # <<>>
    PROVE  \E p \in Proc : /\ cola_exec = <<p>> /\ Corre(p) /\ Admitido(p) /\ EnCpu(p)
                           /\ Lee(p) \/ Escribe(p)
BY DEF CpuInv, Turno, Enviado, EnCpu, Devuelto, CpuLibre, CpuVacia, MemoriaCallada, Corre, Admitido

\* A step of Memoria leaves the process where it is.
LEMMA PasoDeMemoria ==
    ASSUME CpuInv, NEW p \in Proc, cola_exec = <<p>>, Corre(p), EnCpu(p), (Lee(p) \/ Escribe(p))',
           UNCHANGED <<consolas, kernel, hacia_cpu, desde_cpu, ciclo>>,
           espacio_usuario' \in [1..TAM_MEMORIA -> Letra \cup {NUL}]
    PROVE  CpuInv'
<1>1. pcb' = pcb /\ archivo' = archivo /\ UNCHANGED <<cpu, proceso, registros_cpu>>
  BY DEF kernel, consolas, ciclo
<1>2. EnCpu(p)'
  <2>1. Programa(p)' = Programa(p) /\ (PuedeSeguir(p, proceso.program_counter))' /\ Limpios(registros_cpu)'
        /\ RegistrosBien(proceso.registros)'
    BY <1>1 DEF EnCpu, Programa, PuedeSeguir, RegistrosBien, RegistroBien, Limpios, Limpio
  <2>. QED
    BY <1>1, <2>1 DEF EnCpu
<1>3. RegistrosBien(registros_cpu')
  BY <1>1 DEF CpuInv
<1>. QED
  BY <1>2, <1>3, PasoDeCpu

\* Memoria answers a read.
LEMMA MemoryReadAdressInv ==
    ASSUME CpuInv, MemoryReadAdress
    PROVE  CpuInv'
<1> DEFINE datos == Buffer(hacia_memoria, 2)
           x == [i \in 1..datos[3] |-> espacio_usuario[datos[2] + i]]
           L == Letra \cup {NUL}
<1>1. /\ hacia_memoria # <<>> /\ Head(hacia_memoria) = OpCode.READ_ADRESS
      /\ hacia_memoria' = Tras(hacia_memoria, 3 + hacia_memoria[2])
      /\ desde_memoria' = Mensaje(Cadena(x))
      /\ UNCHANGED <<consolas, kernel, hacia_cpu, desde_cpu, ciclo, espacio_usuario>>
  BY DEF MemoryReadAdress, Llega
<1>2. PICK p \in Proc : /\ cola_exec = <<p>> /\ Corre(p) /\ Admitido(p) /\ EnCpu(p)
                        /\ Lee(p) \/ Escribe(p)
  BY <1>1, EnEspera
<1>3. Lee(p)
  <2>1. ASSUME Escribe(p)
        PROVE  FALSE
    <3> DEFINE r == Pasada.parametros[2][1]
               n == ANCHO[r]
               y == SubSeq(registros_cpu[r], 1, n)
    <3>1. PICK d \in Nat : hacia_memoria = Paquete(OpCode.WRITE_ADRESS, <<p, d, n, n>> \o y)
      BY <1>1, <2>1 DEF Escribe
    <3>2. Head(hacia_memoria) = OpCode.WRITE_ADRESS
      <4> DEFINE b == <<p, d, n, n>> \o y
                 l == Len(b)
                 k == OpCode.WRITE_ADRESS
      <4>1. hacia_memoria = <<k, l>> \o b
        BY <3>1 DEF Paquete
      <4>2. r \in Range(REGISTROS)
        <5>1. proceso.program_counter > 0 /\ NombreDe(Pasada) = "MOV_OUT"
          BY <2>1 DEF Escribe
        <5>2. InstruccionBien(Pasada)
          BY <1>2, <5>1, LineaActual
        <5>. QED
          BY <5>1, <5>2 DEF InstruccionBien
      <4>3. RegistrosBien(registros_cpu) /\ Limpios(registros_cpu)
        BY <1>2 DEF CpuInv, EnCpu
      <4>4. n \in Nat
        BY <4>2, RegistrosTipo
      <4> HIDE DEF r
      <4>5. y \in Seq(Letra \cup {NUL}) /\ Len(y) = n
        BY <4>2, <4>3, SinRestosBien
      <4>6. y \in Seq(Celda)
        BY <4>5, LetraTipo, SeqMonotonic
      <4> HIDE DEF y, n
      <4>7. Head(Paquete(OpCode.WRITE_ADRESS, <<p, d, n, n>> \o y)) = OpCode.WRITE_ADRESS
        BY <4>4, <4>5, <4>6, LeeEscritura
      <4>. QED
        BY <3>1, <4>7
    <3>. QED
      BY <1>1, <3>2 DEF OpCode
  <2>. QED
    BY <1>2, <2>1
<1>4. PICK d \in Nat, n \in Nat :
         hacia_memoria = Paquete(OpCode.READ_ADRESS, <<p, d, n>>) /\ DeUnSegmento(p, d, n)
  BY <1>1, <1>3 DEF Lee
<1>5. datos[2] = d /\ datos[3] = n /\ hacia_memoria' = <<>>
  BY <1>1, <1>4, LeeLectura
<1>6. Cadena(x) \in Seq(Letra)
  <2>1. \A i \in 1..n : d + i \in 1..TAM_MEMORIA
    BY <1>2, <1>4, EnMemoria
  <2>2. espacio_usuario \in [1..TAM_MEMORIA -> L]
    BY DEF CpuInv
  <2>3. x = [i \in 1..n |-> espacio_usuario[d + i]]
    BY <1>5
  <2> HIDE DEF x
  <2>4. x \in [1..n -> L]
    <3> HIDE DEF L
    <3>. QED
      BY <2>1, <2>2, <2>3
  <2>5. x \in Seq(L)
    <3> HIDE DEF L
    <3>. QED
      BY <2>4, EsSecuencia
  <2>6. L \ {NUL} = Letra
    BY LetraTipo
  <2> HIDE DEF L
  <2>. QED
    BY <2>5, <2>6, SinNul
<1>7. PICK s \in Seq(Letra) : s = Cadena(x)
  BY <1>6
<1>8. Lee(p)'
  <2>1. cpu' = "espera_lectura" /\ proceso' = proceso /\ cpu = "espera_lectura"
    BY <1>1, <1>3 DEF Lee, ciclo
  <2>2. Pasada' = Pasada
    BY <2>1 DEF Pasada
  <2>3. NombreDe(Pasada)' = "MOV_IN" /\ (proceso.program_counter > 0)'
    BY <1>3, <2>1, <2>2 DEF Lee, NombreDe
  <2>4. desde_memoria' = Mensaje(s)
    BY <1>1, <1>7
  <2>. QED
    BY <1>5, <2>1, <2>3, <2>4 DEF Lee
<1>9. espacio_usuario' \in [1..TAM_MEMORIA -> Letra \cup {NUL}]
  BY <1>1 DEF CpuInv
<1>. QED
  BY <1>1, <1>2, <1>8, <1>9, PasoDeMemoria


\* Memoria answers a write.
LEMMA MemoryWriteAdressInv ==
    ASSUME CpuInv, MemoryWriteAdress
    PROVE  CpuInv'
<1> DEFINE datos == Buffer(hacia_memoria, 2)
<1>1. /\ hacia_memoria # <<>> /\ Head(hacia_memoria) = OpCode.WRITE_ADRESS
      /\ hacia_memoria' = Tras(hacia_memoria, 3 + hacia_memoria[2])
      /\ espacio_usuario' = Escribir(datos[2], Buffer(datos, 4))
      /\ desde_memoria' = Mensaje(<<>>)
      /\ UNCHANGED <<consolas, kernel, hacia_cpu, desde_cpu, ciclo>>
  BY DEF MemoryWriteAdress, Llega
<1>2. PICK p \in Proc : /\ cola_exec = <<p>> /\ Corre(p) /\ Admitido(p) /\ EnCpu(p)
                        /\ Lee(p) \/ Escribe(p)
  BY <1>1, EnEspera
<1>3. Escribe(p)
  <2>1. ASSUME Lee(p)
        PROVE  FALSE
    <3>1. PICK d \in Nat, n \in Nat : hacia_memoria = Paquete(OpCode.READ_ADRESS, <<p, d, n>>)
      BY <1>1, <2>1 DEF Lee
    <3>2. Head(hacia_memoria) = OpCode.READ_ADRESS
      BY <3>1, LeeLectura
    <3>. QED
      BY <1>1, <3>2 DEF OpCode
  <2>. QED
    BY <1>2, <2>1
<1> DEFINE r == Pasada.parametros[2][1]
           n == ANCHO[r]
           x == SubSeq(registros_cpu[r], 1, n)
<1>4. r \in Range(REGISTROS)
  <2>1. proceso.program_counter > 0 /\ NombreDe(Pasada) = "MOV_OUT"
    BY <1>3 DEF Escribe
  <2>2. InstruccionBien(Pasada)
    BY <1>2, <2>1, LineaActual
  <2>. QED
    BY <2>1, <2>2 DEF InstruccionBien
<1>5. RegistrosBien(registros_cpu) /\ Limpios(registros_cpu) /\ n \in Nat
  BY <1>2, <1>4, RegistrosTipo DEF CpuInv, EnCpu
<1>6. PICK d \in Nat : hacia_memoria = Paquete(OpCode.WRITE_ADRESS, <<p, d, n, n>> \o x)
  BY <1>1, <1>3 DEF Escribe
<1> HIDE DEF r
<1>7. x \in Seq(Letra \cup {NUL}) /\ Len(x) = n
  BY <1>4, <1>5, SinRestosBien
<1>8. x \in Seq(Celda)
  BY <1>7, LetraTipo, SeqMonotonic
<1> HIDE DEF n, x
<1>9. Buffer(datos, 4) = x /\ hacia_memoria' = <<>>
  BY <1>1, <1>5, <1>6, <1>7, <1>8, LeeEscritura
<1>10. espacio_usuario' \in [1..TAM_MEMORIA -> Letra \cup {NUL}]
  <2>1. espacio_usuario \in [1..TAM_MEMORIA -> Letra \cup {NUL}]
    BY DEF CpuInv
  <2> HIDE DEF datos
  <2>. QED
    BY <1>1, <1>7, <1>9, <2>1, EscribirTipo
<1>11. Escribe(p)'
  <2>1. cpu' = "espera_escritura" /\ proceso' = proceso
    BY <1>1, <1>3 DEF Escribe, ciclo
  <2>2. Pasada' = Pasada
    BY <2>1 DEF Pasada
  <2>3. NombreDe(Pasada)' = "MOV_OUT" /\ (proceso.program_counter > 0)'
    BY <1>3, <2>1, <2>2 DEF Escribe, NombreDe
  <2>. QED
    BY <1>1, <1>9, <2>1, <2>3 DEF Escribe
<1>. QED
  BY <1>1, <1>2, <1>10, <1>11, PasoDeMemoria


-----------------------------------------------------------------------------
(* The steps of the consoles and the Kernel *)

\* A step that does not touch the process that has the turn, or what is on its way.
LEMMA TurnoAjeno ==
    ASSUME Turno,
           \A q \in Proc : cola_exec = <<q>> /\ Corre(q) =>
               Corre(q)' /\ archivo'[q] = archivo[q] /\ pcb'[q] = pcb[q],
           UNCHANGED <<cola_exec, hacia_cpu, desde_cpu, cpu, proceso, registros_cpu,
                       hacia_memoria, desde_memoria>>
    PROVE  Turno'
<1>1. CASE cola_exec = <<>> /\ CpuLibre
  BY <1>1 DEF Turno, CpuLibre, CpuVacia, MemoriaCallada
<1>2. ASSUME NEW q \in Proc, cola_exec = <<q>>, Corre(q),
             Enviado(q) \/ EnCpu(q) \/ Devuelto(q) \/ CpuLibre
      PROVE  Turno'
  <2>1. Corre(q)' /\ archivo'[q] = archivo[q] /\ pcb'[q] = pcb[q] /\ cola_exec' = <<q>>
    BY <1>2
  <2>2. CASE Enviado(q)
    <3>1. Enviado(q)'
      BY <2>1, <2>2 DEF Enviado, PuedeSeguir, CpuVacia, MemoriaCallada, EjecutarProceso
    <3>. QED
      BY <2>1, <3>1 DEF Turno
  <2>3. CASE EnCpu(q)
    <3>1. Programa(q)' = Programa(q)
      BY <2>1 DEF Programa
    <3>2. (Lee(q) => Lee(q)') /\ (Escribe(q) => Escribe(q)')
      BY <2>1 DEF Lee, Escribe, Pasada, NombreDe, DeUnSegmento
    <3>3. EnCpu(q)'
      BY <2>1, <2>3, <3>1, <3>2 DEF EnCpu, PuedeSeguir, MemoriaCallada, RegistrosBien,
            RegistroBien, Limpios, Limpio
    <3>. QED
      BY <2>1, <3>3 DEF Turno
  <2>4. CASE Devuelto(q)
    <3>1. Programa(q)' = Programa(q)
      BY <2>1 DEF Programa
    <3>2. PICK codigo, c, campos : Respuesta(q, codigo, c, campos)
      BY <2>4 DEF Devuelto
    <3>3. ContextoDe(q, c)' /\ CamposBien(q, codigo, campos)'
      BY <2>1, <3>1, <3>2 DEF Respuesta, ContextoDe, CamposBien, DeUnSegmento, RegistrosBien, RegistroBien
    <3>4. Respuesta(q, codigo, c, campos)'
      BY <2>1, <3>2, <3>3 DEF Respuesta, PuedeSeguir
    <3>5. Devuelto(q)'
      BY <2>4, <3>4 DEF Devuelto, CpuVacia, MemoriaCallada, SinProceso
    <3>. QED
      BY <2>1, <3>5 DEF Turno
  <2>5. CASE CpuLibre
    <3>1. CpuLibre'
      BY <2>5 DEF CpuLibre, CpuVacia, MemoriaCallada, SinProceso
    <3>. QED
      BY <2>1, <3>1 DEF Turno
  <2>. QED
    BY <1>2, <2>2, <2>3, <2>4, <2>5
<1>. QED
  BY <1>1, <1>2 DEF Turno

\* A console sends its program, or cannot parse it.
LEMMA ConsolaEnviaInv ==
    ASSUME CpuInv, NEW p \in Proc, ConsolaEnvia(p)
    PROVE  CpuInv'
<1>1. /\ consola[p] = "inicio"
      /\ UNCHANGED <<pcb, cola_ready, cola_exec, hacia_cpu, desde_cpu, cpu, proceso, registros_cpu,
                     hacia_memoria, desde_memoria, espacio_usuario>>
  BY DEF ConsolaEnvia, kernel, ciclo, enlace
<1>2. PICK a \in Archivos[p] :
        /\ archivo' = [archivo EXCEPT ![p] = a]
        /\ \/ /\ SeParsea(a)
              /\ hacia_kernel' = [hacia_kernel EXCEPT ![p] =
                    Paquete(OpCode.PROGRAMA, SerializarInstrucciones(ParsearPrograma(a)))]
              /\ consola' = [consola EXCEPT ![p] = "espera"]
           \/ /\ ~SeParsea(a)
              /\ consola' = [consola EXCEPT ![p] = "rechazada"]
              /\ UNCHANGED hacia_kernel
  BY DEF ConsolaEnvia
<1>3. /\ consola = [q \in Proc |-> consola[q]] /\ archivo = [q \in Proc |-> archivo[q]]
      /\ hacia_kernel = [q \in Proc |-> hacia_kernel[q]]
      /\ pcb = [q \in Proc |-> pcb[q]]
      /\ \A q \in Proc : ConsolaBien(q) /\ PcbBien(q)
  BY DEF CpuInv, DatosBien
<1>4. hacia_kernel[p] = <<>> /\ pcb[p] = PcbVacio /\ ~Admitido(p) /\ ~Corre(p)
  BY <1>1, <1>3 DEF ConsolaBien, PcbBien, Admitido, Corre
<1>5. \A q \in Proc : q # p => consola'[q] = consola[q] /\ archivo'[q] = archivo[q]
                               /\ hacia_kernel'[q] = hacia_kernel[q]
  BY <1>2, <1>3
<1>6. /\ consola' = [q \in Proc |-> consola'[q]] /\ archivo' = [q \in Proc |-> archivo'[q]]
      /\ hacia_kernel' = [q \in Proc |-> hacia_kernel'[q]]
  BY <1>2, <1>3
<1>7. ConsolaBien(p)' /\ PcbBien(p)'
  <2>1. archivo'[p] = a
    BY <1>2, <1>3
  <2>2. CASE SeParsea(a)
    <3>1. consola'[p] = "espera"
          /\ hacia_kernel'[p] = Paquete(OpCode.PROGRAMA, SerializarInstrucciones(ParsearPrograma(a)))
      BY <1>2, <1>3, <2>2
    <3>2. hacia_kernel'[p] # <<>>
      <4> DEFINE P == ParsearPrograma(a)
                 m == Paquete(OpCode.PROGRAMA, SerializarInstrucciones(P))
      <4>1. P \in Instrucciones
        BY <2>2, ProgramaBien DEF EsPrograma, ProgramaLeido
      <4> HIDE DEF P
      <4>2. m # <<>>
        BY <4>1, ProgramaVuelve
      <4>. QED
        BY <3>1, <4>2 DEF P
    <3>3. ConsolaBien(p)'
      BY <2>1, <2>2, <3>1 DEF ConsolaBien, EsPrograma, Programa
    <3>4. PcbBien(p)'
      BY <1>1, <1>4, <3>1, <3>2 DEF PcbBien, Admitido, PcbVacio
    <3>. QED
      BY <3>3, <3>4
  <2>3. CASE ~SeParsea(a)
    <3>1. consola'[p] = "rechazada" /\ hacia_kernel'[p] = <<>>
      BY <1>2, <1>3, <1>4, <2>3
    <3>2. ConsolaBien(p)'
      BY <3>1 DEF ConsolaBien
    <3>3. PcbBien(p)'
      BY <1>1, <1>4, <3>1 DEF PcbBien, Admitido, PcbVacio
    <3>. QED
      BY <3>2, <3>3
  <2>. QED
    BY <2>2, <2>3
<1>8. ASSUME NEW q \in Proc, q # p
      PROVE  ConsolaBien(q)' /\ PcbBien(q)'
  <2>1. consola'[q] = consola[q] /\ archivo'[q] = archivo[q] /\ hacia_kernel'[q] = hacia_kernel[q]
        /\ pcb' = pcb
    BY <1>1, <1>5, <1>8
  <2>2. ConsolaBien(q) /\ PcbBien(q)
    BY <1>3
  <2>. QED
    BY <2>1, <2>2 DEF ConsolaBien, PcbBien, Programa, EsPrograma, Admitido, EsPcb, PcbVacio
<1>9. DatosBien'
  BY <1>1, <1>3, <1>6, <1>7, <1>8 DEF DatosBien
<1>10. \A q \in Proc : Corre(q) => /\ q # p /\ Corre(q)' /\ archivo'[q] = archivo[q]
  BY <1>4, <1>5 DEF Corre
<1>11. ColaBien'
  <2>1. ColaBien
    BY DEF CpuInv
  <2>2. \A i \in 1..Len(cola_ready) : cola_ready[i] \in Proc
    BY <2>1, ElementOfSeq DEF ColaBien
  <2>. QED
    BY <1>1, <1>10, <2>1, <2>2 DEF ColaBien, PuedeSeguir
<1>12. Turno'
  <2>1. \A q \in Proc : cola_exec = <<q>> /\ Corre(q) =>
            Corre(q)' /\ archivo'[q] = archivo[q] /\ pcb'[q] = pcb[q]
    BY <1>1, <1>10
  <2>2. Turno
    BY DEF CpuInv
  <2>. QED
    BY <1>1, <2>1, <2>2, TurnoAjeno
<1>13. RegistrosBien(registros_cpu)' /\ espacio_usuario' \in [1..TAM_MEMORIA -> Letra \cup {NUL}]
  BY <1>1 DEF CpuInv, RegistrosBien, RegistroBien
<1>. QED
  BY <1>9, <1>11, <1>12, <1>13 DEF CpuInv


\* A process that gets to the end of cola_ready.
LEMMA Encolado ==
    ASSUME ColaBien, NEW p \in Proc, cola_ready' = Append(cola_ready, p),
           \A i \in 1..Len(cola_ready) : cola_ready[i] # p,
           \A q \in Proc : q # p /\ Corre(q) =>
               Corre(q)' /\ archivo'[q] = archivo[q] /\ pcb'[q] = pcb[q],
           Corre(p)', PuedeSeguir(p, pcb[p].program_counter)',
           (cola_exec' = cola_exec /\ cola_exec # <<p>>) \/ cola_exec' = <<>>
    PROVE  ColaBien'
<1> DEFINE c == cola_ready
           n == Len(c)
<1>1. /\ c \in Seq(Proc) /\ n \in Nat /\ \A i \in 1..n : c[i] \in Proc
      /\ \A i, j \in 1..n : c[i] = c[j] => i = j
      /\ \A i \in 1..n : /\ Corre(c[i]) /\ PuedeSeguir(c[i], pcb[c[i]].program_counter)
                         /\ cola_exec # <<c[i]>>
  BY LenProperties, ElementOfSeq DEF ColaBien
<1>2. /\ c' \in Seq(Proc) /\ Len(c') = n + 1 /\ c'[n + 1] = p
      /\ \A i \in 1..n : c'[i] = c[i]
  BY <1>1, AppendProperties
<1>3. \A i \in 1..n + 1 : i = n + 1 \/ i \in 1..n
  BY <1>1
<1>4. \A i \in 1..n : c[i] # p
  OBVIOUS
<1> HIDE DEF n, c
<1>5. \A i, j \in 1..n + 1 : c'[i] = c'[j] => i = j
  BY <1>1, <1>2, <1>3, <1>4
<1>6. ASSUME NEW i \in 1..n + 1
      PROVE  \E q \in Proc : /\ c'[i] = q /\ Corre(q)' /\ cola_exec' # <<q>>
                             /\ PuedeSeguir(q, pcb[q].program_counter)'
  <2>1. CASE i = n + 1
    <3>1. c'[i] = p
      BY <1>2, <2>1
    <3>2. cola_exec' # <<p>>
      <4>1. <<>> # <<p>>
        OBVIOUS
      <4>. QED
        BY <4>1, Zenon
    <3>. QED
      BY <3>1, <3>2
  <2>2. CASE i \in 1..n
    <3>1. PICK q \in Proc : q = c[i]
      BY <1>1, <2>2
    <3>2. c'[i] = q /\ q # p /\ Corre(q) /\ PuedeSeguir(q, pcb[q].program_counter)
          /\ cola_exec # <<q>>
      BY <1>1, <1>2, <1>4, <2>2, <3>1
    <3>3. Corre(q)' /\ archivo'[q] = archivo[q] /\ pcb'[q] = pcb[q]
      BY <3>2
    <3>4. PuedeSeguir(q, pcb[q].program_counter)'
      BY <3>2, <3>3 DEF PuedeSeguir
    <3>5. cola_exec' # <<q>>
      BY <3>2
    <3>. QED
      BY <3>2, <3>3, <3>4, <3>5
  <2>. QED
    BY <1>3, <2>1, <2>2
<1>7. ASSUME NEW i \in 1..Len(cola_ready')
      PROVE  (/\ Corre(cola_ready[i])
              /\ PuedeSeguir(cola_ready[i], pcb[cola_ready[i]].program_counter)
              /\ cola_exec # <<cola_ready[i]>>)'
  <2>1. i \in 1..n + 1
    BY <1>2 DEF c
  <2>2. PICK q \in Proc : /\ cola_ready'[i] = q /\ Corre(q)' /\ cola_exec' # <<q>>
                          /\ PuedeSeguir(q, pcb[q].program_counter)'
    BY <1>6, <2>1 DEF c
  <2>. QED
    BY <2>2 DEF Corre, PuedeSeguir
<1>. QED
  BY <1>2, <1>5, <1>7 DEF ColaBien, c

\* The Kernel reads a program and makes the pcb of the process.
LEMMA KernelCreaProcesoInv ==
    ASSUME CpuInv, NEW p \in Proc, KernelCreaProceso(p)
    PROVE  CpuInv'
<1> DEFINE b == [program_counter |-> 0,
                 instrucciones |-> DeserializarInstrucciones[Buffer(hacia_kernel[p], 2)],
                 tabla_segmento |-> <<Segmento(0, 0, TAM_SEGMENTO_0)>>,
                 registros |-> RegistrosEnCero]
<1>1. /\ hacia_kernel[p] # <<>>
      /\ hacia_kernel' = [hacia_kernel EXCEPT ![p] = <<>>]
      /\ pcb' = [pcb EXCEPT ![p] = b]
      /\ cola_ready' = Append(cola_ready, p)
      /\ UNCHANGED <<archivo, consola, cola_exec, hacia_cpu, desde_cpu, cpu, proceso,
                     registros_cpu, hacia_memoria, desde_memoria, espacio_usuario>>
  BY DEF KernelCreaProceso, ciclo, enlace
<1>2. /\ consola = [q \in Proc |-> consola[q]] /\ archivo = [q \in Proc |-> archivo[q]]
      /\ hacia_kernel = [q \in Proc |-> hacia_kernel[q]]
      /\ pcb = [q \in Proc |-> pcb[q]]
      /\ \A q \in Proc : ConsolaBien(q) /\ PcbBien(q)
  BY DEF CpuInv, DatosBien
<1>3. /\ consola[p] = "espera" /\ ~Corre(p) /\ EsPrograma(p, archivo[p])
      /\ hacia_kernel[p] = Paquete(OpCode.PROGRAMA, SerializarInstrucciones(Programa(p)))
  BY <1>1, <1>2 DEF ConsolaBien, Corre
<1>4. ProgramaLeido(Programa(p), archivo[p])
  BY <1>3, ProgramaBien DEF Programa
<1>5. b.instrucciones = Programa(p)
  <2>1. Programa(p) \in Instrucciones
    BY <1>4 DEF ProgramaLeido
  <2> DEFINE P == Programa(p)
  <2> HIDE DEF P
  <2>2. DeserializarInstrucciones[Buffer(Paquete(OpCode.PROGRAMA, SerializarInstrucciones(P)), 2)] = P
    BY <2>1, ProgramaVuelve DEF P
  <2>. QED
    BY <1>3, <2>2 DEF P
<1>6. b.program_counter = 0 /\ RegistrosBien(b.registros) /\ b.tabla_segmento \in Seq(SegmentosDeMemoria)
      /\ b = [program_counter |-> b.program_counter, instrucciones |-> b.instrucciones,
              tabla_segmento |-> b.tabla_segmento, registros |-> b.registros]
  <2>1. Segmento(0, 0, TAM_SEGMENTO_0) \in SegmentosDeMemoria
    BY CpuAssumption DEF Segmento, SegmentosDeMemoria
  <2>2. <<Segmento(0, 0, TAM_SEGMENTO_0)>> \in Seq(SegmentosDeMemoria)
    BY <2>1
  <2>. QED
    BY <2>2, EnCero
<1> HIDE DEF b
<1>7. PICK k : k = b
  OBVIOUS
<1>8. pcb'[p] = k /\ hacia_kernel'[p] = <<>> /\ pcb' = [q \in Proc |-> pcb'[q]]
      /\ hacia_kernel' = [q \in Proc |-> hacia_kernel'[q]]
      /\ \A q \in Proc : q # p => pcb'[q] = pcb[q] /\ hacia_kernel'[q] = hacia_kernel[q]
  BY <1>1, <1>2, <1>7
<1>9. ConsolaBien(p)' /\ PcbBien(p)'
  <2>1. EsPcb(p, k)'
    BY <1>1, <1>5, <1>6, <1>7 DEF EsPcb, Programa, RegistrosBien, RegistroBien
  <2>2. Admitido(p)'
    BY <1>1, <1>3, <1>8 DEF Admitido
  <2>3. PcbBien(p)'
    BY <1>8, <2>1, <2>2 DEF PcbBien, EsPcb
  <2>4. ConsolaBien(p)'
    BY <1>1, <1>3, <1>8 DEF ConsolaBien, EsPrograma
  <2>. QED
    BY <2>3, <2>4
<1>10. ASSUME NEW q \in Proc, q # p
       PROVE  ConsolaBien(q)' /\ PcbBien(q)'
  <2>1. pcb'[q] = pcb[q] /\ hacia_kernel'[q] = hacia_kernel[q] /\ consola' = consola /\ archivo' = archivo
    BY <1>1, <1>8, <1>10
  <2>2. ConsolaBien(q) /\ PcbBien(q)
    BY <1>2
  <2>. QED
    BY <2>1, <2>2 DEF ConsolaBien, PcbBien, Programa, EsPrograma, Admitido, EsPcb, PcbVacio
<1>11. DatosBien'
  BY <1>1, <1>2, <1>8, <1>9, <1>10 DEF DatosBien
<1>12. \A q \in Proc : Corre(q) => q # p /\ Corre(q)' /\ archivo'[q] = archivo[q] /\ pcb'[q] = pcb[q]
  BY <1>1, <1>3, <1>8 DEF Corre
<1>13. Turno'
  <2>1. \A q \in Proc : cola_exec = <<q>> /\ Corre(q) =>
            Corre(q)' /\ archivo'[q] = archivo[q] /\ pcb'[q] = pcb[q]
    BY <1>12
  <2>2. Turno
    BY DEF CpuInv
  <2>. QED
    BY <1>1, <2>1, <2>2, TurnoAjeno
<1>14. ColaBien'
  <2>1. ColaBien
    BY DEF CpuInv
  <2>2. \A i \in 1..Len(cola_ready) : cola_ready[i] # p
    BY <1>3, <2>1 DEF ColaBien
  <2>3. cola_exec' = cola_exec /\ cola_exec # <<p>>
    <3>1. cola_exec = <<>> \/ \E q \in Proc : cola_exec = <<q>> /\ Corre(q)
      BY DEF CpuInv, Turno
    <3>2. \A q \in Proc : cola_exec = <<q>> /\ Corre(q) => cola_exec # <<p>>
      BY <1>3
    <3>. QED
      BY <1>1, <3>1, <3>2
  <2>4. Corre(p)'
    BY <1>1, <1>3, <1>8 DEF Corre
  <2>5. PuedeSeguir(p, pcb[p].program_counter)'
    <3>1. k.program_counter = 0
      BY <1>6, <1>7
    <3>2. archivo[p] # <<>> /\ Len(archivo[p]) \in Nat
      BY <1>4 DEF ProgramaLeido
    <3>3. 0 < Len(archivo[p])
      <4>1. archivo[p] \in Seq(Linea)
        BY <1>3, ArchivosAssumption DEF EsPrograma
      <4>2. Len(archivo[p]) # 0
        BY <3>2, <4>1, EmptySeq
      <4>. QED
        BY <3>2, <4>2
    <3>. QED
      BY <1>1, <1>8, <3>1, <3>3 DEF PuedeSeguir
  <2>6. \A q \in Proc : q # p /\ Corre(q) => Corre(q)' /\ archivo'[q] = archivo[q] /\ pcb'[q] = pcb[q]
    BY <1>12
  <2>. QED
    BY <1>1, <2>1, <2>2, <2>3, <2>4, <2>5, <2>6, Encolado
<1>15. RegistrosBien(registros_cpu)' /\ espacio_usuario' \in [1..TAM_MEMORIA -> Letra \cup {NUL}]
  BY <1>1 DEF CpuInv, RegistrosBien, RegistroBien
<1>. QED
  BY <1>11, <1>13, <1>14, <1>15 DEF CpuInv


\* The short-term scheduler sends the context of the first process of cola_ready.
LEMMA DespachaInv ==
    ASSUME CpuInv, Despacha
    PROVE  CpuInv'
<1> DEFINE c == cola_ready
           n == Len(c)
<1>1. /\ cola_exec = <<>> /\ c # <<>> /\ cola_exec' = <<Head(c)>> /\ c' = Tail(c)
      /\ hacia_cpu' = EjecutarProceso(Head(c), pcb[Head(c)])
      /\ UNCHANGED <<archivo, consola, hacia_kernel, pcb, desde_cpu, cpu, proceso, registros_cpu,
                     hacia_memoria, desde_memoria, espacio_usuario>>
  BY DEF Despacha, consolas, ciclo, enlace
<1>2. CpuLibre
  <2>1. \A p \in Proc : cola_exec # <<p>>
    BY <1>1
  <2>. QED
    BY <2>1 DEF CpuInv, Turno
<1>3. /\ c \in Seq(Proc) /\ n \in Nat
      /\ \A i, j \in 1..n : c[i] = c[j] => i = j
      /\ \A i \in 1..n : Corre(c[i]) /\ PuedeSeguir(c[i], pcb[c[i]].program_counter)
  BY LenProperties DEF CpuInv, ColaBien
<1>4. n > 0
  <2>1. n # 0
    BY <1>1, <1>3, EmptySeq
  <2> HIDE DEF n
  <2>. QED
    BY <1>3, <2>1
<1>5. PICK p \in Proc : p = Head(c) /\ p = c[1]
  <2>1. Head(c) \in Proc /\ Head(c) = c[1]
    BY <1>1, <1>3, HeadTailProperties
  <2>. QED
    BY <2>1
<1>6. c' \in Seq(Proc) /\ Len(c') = n - 1 /\ \A i \in 1..Len(c') : c'[i] = c[i + 1]
  BY <1>1, <1>3, HeadTailProperties
<1> HIDE DEF n, c
<1>7. 1 \in 1..n /\ \A i \in 1..(n - 1) : i + 1 \in 1..n /\ i + 1 # 1
  BY <1>3, <1>4
<1>8. Corre(p) /\ PuedeSeguir(p, pcb[p].program_counter)
  BY <1>3, <1>5, <1>7
<1>9. Turno'
  <2>1. Enviado(p)'
    BY <1>1, <1>2, <1>5, <1>8 DEF Enviado, PuedeSeguir, CpuVacia, MemoriaCallada, SinProceso,
          CpuLibre, EjecutarProceso
  <2>2. cola_exec' = <<p>> /\ Corre(p)'
    BY <1>1, <1>5, <1>8 DEF Corre
  <2>. QED
    BY <2>1, <2>2 DEF Turno
<1>10. ColaBien'
  <2>1. \A i, j \in 1..Len(c') : c'[i] = c'[j] => i = j
    <3>1. ASSUME NEW i \in 1..(n - 1), NEW j \in 1..(n - 1), c[i + 1] = c[j + 1]
          PROVE  i = j
      <4>1. i + 1 = j + 1
        BY <1>3, <1>7, <3>1
      <4>. QED
        BY <4>1
    <3>. QED
      BY <1>6, <3>1
  <2>2. ASSUME NEW i \in 1..(n - 1)
        PROVE  /\ Corre(c[i + 1]) /\ PuedeSeguir(c[i + 1], pcb[c[i + 1]].program_counter)
               /\ c[i + 1] # p
    BY <1>3, <1>5, <1>7
  <2>3. ASSUME NEW i \in 1..Len(cola_ready')
        PROVE  (/\ Corre(cola_ready[i])
                /\ PuedeSeguir(cola_ready[i], pcb[cola_ready[i]].program_counter)
                /\ cola_exec # <<cola_ready[i]>>)'
    <3>1. i \in 1..(n - 1) /\ c'[i] = c[i + 1]
      BY <1>6 DEF c
    <3>2. PICK q : q = c[i + 1]
      OBVIOUS
    <3>3. cola_ready'[i] = q /\ q # p /\ Corre(q) /\ PuedeSeguir(q, pcb[q].program_counter)
      BY <2>2, <3>1, <3>2 DEF c
    <3>4. cola_exec' # <<q>>
      BY <1>1, <1>5, <3>3
    <3>. QED
      BY <1>1, <3>3, <3>4 DEF Corre, PuedeSeguir
  <2>. QED
    BY <1>6, <2>1, <2>3 DEF ColaBien, c
<1>11. DatosBien'
  BY <1>1 DEF CpuInv, DatosBien, ConsolaBien, PcbBien, EsPcb, Admitido, Programa, EsPrograma, PcbVacio
<1>12. RegistrosBien(registros_cpu)' /\ espacio_usuario' \in [1..TAM_MEMORIA -> Letra \cup {NUL}]
  BY <1>1 DEF CpuInv, RegistrosBien, RegistroBien
<1>. QED
  BY <1>9, <1>10, <1>11, <1>12 DEF CpuInv

\* An answer that has arrived, as the Kernel reads it.
PcbNuevo(p, c, t) ==
    [program_counter |-> c.program_counter, instrucciones |-> Programa(p),
     tabla_segmento |-> t, registros |-> c.registros]

\* The process that had the turn has come back: the answer, its fields, and the pcb that
\* actualizar_contexto makes of it.
Contestado(p, codigo, c, campos) ==
    /\ cola_exec = <<p>> /\ Corre(p) /\ Admitido(p) /\ hacia_cpu = <<>> /\ CpuVacia
    /\ desde_cpu # <<>> /\ Head(desde_cpu) = codigo /\ Campos = campos
    /\ ContextoDe(p, c) /\ CamposBien(p, codigo, campos)
    /\ codigo \notin {OpCode.FINALIZADO, OpCode.POR_SEG_FAULT} => PuedeSeguir(p, c.program_counter)
    /\ EnExec = p /\ PcbActualizado = PcbNuevo(p, c, pcb[p].tabla_segmento)
    /\ pcb[p].tabla_segmento \in Seq(SegmentosDeMemoria)
    /\ campos \in Seq(Celda) /\ Respuesta(p, codigo, c, campos)

\* An answer is of the process that has the turn.
LEMMA HayRespuesta ==
    ASSUME CpuInv, cola_exec # <<>>, desde_cpu # <<>>
    PROVE  \E p \in Proc : \E codigo, c, campos : Contestado(p, codigo, c, campos)
<1>1. PICK p \in Proc : cola_exec = <<p>> /\ Corre(p) /\ Admitido(p) /\ Devuelto(p)
  BY DEF CpuInv, Turno, Enviado, EnCpu, CpuLibre, Corre, Admitido
<1>2. PICK codigo, c, campos : Respuesta(p, codigo, c, campos)
  BY <1>1 DEF Devuelto
<1>3. desde_cpu # <<>> /\ Head(desde_cpu) = codigo /\ ContextoRecibido = c /\ Campos = campos
  BY <1>1, <1>2, RespuestaLeida
<1>4. EsPcb(p, pcb[p])
  BY <1>1, ProgramaDe
<1>5. EnExec = p
  BY <1>1 DEF EnExec
<1>6. PcbActualizado = PcbNuevo(p, c, pcb[p].tabla_segmento)
  <2> DEFINE b == pcb[p]
             x == c.registros
             n == c.program_counter
  <2>1. PcbActualizado = [b EXCEPT !.registros = x, !.program_counter = n]
    BY <1>3, <1>5 DEF PcbActualizado
  <2>2. b = [program_counter |-> b.program_counter, instrucciones |-> Programa(p),
             tabla_segmento |-> b.tabla_segmento, registros |-> b.registros]
    BY <1>4 DEF EsPcb
  <2> HIDE DEF b, x, n
  <2> DEFINE i == Programa(p)
             t == b.tabla_segmento
             k == b.program_counter
             y == b.registros
  <2>4. b = [program_counter |-> k, instrucciones |-> i, tabla_segmento |-> t, registros |-> y]
    BY <2>2
  <2> HIDE DEF i, t, k, y
  <2>3. [b EXCEPT !.registros = x, !.program_counter = n]
          = [program_counter |-> n, instrucciones |-> i, tabla_segmento |-> t, registros |-> x]
    <3> DEFINE v == [b EXCEPT !.registros = x]
    <3>1. [b EXCEPT !.registros = x, !.program_counter = n] = [v EXCEPT !.program_counter = n]
      BY <2>4
    <3>2. v = [program_counter |-> k, instrucciones |-> i, tabla_segmento |-> t, registros |-> x]
      BY <2>4
    <3> HIDE DEF v
    <3>3. [v EXCEPT !.program_counter = n]
            = [program_counter |-> n, instrucciones |-> i, tabla_segmento |-> t, registros |-> x]
      BY <3>2
    <3>. QED
      BY <3>1, <3>3
  <2>. QED
    BY <2>1, <2>3 DEF PcbNuevo, b, x, n, i, t
<1>. QED
  BY <1>1, <1>2, <1>3, <1>4, <1>5, <1>6 DEF Contestado, Respuesta, Devuelto, EsPcb


\* It is a pcb of the process, with the counter and the registers of the answer.
LEMMA PcbNuevoBien ==
    ASSUME NEW p, NEW c, ContextoDe(p, c), NEW t \in Seq(SegmentosDeMemoria)
    PROVE  EsPcb(p, PcbNuevo(p, c, t)) /\ PcbNuevo(p, c, t).program_counter = c.program_counter
           /\ PcbNuevo(p, c, t).registros = c.registros
BY DEF EsPcb, PcbNuevo, ContextoDe

\* The pcb of the process in cola_exec changes, and perhaps its console ends.
LEMMA DatosTrasPcb ==
    ASSUME CpuInv, NEW p \in Proc, Corre(p), NEW b, EsPcb(p, b),
           pcb' = [pcb EXCEPT ![p] = b], UNCHANGED <<archivo, hacia_kernel>>,
           consola' = consola \/ consola' = [consola EXCEPT ![p] = "fin"]
    PROVE  /\ DatosBien' /\ pcb'[p] = b /\ EsPcb(p, b)'
           /\ \A q \in Proc : q # p /\ Corre(q) =>
                  Corre(q)' /\ archivo'[q] = archivo[q] /\ pcb'[q] = pcb[q]
<1>1. /\ consola = [q \in Proc |-> consola[q]] /\ archivo = [q \in Proc |-> archivo[q]]
      /\ hacia_kernel = [q \in Proc |-> hacia_kernel[q]]
      /\ pcb = [q \in Proc |-> pcb[q]]
      /\ \A q \in Proc : ConsolaBien(q) /\ PcbBien(q)
  BY DEF CpuInv, DatosBien
<1>2. /\ pcb'[p] = b /\ pcb' = [q \in Proc |-> pcb'[q]]
      /\ consola' = [q \in Proc |-> consola'[q]]
      /\ consola'[p] \in {consola[p], "fin"}
      /\ \A q \in Proc : q # p => pcb'[q] = pcb[q] /\ consola'[q] = consola[q]
  BY <1>1
<1>3. EsPcb(p, b)'
  BY DEF EsPcb, Programa, RegistrosBien, RegistroBien
<1>4. ConsolaBien(p)' /\ PcbBien(p)'
  <2>1. Admitido(p)'
    BY <1>2 DEF Corre, Admitido
  <2>2. PcbBien(p)'
    BY <1>2, <1>3, <2>1 DEF PcbBien, EsPcb
  <2>3. ConsolaBien(p)'
    BY <1>1, <1>2 DEF ConsolaBien, Corre, EsPrograma
  <2>. QED
    BY <2>2, <2>3
<1>5. ASSUME NEW q \in Proc, q # p
      PROVE  ConsolaBien(q)' /\ PcbBien(q)'
  <2>1. pcb'[q] = pcb[q] /\ consola'[q] = consola[q]
    BY <1>2, <1>5
  <2>2. ConsolaBien(q) /\ PcbBien(q)
    BY <1>1
  <2>. QED
    BY <2>1, <2>2 DEF ConsolaBien, PcbBien, Programa, EsPrograma, Admitido, EsPcb, PcbVacio
<1>6. DatosBien'
  BY <1>1, <1>2, <1>4, <1>5 DEF DatosBien
<1>7. \A q \in Proc : q # p /\ Corre(q) => Corre(q)' /\ archivo'[q] = archivo[q] /\ pcb'[q] = pcb[q]
  BY <1>2 DEF Corre
<1>. QED
  BY <1>2, <1>3, <1>6, <1>7

\* cola_ready stays as it is, and the process of cola_exec stays there or leaves.
LEMMA ColaTrasPcb ==
    ASSUME ColaBien, NEW p \in Proc, cola_exec = <<p>>, cola_ready' = cola_ready,
           cola_exec' \in {cola_exec, <<>>},
           \A q \in Proc : q # p /\ Corre(q) =>
               Corre(q)' /\ archivo'[q] = archivo[q] /\ pcb'[q] = pcb[q]
    PROVE  ColaBien'
<1> DEFINE c == cola_ready
<1>1. /\ c \in Seq(Proc) /\ \A i \in 1..Len(c) : c[i] \in Proc
      /\ \A i, j \in 1..Len(c) : c[i] = c[j] => i = j
      /\ \A i \in 1..Len(c) : /\ Corre(c[i]) /\ PuedeSeguir(c[i], pcb[c[i]].program_counter)
                              /\ cola_exec # <<c[i]>>
  BY ElementOfSeq DEF ColaBien
<1>2. ASSUME NEW i \in 1..Len(c)
      PROVE  (/\ Corre(c[i]) /\ PuedeSeguir(c[i], pcb[c[i]].program_counter)
              /\ cola_exec # <<c[i]>>)'
  <2>1. PICK q \in Proc : q = c[i]
    BY <1>1
  <2>2. Corre(q) /\ PuedeSeguir(q, pcb[q].program_counter) /\ cola_exec # <<q>>
    BY <1>1, <2>1
  <2>3. q # p
    BY <2>2
  <2>4. Corre(q)' /\ archivo'[q] = archivo[q] /\ pcb'[q] = pcb[q] /\ c'[i] = q
    BY <2>1, <2>2, <2>3
  <2>5. cola_exec' # <<q>>
    <3>1. <<>> # <<q>>
      OBVIOUS
    <3>. QED
      BY <2>2, <3>1, Zenon
  <2>. QED
    BY <2>2, <2>4, <2>5 DEF Corre, PuedeSeguir
<1>. QED
  BY <1>1, <1>2 DEF ColaBien

\* What an answer that has been read leaves unchanged.
Atendida == /\ desde_cpu' = <<>> /\ UNCHANGED <<archivo, hacia_kernel, ciclo, enlace>>
            /\ espacio_usuario' \in [1..TAM_MEMORIA -> Letra \cup {NUL}]

\* What it does to the process: its pcb has the counter and the registers of the answer.
Atendido(p) ==
    /\ Atendida /\ cola_exec' \in {cola_exec, <<>>}
    /\ \E codigo, c, campos, t : /\ Contestado(p, codigo, c, campos)
                                /\ pcb' = [pcb EXCEPT ![p] = PcbNuevo(p, c, t)]

\* The process keeps the CPU: its context goes back at once.
LEMMA SigueInv ==
    ASSUME CpuInv, NEW p \in Proc, NEW codigo, NEW c, NEW campos, Contestado(p, codigo, c, campos),
           Atendida, NEW t \in Seq(SegmentosDeMemoria), Sigue(PcbNuevo(p, c, t)),
           UNCHANGED consola, codigo \notin {OpCode.FINALIZADO, OpCode.POR_SEG_FAULT}
    PROVE  CpuInv' /\ Atendido(p)
<1> DEFINE b == PcbNuevo(p, c, t)
<1>1. cola_exec = <<p>> /\ Corre(p) /\ EnExec = p /\ CpuVacia /\ ContextoDe(p, c)
      /\ PuedeSeguir(p, c.program_counter)
  BY DEF Contestado
<1>2. EsPcb(p, b) /\ b.program_counter = c.program_counter
  BY <1>1, PcbNuevoBien
<1>3. pcb' = [pcb EXCEPT ![p] = b] /\ hacia_cpu' = EjecutarProceso(p, pcb'[p])
      /\ UNCHANGED <<cola_ready, cola_exec>>
  BY <1>1 DEF Sigue
<1> HIDE DEF b
<1>4. PICK k : k = b
  OBVIOUS
<1>5. /\ DatosBien' /\ pcb'[p] = k
      /\ \A q \in Proc : q # p /\ Corre(q) =>
             Corre(q)' /\ archivo'[q] = archivo[q] /\ pcb'[q] = pcb[q]
  BY <1>1, <1>2, <1>3, <1>4, DatosTrasPcb DEF Atendida
<1>6. ColaBien'
  BY <1>1, <1>3, <1>5, ColaTrasPcb DEF CpuInv
<1>7. Turno'
  <2>1. cola_exec' = <<p>> /\ Corre(p)'
    BY <1>1, <1>3 DEF Corre, Atendida
  <2>2. PuedeSeguir(p, pcb[p].program_counter)'
    BY <1>1, <1>2, <1>4, <1>5 DEF PuedeSeguir, Atendida
  <2>3. CpuVacia' /\ desde_cpu' = <<>>
    BY <1>1 DEF Atendida, CpuVacia, MemoriaCallada, SinProceso, ciclo, enlace
  <2>4. (hacia_cpu = EjecutarProceso(p, pcb[p]))'
    BY <1>3 DEF EjecutarProceso
  <2>5. Enviado(p)'
    BY <2>2, <2>3, <2>4 DEF Enviado
  <2>. QED
    BY <2>1, <2>5 DEF Turno
<1>8. RegistrosBien(registros_cpu)' /\ espacio_usuario' \in [1..TAM_MEMORIA -> Letra \cup {NUL}]
  BY DEF Atendida, ciclo, CpuInv, RegistrosBien, RegistroBien
<1>9. Atendido(p)
  BY <1>3 DEF Atendido, b
<1>. QED
  BY <1>5, <1>6, <1>7, <1>8, <1>9 DEF CpuInv

\* The process goes to the end of cola_ready.
LEMMA VuelveInv ==
    ASSUME CpuInv, NEW p \in Proc, NEW codigo, NEW c, NEW campos, Contestado(p, codigo, c, campos),
           Atendida, Vuelve,
           UNCHANGED consola, codigo \notin {OpCode.FINALIZADO, OpCode.POR_SEG_FAULT}
    PROVE  CpuInv' /\ Atendido(p)
<1> DEFINE b == PcbNuevo(p, c, pcb[p].tabla_segmento)
<1>1. cola_exec = <<p>> /\ Corre(p) /\ EnExec = p /\ CpuVacia /\ ContextoDe(p, c)
      /\ PuedeSeguir(p, c.program_counter) /\ hacia_cpu = <<>>
      /\ PcbActualizado = b /\ pcb[p].tabla_segmento \in Seq(SegmentosDeMemoria)
  BY DEF Contestado
<1>2. EsPcb(p, b) /\ b.program_counter = c.program_counter
  BY <1>1, PcbNuevoBien
<1>3. pcb' = [pcb EXCEPT ![p] = b] /\ cola_ready' = Append(cola_ready, p) /\ cola_exec' = <<>>
      /\ UNCHANGED hacia_cpu
  BY <1>1 DEF Vuelve
<1> HIDE DEF b
<1>4. PICK k : k = b
  OBVIOUS
<1>5. /\ DatosBien' /\ pcb'[p] = k
      /\ \A q \in Proc : q # p /\ Corre(q) =>
             Corre(q)' /\ archivo'[q] = archivo[q] /\ pcb'[q] = pcb[q]
  BY <1>1, <1>2, <1>3, <1>4, DatosTrasPcb DEF Atendida
<1>6. ColaBien'
  <2>1. ColaBien
    BY DEF CpuInv
  <2>2. \A i \in 1..Len(cola_ready) : cola_ready[i] # p
    BY <1>1, <2>1 DEF ColaBien
  <2>3. Corre(p)' /\ PuedeSeguir(p, pcb[p].program_counter)'
    BY <1>1, <1>2, <1>4, <1>5 DEF Corre, PuedeSeguir, Atendida
  <2>. QED
    BY <1>3, <1>5, <2>1, <2>2, <2>3, Encolado
<1>7. Turno'
  BY <1>1, <1>3 DEF Turno, CpuLibre, CpuVacia, MemoriaCallada, SinProceso, Atendida, ciclo, enlace
<1>8. RegistrosBien(registros_cpu)' /\ espacio_usuario' \in [1..TAM_MEMORIA -> Letra \cup {NUL}]
  BY DEF Atendida, ciclo, CpuInv, RegistrosBien, RegistroBien
<1>9. Atendido(p)
  <2>1. PICK t : t = pcb[p].tabla_segmento
    OBVIOUS
  <2>2. pcb' = [pcb EXCEPT ![p] = PcbNuevo(p, c, t)]
    BY <1>3, <2>1 DEF b
  <2>. QED
    BY <1>3, <2>2 DEF Atendido
<1>. QED
  BY <1>5, <1>6, <1>7, <1>8, <1>9 DEF CpuInv

\* The process ends, or the Kernel drops its answer: nobody is sent to the CPU.
LEMMA ParaInv ==
    ASSUME CpuInv, NEW p \in Proc, NEW codigo, NEW c, NEW campos, Contestado(p, codigo, c, campos),
           Atendida, NEW t \in Seq(SegmentosDeMemoria), pcb' = [pcb EXCEPT ![p] = PcbNuevo(p, c, t)],
           UNCHANGED <<cola_ready, hacia_cpu>>,
           \/ cola_exec' = <<>> /\ consola' = [consola EXCEPT ![p] = "fin"]
           \/ UNCHANGED <<cola_exec, consola>>
    PROVE  CpuInv' /\ Atendido(p)
<1> DEFINE b == PcbNuevo(p, c, t)
<1>1. cola_exec = <<p>> /\ Corre(p) /\ EnExec = p /\ CpuVacia /\ ContextoDe(p, c)
      /\ hacia_cpu = <<>>
  BY DEF Contestado
<1>2. EsPcb(p, b) /\ pcb' = [pcb EXCEPT ![p] = b]
  BY <1>1, PcbNuevoBien
<1> HIDE DEF b
<1>5. /\ DatosBien'
      /\ \A q \in Proc : q # p /\ Corre(q) =>
             Corre(q)' /\ archivo'[q] = archivo[q] /\ pcb'[q] = pcb[q]
  <2>1. PICK k : k = b
    OBVIOUS
  <2>. QED
    BY <1>1, <1>2, <2>1, DatosTrasPcb DEF Atendida
<1>6. ColaBien'
  <2>1. cola_exec' \in {cola_exec, <<>>}
    OBVIOUS
  <2>. QED
    BY <1>1, <1>5, <2>1, ColaTrasPcb DEF CpuInv
<1>7. CpuLibre'
  BY <1>1 DEF CpuLibre, CpuVacia, MemoriaCallada, SinProceso, Atendida, ciclo, enlace
<1>8. Turno'
  <2>1. CASE cola_exec' = <<>>
    BY <1>7, <2>1 DEF Turno
  <2>2. CASE UNCHANGED <<cola_exec, consola>>
    BY <1>1, <1>7, <2>2 DEF Turno, Corre, Atendida
  <2>. QED
    BY <2>1, <2>2
<1>9. RegistrosBien(registros_cpu)' /\ espacio_usuario' \in [1..TAM_MEMORIA -> Letra \cup {NUL}]
  BY DEF Atendida, ciclo, CpuInv, RegistrosBien, RegistroBien
<1>10. Atendido(p)
  BY DEF Atendido
<1>. QED
  BY <1>5, <1>6, <1>8, <1>9, <1>10 DEF CpuInv

\* The answers: which codes are apart, and what each lemma starts from.
LEMMA CodigosDeRespuesta ==
    /\ {OpCode.YIELD, OpCode.BLOQUEADO, OpCode.WAIT, OpCode.SIGNAL, OpCode.F_OPEN, OpCode.F_CLOSE,
        OpCode.F_SEEK, OpCode.F_TRUNCATE, OpCode.F_READ, OpCode.F_WRITE, OpCode.CREATE_SEGMENT,
        OpCode.DELETE_SEGMENT} \cap {OpCode.FINALIZADO, OpCode.POR_SEG_FAULT} = {}
BY DEF OpCode

\* An answer with one of these codes, and what is left once its fields are read.
LEMMA Contestada ==
    ASSUME CpuInv, NEW codigos, NEW resto, Procesa(codigos, resto)
    PROVE  \E p \in Proc : \E codigo \in codigos : \E c, campos : Contestado(p, codigo, c, campos)
<1>1. cola_exec # <<>> /\ desde_cpu # <<>> /\ Head(desde_cpu) \in codigos
  BY DEF Procesa
<1>2. PICK p \in Proc : \E codigo, c, campos : Contestado(p, codigo, c, campos)
  BY <1>1, HayRespuesta
<1>3. PICK codigo, c, campos : Contestado(p, codigo, c, campos)
  BY <1>2
<1>4. codigo \in codigos
  BY <1>1, <1>3 DEF Contestado
<1>. QED
  BY <1>3, <1>4

\* The memory of the user.
LEMMA EspacioTipo == CpuInv => espacio_usuario \in [1..TAM_MEMORIA -> Letra \cup {NUL}]
BY DEF CpuInv

\* EXIT and the segmentation faults: the process ends.
LEMMA ProcesarFinInv ==
    ASSUME CpuInv, ProcesarFin
    PROVE  CpuInv' /\ \E p \in Proc : Atendido(p)
<1> DEFINE K == {OpCode.FINALIZADO, OpCode.POR_SEG_FAULT}
<1>1. Procesa(K, Campos)
  BY DEF ProcesarFin
<1>2. PICK p \in Proc, codigo \in K : \E c, campos : Contestado(p, codigo, c, campos)
  BY <1>1, Contestada
<1>3. PICK c, campos : Contestado(p, codigo, c, campos)
  BY <1>2
<1>4. Campos = campos /\ CamposBien(p, codigo, campos)
  BY <1>3 DEF Contestado
<1>5. campos = <<>>
  BY <1>4, Zenon DEF CamposBien
<1>6. Atendida
  <2>1. espacio_usuario' = espacio_usuario
    BY DEF ProcesarFin
  <2>. QED
    BY <1>1, <1>4, <1>5, <2>1, EspacioTipo DEF Procesa, Atendida
<1>7. EnExec = p /\ PcbActualizado = PcbNuevo(p, c, pcb[p].tabla_segmento)
  BY <1>3 DEF Contestado
<1>8. PICK t \in Seq(SegmentosDeMemoria) : t = <<>>
  <2>1. <<>> \in Seq(SegmentosDeMemoria)
    OBVIOUS
  <2>. QED
    BY <2>1, Zenon
<1>9. [PcbActualizado EXCEPT !.tabla_segmento = <<>>] = PcbNuevo(p, c, t)
  <2> DEFINE n == c.program_counter
             i == Programa(p)
             v == c.registros
             w == pcb[p].tabla_segmento
             a == [program_counter |-> n, instrucciones |-> i, tabla_segmento |-> w, registros |-> v]
  <2>1. PcbActualizado = a
    BY <1>7 DEF PcbNuevo
  <2>2. PcbNuevo(p, c, t)
          = [program_counter |-> n, instrucciones |-> i, tabla_segmento |-> t, registros |-> v]
    BY DEF PcbNuevo
  <2> HIDE DEF n, i, v, w
  <2>3. [a EXCEPT !.tabla_segmento = t]
          = [program_counter |-> n, instrucciones |-> i, tabla_segmento |-> t, registros |-> v]
    OBVIOUS
  <2>. QED
    BY <1>8, <2>1, <2>2, <2>3
<1>10. /\ pcb' = [pcb EXCEPT ![p] = PcbNuevo(p, c, t)]
      /\ cola_exec' = <<>> /\ consola' = [consola EXCEPT ![p] = "fin"]
      /\ UNCHANGED <<cola_ready, hacia_cpu>>
  BY <1>7, <1>9 DEF ProcesarFin, Termina
<1>. QED
  BY <1>3, <1>6, <1>10, ParaInv

\* YIELD.
LEMMA ProcesarYieldInv ==
    ASSUME CpuInv, ProcesarYield
    PROVE  CpuInv' /\ \E p \in Proc : Atendido(p)
<1>1. Procesa({OpCode.YIELD}, Campos) /\ Vuelve /\ UNCHANGED <<consola, espacio_usuario>>
  BY DEF ProcesarYield
<1>2. PICK p \in Proc, codigo \in {OpCode.YIELD} : \E c, campos : Contestado(p, codigo, c, campos)
  BY <1>1, Contestada
<1>3. PICK c, campos : Contestado(p, codigo, c, campos)
  BY <1>2
<1>4. Campos = campos /\ CamposBien(p, codigo, campos)
  BY <1>3 DEF Contestado
<1>5. campos = <<>>
  BY <1>4, Zenon DEF CamposBien
<1>6. Atendida
  BY <1>1, <1>4, <1>5, EspacioTipo DEF Procesa, Atendida
<1>7. codigo \notin {OpCode.FINALIZADO, OpCode.POR_SEG_FAULT}
  BY CodigosDeRespuesta, Zenon
<1>. QED
  BY <1>1, <1>3, <1>6, <1>7, VuelveInv

\* I/O.
LEMMA ProcesarIOInv ==
    ASSUME CpuInv, ProcesarIO
    PROVE  CpuInv' /\ \E p \in Proc : Atendido(p)
<1>1. Procesa({OpCode.BLOQUEADO}, Tail(Campos)) /\ Vuelve /\ UNCHANGED <<consola, espacio_usuario>>
  BY DEF ProcesarIO
<1>2. PICK p \in Proc, codigo \in {OpCode.BLOQUEADO} : \E c, campos : Contestado(p, codigo, c, campos)
  BY <1>1, Contestada
<1>3. PICK c, campos : Contestado(p, codigo, c, campos)
  BY <1>2
<1>4. Campos = campos /\ CamposBien(p, codigo, campos)
  BY <1>3 DEF Contestado
<1>5. PICK x \in Nat : campos = <<x>>
  BY <1>4, Zenon DEF CamposBien
<1>6. Tail(Campos) = <<>>
  BY <1>4, <1>5
<1>7. Atendida
  BY <1>1, <1>6, EspacioTipo DEF Procesa, Atendida
<1>8. codigo \notin {OpCode.FINALIZADO, OpCode.POR_SEG_FAULT}
  BY CodigosDeRespuesta, Zenon
<1>. QED
  BY <1>1, <1>3, <1>7, <1>8, VuelveInv

\* SEG_FAULT, a code that the Kernel has no case for.
LEMMA ProcesarInesperadaInv ==
    ASSUME CpuInv, ProcesarInesperada
    PROVE  CpuInv' /\ \E p \in Proc : Atendido(p)
<1>1. /\ Procesa({ReturnCode.SEG_FAULT}, Campos) /\ pcb' = [pcb EXCEPT ![EnExec] = PcbActualizado]
      /\ UNCHANGED <<consola, cola_ready, cola_exec, hacia_cpu, espacio_usuario>>
  BY DEF ProcesarInesperada
<1>2. PICK p \in Proc, codigo \in {ReturnCode.SEG_FAULT} : \E c, campos : Contestado(p, codigo, c, campos)
  BY <1>1, Contestada
<1>3. PICK c, campos : Contestado(p, codigo, c, campos)
  BY <1>2
<1>4. Campos = campos /\ CamposBien(p, codigo, campos)
  BY <1>3 DEF Contestado
<1>5. campos = <<>>
  BY <1>4, Zenon DEF CamposBien
<1>6. Atendida
  BY <1>1, <1>4, <1>5, EspacioTipo DEF Procesa, Atendida
<1>7. EnExec = p /\ PcbActualizado = PcbNuevo(p, c, pcb[p].tabla_segmento)
      /\ pcb[p].tabla_segmento \in Seq(SegmentosDeMemoria)
  BY <1>3 DEF Contestado
<1>8. PICK t \in Seq(SegmentosDeMemoria) : t = pcb[p].tabla_segmento
  BY <1>7
<1>9. pcb' = [pcb EXCEPT ![p] = PcbNuevo(p, c, t)]
  BY <1>1, <1>7, <1>8
<1>10. UNCHANGED <<cola_ready, hacia_cpu>> /\ UNCHANGED <<cola_exec, consola>>
  BY <1>1
<1>. QED
  BY <1>3, <1>6, <1>9, <1>10, ParaInv

\* The process keeps the CPU with the pcb of the answer.
LEMMA SigueIgualInv ==
    ASSUME CpuInv, NEW p \in Proc, NEW codigo, NEW c, NEW campos, Contestado(p, codigo, c, campos),
           Atendida, Sigue(PcbActualizado),
           UNCHANGED consola, codigo \notin {OpCode.FINALIZADO, OpCode.POR_SEG_FAULT}
    PROVE  CpuInv' /\ Atendido(p)
<1>1. PcbActualizado = PcbNuevo(p, c, pcb[p].tabla_segmento)
      /\ pcb[p].tabla_segmento \in Seq(SegmentosDeMemoria)
  BY DEF Contestado
<1>2. PICK t \in Seq(SegmentosDeMemoria) : t = pcb[p].tabla_segmento
  BY <1>1
<1>3. PcbActualizado = PcbNuevo(p, c, t)
  BY <1>1, <1>2
<1>4. Sigue(PcbNuevo(p, c, t))
  BY <1>3 DEF Sigue
<1>. QED
  BY <1>4, SigueInv

\* The fields after a name.
LEMMA TrasElNombre ==
    ASSUME NEW s \in Seq(Int \cup Byte), NEW resto \in Seq(Int)
    PROVE  RecibirString(Mensaje(s) \o resto).resto = resto
<1>1. resto \in Seq(Celda)
  <2>1. Int \subseteq Celda
    BY DEF Celda
  <2>. QED
    BY <2>1, SeqMonotonic
<1>. QED
  BY <1>1, LeeMensaje

\* WAIT, SIGNAL, F_OPEN and F_CLOSE.
LEMMA ProcesarConNombreInv ==
    ASSUME CpuInv, ProcesarConNombre
    PROVE  CpuInv' /\ \E p \in Proc : Atendido(p)
<1> DEFINE K == {OpCode.WAIT, OpCode.SIGNAL, OpCode.F_OPEN, OpCode.F_CLOSE}
<1>1. Procesa(K, RecibirString(Campos).resto) /\ (Sigue(PcbActualizado) \/ Vuelve)
      /\ UNCHANGED <<consola, espacio_usuario>>
  BY DEF ProcesarConNombre
<1>2. PICK p \in Proc, codigo \in K : \E c, campos : Contestado(p, codigo, c, campos)
  BY <1>1, Contestada
<1>3. PICK c, campos : Contestado(p, codigo, c, campos)
  BY <1>2
<1>4. Campos = campos /\ CamposBien(p, codigo, campos)
  BY <1>3 DEF Contestado
<1>5. PICK s \in Seq(Int \cup Byte) : campos = Mensaje(s) \o <<>>
  BY <1>4, Zenon DEF CamposBien
<1>6. RecibirString(Campos).resto = <<>>
  <2>1. <<>> \in Seq(Int)
    OBVIOUS
  <2>. QED
    BY <1>4, <1>5, <2>1, TrasElNombre
<1>7. Atendida
  BY <1>1, <1>6, EspacioTipo DEF Procesa, Atendida
<1>8. codigo \notin {OpCode.FINALIZADO, OpCode.POR_SEG_FAULT}
  BY CodigosDeRespuesta, Zenon
<1>. QED
  BY <1>1, <1>3, <1>7, <1>8, VuelveInv, SigueIgualInv

\* F_SEEK and F_TRUNCATE: one number after the name.
LEMMA NombreYNumero ==
    ASSUME NEW codigo \in {OpCode.F_SEEK, OpCode.F_TRUNCATE}, NEW p, NEW campos,
           CamposBien(p, codigo, campos)
    PROVE  Tail(RecibirString(campos).resto) = <<>>
<1>1. PICK s \in Seq(Int \cup Byte), x \in Nat : campos = Mensaje(s) \o <<x>>
  BY Zenon DEF CamposBien
<1>2. RecibirString(campos).resto = <<x>>
  <2>1. <<x>> \in Seq(Int)
    OBVIOUS
  <2>. QED
    BY <1>1, <2>1, TrasElNombre
<1>. QED
  BY <1>2

\* F_SEEK.
LEMMA ProcesarFSeekInv ==
    ASSUME CpuInv, ProcesarFSeek
    PROVE  CpuInv' /\ \E p \in Proc : Atendido(p)
<1>1. Procesa({OpCode.F_SEEK}, Tail(RecibirString(Campos).resto)) /\ Sigue(PcbActualizado)
      /\ UNCHANGED <<consola, espacio_usuario>>
  BY DEF ProcesarFSeek
<1>2. PICK p \in Proc, codigo \in {OpCode.F_SEEK} : \E c, campos : Contestado(p, codigo, c, campos)
  BY <1>1, Contestada
<1>3. PICK c, campos : Contestado(p, codigo, c, campos)
  BY <1>2
<1>4. Campos = campos /\ CamposBien(p, codigo, campos)
  BY <1>3 DEF Contestado
<1>5. Tail(RecibirString(Campos).resto) = <<>>
  BY <1>4, NombreYNumero
<1>6. Atendida
  BY <1>1, <1>5, EspacioTipo DEF Procesa, Atendida
<1>7. codigo \notin {OpCode.FINALIZADO, OpCode.POR_SEG_FAULT}
  BY CodigosDeRespuesta, Zenon
<1>. QED
  BY <1>1, <1>3, <1>6, <1>7, SigueIgualInv

\* F_TRUNCATE.
LEMMA ProcesarFTruncateInv ==
    ASSUME CpuInv, ProcesarFTruncate
    PROVE  CpuInv' /\ \E p \in Proc : Atendido(p)
<1>1. Procesa({OpCode.F_TRUNCATE}, Tail(RecibirString(Campos).resto)) /\ Vuelve
      /\ UNCHANGED <<consola, espacio_usuario>>
  BY DEF ProcesarFTruncate
<1>2. PICK p \in Proc, codigo \in {OpCode.F_TRUNCATE} : \E c, campos : Contestado(p, codigo, c, campos)
  BY <1>1, Contestada
<1>3. PICK c, campos : Contestado(p, codigo, c, campos)
  BY <1>2
<1>4. Campos = campos /\ CamposBien(p, codigo, campos)
  BY <1>3 DEF Contestado
<1>5. Tail(RecibirString(Campos).resto) = <<>>
  BY <1>4, NombreYNumero
<1>6. Atendida
  BY <1>1, <1>5, EspacioTipo DEF Procesa, Atendida
<1>7. codigo \notin {OpCode.FINALIZADO, OpCode.POR_SEG_FAULT}
  BY CodigosDeRespuesta, Zenon
<1>. QED
  BY <1>1, <1>3, <1>6, <1>7, VuelveInv

\* Of two numbers, or of one, nothing is left.
LEMMA NadaTras ==
    ASSUME NEW x \in Nat, NEW y \in Nat
    PROVE  /\ Tras(<<x, y>>, 3) = <<>> /\ Tras(<<x>>, 2) = <<>>
           /\ <<x, y>>[1] = x /\ <<x, y>>[2] = y /\ <<x>>[1] = x
<1>1. Len(<<x, y>>) = 2 /\ Len(<<x>>) = 1
  OBVIOUS
<1>2. SubSeq(<<x, y>>, 3, 2) = <<>> /\ SubSeq(<<x>>, 2, 1) = <<>>
  BY SubSeqEmpty
<1>. QED
  BY <1>1, <1>2 DEF Tras

\* F_READ and F_WRITE.
LEMMA ProcesarAccesoInv ==
    ASSUME CpuInv, ProcesarAcceso
    PROVE  CpuInv' /\ \E p \in Proc : Atendido(p)
<1> DEFINE K == {OpCode.F_READ, OpCode.F_WRITE}
           enteros == RecibirString(Campos).resto
           L == Letra \cup {NUL}
<1>1. /\ Procesa(K, Tras(enteros, 3)) /\ Vuelve /\ UNCHANGED consola
      /\ espacio_usuario' \in {espacio_usuario, Escribir(enteros[1], [i \in 1..enteros[2] |-> DATO])}
  BY DEF ProcesarAcceso
<1>2. PICK p \in Proc, codigo \in K : \E c, campos : Contestado(p, codigo, c, campos)
  BY <1>1, Contestada
<1>3. PICK c, campos : Contestado(p, codigo, c, campos)
  BY <1>2
<1>4. Campos = campos /\ CamposBien(p, codigo, campos)
  BY <1>3 DEF Contestado
<1>5. PICK d \in Nat, n \in Nat : enteros = <<d, n>>
  BY <1>4, AccesoLeido
<1>6. Tras(enteros, 3) = <<>> /\ enteros[2] = n
  <2>1. Tras(<<d, n>>, 3) = <<>> /\ <<d, n>>[2] = n
    BY NadaTras
  <2> HIDE DEF enteros
  <2>. QED
    BY <1>5, <2>1, Zenon
<1>7. espacio_usuario' \in [1..TAM_MEMORIA -> Letra \cup {NUL}]
  <2> DEFINE b == [i \in 1..n |-> DATO]
  <2>1. b \in [1..n -> L]
    BY LetraTipo
  <2>2. b \in Seq(L)
    <3> HIDE DEF b, L
    <3>. QED
      BY <2>1, EsSecuencia
  <2>3. espacio_usuario' \in {espacio_usuario, Escribir(enteros[1], b)}
    BY <1>1, <1>6
  <2> HIDE DEF b, enteros
  <2>. QED
    BY <2>2, <2>3, EspacioTipo, EscribirTipo
<1> HIDE DEF enteros
<1>8. Atendida
  BY <1>1, <1>6, <1>7 DEF Procesa, Atendida
<1>9. codigo \notin {OpCode.FINALIZADO, OpCode.POR_SEG_FAULT}
  BY CodigosDeRespuesta, Zenon
<1>. QED
  BY <1>1, <1>3, <1>8, <1>9, VuelveInv

\* Another table in a pcb.
LEMMA OtraTabla ==
    ASSUME NEW p, NEW c, NEW w, NEW u
    PROVE  [PcbNuevo(p, c, w) EXCEPT !.tabla_segmento = u] = PcbNuevo(p, c, u)
<1> DEFINE n == c.program_counter
           i == Programa(p)
           v == c.registros
           a == [program_counter |-> n, instrucciones |-> i, tabla_segmento |-> w, registros |-> v]
<1>1. PcbNuevo(p, c, w) = a
  BY DEF PcbNuevo
<1>2. PcbNuevo(p, c, u)
        = [program_counter |-> n, instrucciones |-> i, tabla_segmento |-> u, registros |-> v]
  BY DEF PcbNuevo
<1> HIDE DEF n, i, v
<1>3. [a EXCEPT !.tabla_segmento = u]
        = [program_counter |-> n, instrucciones |-> i, tabla_segmento |-> u, registros |-> v]
  OBVIOUS
<1>. QED
  BY <1>1, <1>2, <1>3

\* pasar_a_cola_exit.
LEMMA TerminaInv ==
    ASSUME CpuInv, NEW p \in Proc, NEW codigo, NEW c, NEW campos, Contestado(p, codigo, c, campos),
           Atendida, Termina
    PROVE  CpuInv' /\ Atendido(p)
<1>1. EnExec = p /\ PcbActualizado = PcbNuevo(p, c, pcb[p].tabla_segmento)
  BY DEF Contestado
<1>2. PICK t \in Seq(SegmentosDeMemoria) : t = <<>>
  <2>1. <<>> \in Seq(SegmentosDeMemoria)
    OBVIOUS
  <2>. QED
    BY <2>1, Zenon
<1>3. [PcbActualizado EXCEPT !.tabla_segmento = <<>>] = PcbNuevo(p, c, t)
  BY <1>1, <1>2, OtraTabla
<1>4. /\ pcb' = [pcb EXCEPT ![p] = PcbNuevo(p, c, t)]
      /\ cola_exec' = <<>> /\ consola' = [consola EXCEPT ![p] = "fin"]
      /\ UNCHANGED <<cola_ready, hacia_cpu>>
  BY <1>1, <1>3 DEF Termina
<1>. QED
  BY <1>4, ParaInv

\* The process goes on with another table.
LEMMA SigueConTabla ==
    ASSUME CpuInv, NEW p \in Proc, NEW codigo, NEW c, NEW campos, Contestado(p, codigo, c, campos),
           Atendida, NEW u \in Seq(SegmentosDeMemoria), NEW b, Sigue(b),
           b = [PcbActualizado EXCEPT !.tabla_segmento = u],
           UNCHANGED consola, codigo \notin {OpCode.FINALIZADO, OpCode.POR_SEG_FAULT}
    PROVE  CpuInv' /\ Atendido(p)
<1>1. PcbActualizado = PcbNuevo(p, c, pcb[p].tabla_segmento)
  BY DEF Contestado
<1>2. b = PcbNuevo(p, c, u)
  BY <1>1, OtraTabla
<1>3. Sigue(PcbNuevo(p, c, u))
  BY <1>2
<1>. QED
  BY <1>3, SigueInv

\* CREATE_SEGMENT.
LEMMA ProcesarCreateSegmentInv ==
    ASSUME CpuInv, ProcesarCreateSegment
    PROVE  CpuInv' /\ \E p \in Proc : Atendido(p)
<1> DEFINE id == Campos[1]
           tam == Campos[2]
           lugares == {d \in 0..TAM_MEMORIA - tam : (d + 1)..(d + tam) \cap Ocupadas = {}}
           inicio == CHOOSE d \in lugares : \A e \in lugares : d <= e
<1>1. /\ Procesa({OpCode.CREATE_SEGMENT}, Tras(Campos, 3)) /\ UNCHANGED espacio_usuario
      /\ \/ /\ lugares # {} /\ UNCHANGED consola
            /\ Sigue([PcbActualizado EXCEPT !.tabla_segmento = Append(@, Segmento(id, inicio, tam))])
         \/ Termina
  BY DEF ProcesarCreateSegment
<1>2. PICK p \in Proc, codigo \in {OpCode.CREATE_SEGMENT} : \E c, campos : Contestado(p, codigo, c, campos)
  BY <1>1, Contestada
<1>3. PICK c, campos : Contestado(p, codigo, c, campos)
  BY <1>2
<1>4. Campos = campos /\ CamposBien(p, codigo, campos)
      /\ PcbActualizado = PcbNuevo(p, c, pcb[p].tabla_segmento)
      /\ pcb[p].tabla_segmento \in Seq(SegmentosDeMemoria)
  BY <1>3 DEF Contestado
<1>5. PICK x \in Nat, y \in Nat : campos = <<x, y>>
  BY <1>4, Zenon DEF CamposBien
<1>6. Tras(Campos, 3) = <<>> /\ id = x /\ tam = y
  <2>1. Tras(<<x, y>>, 3) = <<>> /\ <<x, y>>[1] = x /\ <<x, y>>[2] = y
    BY NadaTras
  <2>. QED
    BY <1>4, <1>5, <2>1, Zenon
<1>7. Atendida
  BY <1>1, <1>6, EspacioTipo DEF Procesa, Atendida
<1>8. codigo \notin {OpCode.FINALIZADO, OpCode.POR_SEG_FAULT}
  BY CodigosDeRespuesta, Zenon
<1>9. ASSUME lugares # {}
      PROVE  Segmento(id, inicio, tam) \in SegmentosDeMemoria
  <2>1. TAM_MEMORIA \in Nat
    BY CpuAssumption
  <2>2. lugares \subseteq 0..TAM_MEMORIA - y
    BY <1>6
  <2> DEFINE L == lugares
             EsMenor(d) == \A e \in L : d <= e
  <2>3. inicio = CHOOSE d \in L : EsMenor(d)
    OBVIOUS
  <2>4. L # {} /\ L \subseteq 0..TAM_MEMORIA - y
    BY <1>9, <2>2
  <2> HIDE DEF L, inicio, id, tam
  <2>5. L \subseteq Nat
    BY <2>4
  <2>6. PICK d \in L : EsMenor(d)
    BY <2>4, <2>5, BuenOrden
  <2> HIDE DEF EsMenor
  <2>7. inicio \in L
    BY <2>3, <2>6
  <2>8. inicio \in Nat /\ inicio + y <= TAM_MEMORIA
    BY <1>5, <2>1, <2>4, <2>7
  <2>. QED
    BY <1>5, <1>6, <2>8 DEF Segmento, SegmentosDeMemoria
<1>10. CASE Termina
  BY <1>3, <1>7, <1>10, TerminaInv
<1>11. CASE /\ lugares # {} /\ UNCHANGED consola
            /\ Sigue([PcbActualizado EXCEPT !.tabla_segmento = Append(@, Segmento(id, inicio, tam))])
  <2>1. Segmento(id, inicio, tam) \in SegmentosDeMemoria
    BY <1>9, <1>11
  <2> HIDE DEF lugares, inicio, id, tam
  <2>2. PICK s \in SegmentosDeMemoria : s = Segmento(id, inicio, tam)
    BY <2>1
  <2>3. PICK w \in Seq(SegmentosDeMemoria) : w = pcb[p].tabla_segmento
    BY <1>4
  <2>4. PICK u \in Seq(SegmentosDeMemoria) : u = Append(w, s)
    <3>1. Append(w, s) \in Seq(SegmentosDeMemoria)
      BY AppendProperties
    <3>. QED
      BY <3>1
  <2>5. PcbActualizado.tabla_segmento = w
    BY <1>4, <2>3 DEF PcbNuevo
  <2>6. PICK b : b = [PcbActualizado EXCEPT !.tabla_segmento = Append(@, Segmento(id, inicio, tam))]
    OBVIOUS
  <2>7. Sigue(b)
    BY <1>11, <2>6
  <2>8. b = [PcbActualizado EXCEPT !.tabla_segmento = u]
    <3> DEFINE k == PcbActualizado
    <3>1. b = [k EXCEPT !.tabla_segmento = Append(k.tabla_segmento, s)]
      BY <2>2, <2>6
    <3>. QED
      BY <2>4, <2>5, <3>1
  <2>. QED
    BY <1>3, <1>7, <1>8, <1>11, <2>7, <2>8, SigueConTabla
<1>. QED
  BY <1>1, <1>10, <1>11

\* A table without the segment it is asked to delete, if it had it.
SinId(t, x) == RemoveFirstMatch(t, LAMBDA s : s.segmento_id = x)

\* Its segments are segments of the table.
LEMMA SinUno ==
    ASSUME NEW S, NEW s \in Seq(S), NEW x
    PROVE  SinId(s, x) \in Seq(S)
<1> DEFINE I == {i \in 1..Len(s) : s[i].segmento_id = x}
           k == SelectInSeq(s, LAMBDA e : e.segmento_id = x)
<1>1. CASE \E i \in 1..Len(s) : s[i].segmento_id = x
  <2>1. I \subseteq Nat /\ I # {}
    <3>1. 1..Len(s) \subseteq Nat
      BY LenProperties
    <3>. QED
      BY <1>1, <3>1
  <2>2. k = Min(I)
    BY <1>1, <2>1 DEF SelectInSeq
  <2>3. I \subseteq 1..Len(s)
    OBVIOUS
  <2> HIDE DEF I
  <2>4. k \in 1..Len(s)
    BY <2>1, <2>2, <2>3, MinimoDe
  <2>5. SinId(s, x) = RemoveAt(s, k)
    BY <1>1 DEF SinId, RemoveFirstMatch
  <2> HIDE DEF k
  <2>. QED
    BY <2>4, <2>5, RemoveAtProperties
<1>2. CASE ~ \E i \in 1..Len(s) : s[i].segmento_id = x
  BY <1>2 DEF SinId, RemoveFirstMatch
<1>. QED
  BY <1>1, <1>2

\* DELETE_SEGMENT.
LEMMA ProcesarDeleteSegmentInv ==
    ASSUME CpuInv, ProcesarDeleteSegment
    PROVE  CpuInv' /\ \E p \in Proc : Atendido(p)
<1>1. /\ Procesa({OpCode.DELETE_SEGMENT}, Tras(Campos, 2)) /\ UNCHANGED <<consola, espacio_usuario>>
      /\ Sigue([PcbActualizado EXCEPT !.tabla_segmento = SinId(@, Campos[1])])
  BY DEF ProcesarDeleteSegment, SinId
<1>2. PICK p \in Proc, codigo \in {OpCode.DELETE_SEGMENT} : \E c, campos : Contestado(p, codigo, c, campos)
  BY <1>1, Contestada
<1>3. PICK c, campos : Contestado(p, codigo, c, campos)
  BY <1>2
<1>4. Campos = campos /\ CamposBien(p, codigo, campos)
      /\ PcbActualizado = PcbNuevo(p, c, pcb[p].tabla_segmento)
      /\ pcb[p].tabla_segmento \in Seq(SegmentosDeMemoria)
  BY <1>3 DEF Contestado
<1>5. PICK x \in Nat : campos = <<x>>
  BY <1>4, Zenon DEF CamposBien
<1>6. Tras(Campos, 2) = <<>> /\ Campos[1] = x
  <2>1. Tras(<<x>>, 2) = <<>> /\ <<x>>[1] = x
    BY NadaTras
  <2>. QED
    BY <1>4, <1>5, <2>1, Zenon
<1>7. Atendida
  BY <1>1, <1>6, EspacioTipo DEF Procesa, Atendida
<1>8. codigo \notin {OpCode.FINALIZADO, OpCode.POR_SEG_FAULT}
  BY CodigosDeRespuesta, Zenon
<1>9. PICK w \in Seq(SegmentosDeMemoria) : w = pcb[p].tabla_segmento
  BY <1>4
<1>10. PICK u \in Seq(SegmentosDeMemoria) : u = SinId(w, x)
  <2>1. SinId(w, x) \in Seq(SegmentosDeMemoria)
    BY SinUno
  <2>. QED
    BY <2>1
<1>11. PICK b : b = [PcbActualizado EXCEPT !.tabla_segmento = SinId(@, Campos[1])]
  OBVIOUS
<1>12. Sigue(b)
  BY <1>1, <1>11
<1>13. b = [PcbActualizado EXCEPT !.tabla_segmento = u]
  <2> DEFINE k == PcbActualizado
  <2>1. b = [k EXCEPT !.tabla_segmento = SinId(k.tabla_segmento, x)]
    BY <1>6, <1>11
  <2>2. k.tabla_segmento = w
    BY <1>4, <1>9 DEF PcbNuevo
  <2>. QED
    BY <1>10, <2>1, <2>2
<1>. QED
  BY <1>1, <1>3, <1>7, <1>8, <1>12, <1>13, SigueConTabla

\* Nothing changes.
LEMMA CpuInvQuieto ==
    ASSUME CpuInv, UNCHANGED vars
    PROVE  CpuInv'
<1>1. /\ pcb' = pcb /\ archivo' = archivo /\ consola' = consola /\ hacia_kernel' = hacia_kernel
      /\ UNCHANGED <<cola_ready, cola_exec, hacia_cpu, desde_cpu, cpu, proceso, registros_cpu,
                     hacia_memoria, desde_memoria, espacio_usuario>>
  BY DEF vars, consolas, kernel, ciclo, enlace
<1>2. DatosBien'
  BY <1>1 DEF CpuInv, DatosBien, ConsolaBien, PcbBien, EsPcb, Admitido, Programa, EsPrograma, PcbVacio
<1>3. ColaBien'
  BY <1>1 DEF CpuInv, ColaBien, Corre, PuedeSeguir
<1>4. Turno'
  <2>1. \A q \in Proc : cola_exec = <<q>> /\ Corre(q) =>
            Corre(q)' /\ archivo'[q] = archivo[q] /\ pcb'[q] = pcb[q]
    BY <1>1 DEF Corre
  <2>2. Turno
    BY DEF CpuInv
  <2>. QED
    BY <1>1, <2>1, <2>2, TurnoAjeno
<1>5. RegistrosBien(registros_cpu)' /\ espacio_usuario' \in [1..TAM_MEMORIA -> Letra \cup {NUL}]
  BY <1>1 DEF CpuInv, RegistrosBien, RegistroBien
<1>. QED
  BY <1>2, <1>3, <1>4, <1>5 DEF CpuInv

\* Every step keeps the invariant.
LEMMA CpuInvPaso == CpuInv /\ [Next]_vars => CpuInv'
<1> SUFFICES ASSUME CpuInv, [Next]_vars
             PROVE  CpuInv'
  OBVIOUS
<1>1. CASE \E p \in Proc : ConsolaEnvia(p) \/ KernelCreaProceso(p)
  BY <1>1, ConsolaEnviaInv, KernelCreaProcesoInv
<1>2. CASE CicloDeInstruccion
  BY <1>2, CpuRecibeContextoInv, CpuCaeInv, SegFaultInv, ExecuteSetInv, ExecuteMovInInv, CpuLeidoInv,
     ExecuteMovOutInv, CpuEscritoInv, ExecuteSinCamposInv, ExecuteConEnterosInv,
     ExecuteConNombreInv, ExecuteAccesoArchivoInv DEF CicloDeInstruccion
<1>3. CASE MemoryReadAdress \/ MemoryWriteAdress
  BY <1>3, MemoryReadAdressInv, MemoryWriteAdressInv
<1>4. CASE Despacha
  BY <1>4, DespachaInv
<1>5. CASE ManejarRespuestaCpu
  BY <1>5, ProcesarFinInv, ProcesarYieldInv, ProcesarIOInv, ProcesarConNombreInv, ProcesarFSeekInv,
     ProcesarFTruncateInv, ProcesarAccesoInv, ProcesarCreateSegmentInv, ProcesarDeleteSegmentInv,
     ProcesarInesperadaInv DEF ManejarRespuestaCpu
<1>6. CASE UNCHANGED vars
  BY <1>6, CpuInvQuieto
<1>. QED
  BY <1>1, <1>2, <1>3, <1>4, <1>5, <1>6 DEF Next

\* CpuInv holds in every state: the program, the table and the registers of a process are
\* in one place at a time, and in each of them they are those of that process
\* (ciclo_de_instruccion.c, cpu.c, i_cpu.c, estructuras.c).
THEOREM InvCpuSiempre == Spec => []CpuInv
<1>. QED
  BY CpuInvInicial, CpuInvPaso, PTL DEF Spec

\* TipoCpu: the last byte of a register is NUL in the CPU and in every pcb, so that strcpy
\* stays within it (ciclo_de_instruccion.c:303-321, cpu.c:147-163).
THEOREM TipoCpuSiempre == Spec => []TipoCpu
<1>. QED
  BY InvCpuSiempre, InvTipoCpu, PTL

\* AccesosPropios: what a process asks of Memoria, or of the FileSystem, is within a segment
\* that the Kernel has for it at that moment (ciclo_de_instruccion.c:248-260), and MOV_OUT
\* sends the string of a register with nothing after it (cpu.c:150-170).
THEOREM AccesosPropiosSiempre == Spec => []AccesosPropios
<1>. QED
  BY InvCpuSiempre, InvAccesosPropios, PTL

-----------------------------------------------------------------------------
(* The refinement of MaquinaPropia *)

\* The counter and the strings of the registers of a process, wherever they are.
Contador(p) ==
    CASE proceso.pid = p -> proceso.program_counter - IF cpu = "espera_lectura" THEN 1 ELSE 0
      [] EnCamino(p) -> StreamEnCamino[2]
      [] OTHER -> pcb[p].program_counter

\* The strings of its registers.
Valor(p) ==
    [r \in Range(REGISTROS) |->
        Cadena(CASE proceso.pid = p -> registros_cpu[r]
                 [] EnCamino(p) -> RecibirRegistros[
                        Tras(StreamEnCamino, DesdeRegistros(StreamEnCamino))][r]
                 [] OTHER -> pcb[p].registros[r])]

\* They are these.
LugarDe(p, n, v) == Contador(p) = n /\ Valor(p) = v

\* Where they are, in each of the places a process can be: in the CPU, in an answer, or in
\* its pcb.
LugaresBien ==
    \A p \in Proc :
        /\ EnCpu(p) =>
              LugarDe(p, proceso.program_counter - IF cpu = "espera_lectura" THEN 1 ELSE 0,
                      Valores(registros_cpu))
        /\ \A codigo, c, campos :
              cola_exec = <<p>> /\ Corre(p) /\ CpuVacia /\ Respuesta(p, codigo, c, campos) =>
                  LugarDe(p, c.program_counter, Valores(c.registros))
        /\ cola_exec # <<p>> \/ (CpuVacia /\ desde_cpu = <<>>) =>
              LugarDe(p, pcb[p].program_counter, Valores(pcb[p].registros))

\* The invariant says so.
LEMMA Lugares == CpuInv => LugaresBien
<1> SUFFICES ASSUME CpuInv, NEW p \in Proc
             PROVE  /\ EnCpu(p) =>
                          LugarDe(p, proceso.program_counter - IF cpu = "espera_lectura" THEN 1 ELSE 0,
                                  Valores(registros_cpu))
                    /\ \A codigo, c, campos :
                          cola_exec = <<p>> /\ Corre(p) /\ CpuVacia /\ Respuesta(p, codigo, c, campos) =>
                              LugarDe(p, c.program_counter, Valores(c.registros))
                    /\ cola_exec # <<p>> \/ (CpuVacia /\ desde_cpu = <<>>) =>
                          LugarDe(p, pcb[p].program_counter, Valores(pcb[p].registros))
  BY DEF LugaresBien
<1>0. CpuVacia => proceso.pid # p
  BY CpuAssumption DEF CpuVacia, SinProceso
<1>1. ASSUME EnCpu(p)
      PROVE  LugarDe(p, proceso.program_counter - IF cpu = "espera_lectura" THEN 1 ELSE 0,
                     Valores(registros_cpu))
  <2>1. proceso.pid = p
    <3> DEFINE q == proceso
    <3>1. q = [pid |-> p, program_counter |-> q.program_counter, instrucciones |-> Programa(p),
               tabla_segmentos |-> pcb[p].tabla_segmento, registros |-> q.registros]
      BY <1>1 DEF EnCpu
    <3> HIDE DEF q
    <3>2. q.pid = p
      BY <3>1
    <3>. QED
      BY <3>2 DEF q
  <2>4. ~EnCamino(p)
    BY <1>1 DEF EnCpu, EnCamino
  <2>2. Contador(p) = proceso.program_counter - IF cpu = "espera_lectura" THEN 1 ELSE 0
    BY <2>1, <2>4 DEF Contador
  <2>3. Valor(p) = Valores(registros_cpu)
    BY <2>1, <2>4 DEF Valor, Valores
  <2>. QED
    BY <2>2, <2>3 DEF LugarDe
<1>2. ASSUME NEW codigo, NEW c, NEW campos, cola_exec = <<p>>, Corre(p), CpuVacia,
             Respuesta(p, codigo, c, campos)
      PROVE  LugarDe(p, c.program_counter, Valores(c.registros))
  <2>1. Admitido(p)
    BY <1>2 DEF Corre, Admitido
  <2>2. ContextoLeido(desde_cpu, codigo, c, campos) /\ desde_cpu # <<>>
    BY <1>2, <2>1, RespuestaLeida
  <2>3. proceso.pid # p /\ EnCamino(p)
    BY <1>0, <1>2, <2>2 DEF EnCamino, EnExec
  <2>4. Contador(p) = c.program_counter
    BY <2>2, <2>3 DEF Contador, StreamEnCamino, ContextoLeido
  <2>5. Valor(p) = Valores(c.registros)
    <3>1. RecibirRegistros[Tras(StreamEnCamino, DesdeRegistros(StreamEnCamino))] = c.registros
      BY <2>2 DEF StreamEnCamino, ContextoLeido
    <3>. QED
      BY <2>3, <3>1 DEF Valor, Valores
  <2>. QED
    BY <2>4, <2>5 DEF LugarDe
<1>3. ASSUME cola_exec # <<p>> \/ (CpuVacia /\ desde_cpu = <<>>)
      PROVE  LugarDe(p, pcb[p].program_counter, Valores(pcb[p].registros))
  <2>1. proceso.pid # p /\ ~EnCamino(p)
    <3>1. CASE CpuVacia /\ desde_cpu = <<>>
      BY <1>0, <3>1 DEF EnCamino
    <3>2. CASE cola_exec = <<>>
      BY <1>0, <3>2 DEF CpuInv, Turno, CpuLibre, EnCamino
    <3>3. CASE cola_exec # <<p>> /\ cola_exec # <<>>
      <4>1. PICK q \in Proc : cola_exec = <<q>> /\ (CpuVacia \/ EnCpu(q))
        BY <3>3 DEF CpuInv, Turno, Enviado, Devuelto, CpuLibre
      <4>2. q # p
        BY <3>3, <4>1
      <4>3. EnExec = q
        BY <4>1 DEF EnExec
      <4>4. EnCpu(q) => proceso.pid = q
        <5> DEFINE x == proceso
        <5>1. ASSUME EnCpu(q)
              PROVE  x = [pid |-> q, program_counter |-> x.program_counter, instrucciones |-> Programa(q),
                     tabla_segmentos |-> pcb[q].tabla_segmento, registros |-> x.registros]
          BY <5>1 DEF EnCpu
        <5> HIDE DEF x
        <5>2. ASSUME EnCpu(q) PROVE x.pid = q
          BY <5>1, <5>2
        <5>. QED
          BY <5>2 DEF x
      <4>. QED
        BY <1>0, <4>1, <4>2, <4>3, <4>4 DEF EnCamino
    <3>. QED
      BY <1>3, <3>1, <3>2, <3>3
  <2>2. Contador(p) = pcb[p].program_counter
    BY <2>1 DEF Contador
  <2>3. Valor(p) = Valores(pcb[p].registros)
    BY <2>1 DEF Valor, Valores
  <2>. QED
    BY <2>2, <2>3 DEF LugarDe
<1>. QED
  BY <1>1, <1>2, <1>3

\* After a step too.
LEMMA LugaresDespues == CpuInv' => LugaresBien'
BY Lugares, PTL

\* The variables of MaquinaPropia.
contadores == [p \in Proc |-> Contador(p)]
valores == [p \in Proc |-> Valor(p)]

\* What Ejecuta says of these variables.
PasoDeLinea(p) ==
    /\ contadores[p] < Len(archivo[p])
    /\ contadores' = [contadores EXCEPT ![p] = @ + 1]
    /\ LET linea == archivo[p][contadores[p] + 1]
           r == linea.palabras[1][1]
       IN \/ linea.funcion \notin {"SET", "MOV_IN"} /\ UNCHANGED valores
          \/ /\ linea.funcion = "SET"
             /\ valores' = [valores EXCEPT ![p][r] = Cortada(linea.palabras[2], ANCHO[r])]
          \/ /\ linea.funcion = "MOV_IN"
             /\ Len(valores'[p][r]) <= ANCHO[r]
             /\ valores' = [valores EXCEPT ![p][r] = valores'[p][r]]
          \/ linea.funcion = "MOV_IN" /\ UNCHANGED valores
    /\ UNCHANGED archivo

\* It is Ejecuta.
LEMMA EsEjecuta == ASSUME NEW p PROVE PasoDeLinea(p) => Maquina!Ejecuta(p)
BY Zenon DEF PasoDeLinea, Maquina!Ejecuta, Maquina!Truncar, Cortada, contadores, valores, Contador, Valor

\* A file for a process that had none is Empieza.
LEMMA EsEmpieza ==
    ASSUME NEW p, archivo[p] = <<>>, \E a \in Archivos[p] : archivo' = [archivo EXCEPT ![p] = a],
           UNCHANGED <<contadores, valores>>
    PROVE  Maquina!Empieza(p)
BY DEF Maquina!Empieza, contadores, valores, Contador, Valor

\* A step that touches none of the three is a stutter.
LEMMA EsQuieta ==
    ASSUME UNCHANGED <<archivo, contadores, valores>>
    PROVE  UNCHANGED Maquina!vars
BY DEF Maquina!vars, contadores, valores, Contador, Valor

\* The initial values.
LEMMA EsInicial ==
    ASSUME archivo = [p \in Proc |-> <<>>], contadores = [p \in Proc |-> 0],
           valores = [p \in Proc |-> [r \in DOMAIN ANCHO |-> <<>>]]
    PROVE  Maquina!Init
BY DEF Maquina!Init, contadores, valores, Contador, Valor

\* The initial states of Cpu are initial states of MaquinaPropia.
LEMMA MaquinaInicial == Init => Maquina!Init
<1> SUFFICES ASSUME Init
             PROVE  Maquina!Init
  OBVIOUS
<1>1. LugaresBien
  BY CpuInvInicial, Lugares
<1>2. DOMAIN ANCHO = Range(REGISTROS)
  BY SerializacionAssumption
<1>3. ASSUME NEW p \in Proc
      PROVE  Contador(p) = 0 /\ Valor(p) = [r \in Range(REGISTROS) |-> <<>>]
  <2>1. cola_exec # <<p>>
    BY DEF Init
  <2>2. pcb[p].program_counter = 0 /\ pcb[p].registros = RegistrosEnCero
    BY DEF Init, PcbVacio
  <2>. QED
    BY <1>1, <2>1, <2>2, EnCero DEF LugaresBien, LugarDe
<1>4. archivo = [p \in Proc |-> <<>>]
  BY DEF Init
<1>5. contadores = [p \in Proc |-> 0] /\ valores = [p \in Proc |-> [r \in DOMAIN ANCHO |-> <<>>]]
  BY <1>2, <1>3 DEF contadores, valores
<1>. QED
  BY <1>4, <1>5, EsInicial

\* A process for which nothing changes.
Quieto(q) == Contador(q)' = Contador(q) /\ Valor(q)' = Valor(q)

\* If it is so for all of them, both variables stay as they are.
LEMMA TodosQuietos ==
    ASSUME \A q \in Proc : Quieto(q)
    PROVE  UNCHANGED <<contadores, valores>>
BY DEF Quieto, contadores, valores

\* Neither the process in the CPU nor its registers change, nor what is on its way.
LEMMA SinMover ==
    ASSUME UNCHANGED <<proceso, registros_cpu, desde_cpu>>,
           cola_exec' = cola_exec \/ desde_cpu = <<>>,
           cpu' = cpu \/ "espera_lectura" \notin {cpu, cpu'},
           \A q \in Proc : /\ pcb'[q].program_counter = pcb[q].program_counter
                           /\ pcb'[q].registros = pcb[q].registros
    PROVE  UNCHANGED <<contadores, valores>>
<1>1. ASSUME NEW q \in Proc
      PROVE  Quieto(q)
  <2>1. (IF cpu' = "espera_lectura" THEN 1 ELSE 0) = IF cpu = "espera_lectura" THEN 1 ELSE 0
    OBVIOUS
  <2>2. EnCamino(q)' = EnCamino(q)
    BY DEF EnCamino, EnExec
  <2>3. StreamEnCamino' = StreamEnCamino
    BY DEF StreamEnCamino
  <2>4. Contador(q)' = Contador(q)
    BY <2>1, <2>2, <2>3 DEF Contador
  <2>5. Valor(q)' = Valor(q)
    BY <2>2, <2>3 DEF Valor
  <2>. QED
    BY <2>4, <2>5 DEF Quieto
<1>. QED
  BY <1>1, TodosQuietos

\* A process whose turn it is neither before nor after.
LEMMA OtroQuieto ==
    ASSUME LugaresBien, LugaresBien', NEW q \in Proc, cola_exec # <<q>>, cola_exec' # <<q>>,
           pcb'[q] = pcb[q]
    PROVE  Quieto(q)
<1>1. Contador(q) = pcb[q].program_counter /\ Valor(q) = Valores(pcb[q].registros)
  BY DEF LugaresBien, LugarDe
<1>2. Contador(q)' = pcb'[q].program_counter /\ Valor(q)' = Valores(pcb'[q].registros)
  <2>1. (LugarDe(q, pcb[q].program_counter, Valores(pcb[q].registros)))'
    BY DEF LugaresBien
  <2>. QED
    BY <2>1 DEF LugarDe, Valores
<1>. QED
  BY <1>1, <1>2 DEF Quieto

\* While the CPU has something to do, the process whose turn it is is in it.
CpuOcupada ==
    cpu # "espera" => \E p \in Proc : cola_exec = <<p>> /\ Corre(p) /\ Admitido(p) /\ EnCpu(p)

\* The invariant says so.
LEMMA Ocupada == CpuInv => CpuOcupada
BY DEF CpuInv, CpuOcupada, Turno, Enviado, Devuelto, CpuLibre, CpuVacia, Corre, Admitido

\* After a step too.
LEMMA OcupadaDespues == CpuInv' => CpuOcupada'
BY Ocupada, PTL

\* The file that a console sends is the one its process runs.
LEMMA ConsolaEnviaMaquina ==
    ASSUME CpuInv, NEW p \in Proc, ConsolaEnvia(p)
    PROVE  Maquina!Empieza(p)
<1>1. archivo[p] = <<>>
  BY DEF ConsolaEnvia, CpuInv, DatosBien, ConsolaBien
<1>2. \E a \in Archivos[p] : archivo' = [archivo EXCEPT ![p] = a]
  BY DEF ConsolaEnvia
<1>3. UNCHANGED <<contadores, valores>>
  <2>1. UNCHANGED <<proceso, registros_cpu, desde_cpu, cola_exec, cpu, pcb>>
    BY DEF ConsolaEnvia, ciclo, kernel
  <2>. QED
    BY <2>1, SinMover
<1>. QED
  BY <1>1, <1>2, <1>3, EsEmpieza

\* The new pcb has the counter and the registers of a process that has run nothing.
LEMMA KernelCreaProcesoMaquina ==
    ASSUME CpuInv, NEW p \in Proc, KernelCreaProceso(p)
    PROVE  UNCHANGED Maquina!vars
<1>1. UNCHANGED <<archivo, proceso, registros_cpu, desde_cpu, cola_exec, cpu>>
  BY DEF KernelCreaProceso, ciclo
<1>2. pcb[p] = PcbVacio /\ pcb = [q \in Proc |-> pcb[q]]
  BY DEF KernelCreaProceso, CpuInv, DatosBien, PcbBien, Admitido
<1> DEFINE i == DeserializarInstrucciones[Buffer(hacia_kernel[p], 2)]
           t == <<Segmento(0, 0, TAM_SEGMENTO_0)>>
           b == [program_counter |-> 0, instrucciones |-> i, tabla_segmento |-> t,
                 registros |-> RegistrosEnCero]
<1>3. pcb' = [pcb EXCEPT ![p] = b]
  BY DEF KernelCreaProceso
<1> HIDE DEF i, t
<1>4. ASSUME NEW q \in Proc
      PROVE  /\ pcb'[q].program_counter = pcb[q].program_counter
             /\ pcb'[q].registros = pcb[q].registros
  <2>1. CASE q = p
    <3>1. pcb'[q] = b
      BY <1>2, <1>3, <2>1
    <3>. QED
      BY <1>2, <2>1, <3>1 DEF PcbVacio
  <2>2. CASE q # p
    BY <1>2, <1>3, <2>2
  <2>. QED
    BY <2>1, <2>2
<1>5. UNCHANGED <<contadores, valores>>
  BY <1>1, <1>4, SinMover
<1>. QED
  BY <1>1, <1>5, EsQuieta

\* The context on its way to the CPU is still in the pcb.
LEMMA DespachaMaquina ==
    ASSUME CpuInv, Despacha
    PROVE  UNCHANGED Maquina!vars
<1>1. UNCHANGED <<archivo, proceso, registros_cpu, desde_cpu, cpu, pcb>> /\ cola_exec = <<>>
  BY DEF Despacha, ciclo, consolas
<1>2. desde_cpu = <<>>
  BY <1>1 DEF CpuInv, Turno, CpuLibre
<1>3. UNCHANGED <<contadores, valores>>
  BY <1>1, <1>2, SinMover
<1>. QED
  BY <1>1, <1>3, EsQuieta

\* Memoria, the end of the CPU and the end of a MOV_OUT run no line.
LEMMA CpuQuieta ==
    ASSUME CpuCae \/ CpuEscrito \/ MemoryReadAdress \/ MemoryWriteAdress \/ UNCHANGED vars
    PROVE  UNCHANGED Maquina!vars
<1>1. /\ UNCHANGED <<archivo, proceso, registros_cpu, desde_cpu, cola_exec, pcb>>
      /\ cpu' = cpu \/ "espera_lectura" \notin {cpu, cpu'}
  BY DEF CpuCae, Ejecuta, CpuEscrito, MemoryReadAdress, MemoryWriteAdress, Llega, vars, consolas,
         kernel, ciclo
<1>2. UNCHANGED <<contadores, valores>>
  BY <1>1, SinMover
<1>. QED
  BY <1>1, <1>2, EsQuieta

\* The counter and the registers of the process that is in the CPU, before and after.
LEMMA EnCpuAntes ==
    ASSUME LugaresBien, NEW p \in Proc, EnCpu(p)
    PROVE  /\ proceso.program_counter \in Nat /\ Valor(p) = Valores(registros_cpu)
           /\ cpu # "espera_lectura" => Contador(p) = proceso.program_counter
           /\ cpu = "espera_lectura" => Contador(p) = proceso.program_counter - 1
<1>1. proceso.program_counter \in Nat
  BY DEF EnCpu
<1>2. Contador(p) = proceso.program_counter - (IF cpu = "espera_lectura" THEN 1 ELSE 0)
      /\ Valor(p) = Valores(registros_cpu)
  BY DEF LugaresBien, LugarDe
<1>. QED
  BY <1>1, <1>2

\* After a step.
LEMMA EnCpuDespues ==
    ASSUME LugaresBien', NEW p \in Proc, EnCpu(p)'
    PROVE  /\ proceso'.program_counter \in Nat /\ Valor(p)' = Valores(registros_cpu')
           /\ cpu' # "espera_lectura" => Contador(p)' = proceso'.program_counter
           /\ cpu' = "espera_lectura" => Contador(p)' = proceso'.program_counter - 1
<1>1. proceso'.program_counter \in Nat
  BY DEF EnCpu
<1>2. (LugarDe(p, proceso.program_counter - IF cpu = "espera_lectura" THEN 1 ELSE 0,
               Valores(registros_cpu)))'
  BY DEF LugaresBien
<1>3. Contador(p)' = proceso'.program_counter - (IF cpu' = "espera_lectura" THEN 1 ELSE 0)
      /\ Valor(p)' = Valores(registros_cpu')
  BY <1>2 DEF LugarDe, Valores
<1>. QED
  BY <1>1, <1>3

\* The process that has the turn keeps it, and is in the CPU.
LEMMA SigueEnCpu ==
    ASSUME CpuInv', NEW p \in Proc, cola_exec = <<p>>, cola_exec' = cola_exec, cpu' # "espera"
    PROVE  EnCpu(p)' /\ Admitido(p)'
<1>1. PICK q \in Proc : cola_exec' = <<q>> /\ EnCpu(q)' /\ Admitido(q)'
  BY OcupadaDespues DEF CpuOcupada
<1>2. q = p
  BY <1>1
<1>. QED
  BY <1>1, <1>2

\* The CPU takes the counter and the registers the pcb has.
LEMMA CpuRecibeContextoMaquina ==
    ASSUME CpuInv, CpuInv', CpuRecibeContexto
    PROVE  UNCHANGED Maquina!vars
<1>0. LugaresBien /\ LugaresBien'
  BY Lugares, LugaresDespues
<1>1. PICK p \in Proc : cola_exec = <<p>> /\ Corre(p) /\ Enviado(p)
  BY DEF CpuRecibeContexto, CpuInv, Turno, EnCpu, Devuelto, CpuLibre
<1>2. Admitido(p)
  BY <1>1 DEF Corre, Admitido
<1> DEFINE c == Contexto(p)
<1>3. ContextoDe(p, c) /\ ContextoLeido(hacia_cpu, OpCode.CONTEXTO_PROCESO, c, <<>>)
  BY <1>1, <1>2, ContextoEnviado DEF Enviado
<1>4. proceso' = c
  BY <1>3 DEF CpuRecibeContexto, ContextoLeido
<1>5. registros_cpu' = SetearRegistros(c.registros)
  BY <1>4 DEF CpuRecibeContexto
<1>6. c.program_counter = pcb[p].program_counter /\ c.registros = pcb[p].registros
  BY DEF Contexto
<1> HIDE DEF c
<1>7. Valores(registros_cpu') = Valores(pcb[p].registros)
  <2>1. RegistrosBien(c.registros) /\ RegistrosBien(registros_cpu)
    BY <1>3 DEF ContextoDe, CpuInv
  <2>. QED
    BY <1>5, <1>6, <2>1, SetearBien
<1>8. cpu' = "ejecuta" /\ UNCHANGED <<archivo, pcb, cola_exec>>
  BY DEF CpuRecibeContexto, consolas, kernel
<1>9. Quieto(p)
  <2>1. Contador(p) = pcb[p].program_counter /\ Valor(p) = Valores(pcb[p].registros)
    BY <1>0, <1>1 DEF LugaresBien, LugarDe, Enviado
  <2>2. EnCpu(p)'
    BY <1>1, <1>8, SigueEnCpu
  <2>3. Contador(p)' = proceso'.program_counter /\ Valor(p)' = Valores(registros_cpu')
    BY <1>0, <1>8, <2>2, EnCpuDespues
  <2>. QED
    BY <1>4, <1>6, <1>7, <2>1, <2>3 DEF Quieto
<1>10. ASSUME NEW q \in Proc, q # p
       PROVE  Quieto(q)
  <2>1. cola_exec # <<q>> /\ cola_exec' # <<q>> /\ pcb'[q] = pcb[q]
    BY <1>1, <1>8, <1>10
  <2>. QED
    BY <1>0, <2>1, OtroQuieto
<1>11. UNCHANGED <<contadores, valores>>
  BY <1>9, <1>10, TodosQuietos
<1>. QED
  BY <1>8, <1>11, EsQuieta

\* A MOV_IN that has asked Memoria has not run its line yet.
LEMMA ExecuteMovInMaquina ==
    ASSUME CpuInv, CpuInv', ExecuteMovIn
    PROVE  UNCHANGED Maquina!vars
<1>0. LugaresBien /\ LugaresBien'
  BY Lugares, LugaresDespues
<1>1. PICK p \in Proc : cola_exec = <<p>> /\ Admitido(p) /\ EnCpu(p)
  BY EnEjecucion DEF ExecuteMovIn, Ejecuta
<1>2. /\ cpu = "ejecuta" /\ cpu' = "espera_lectura" /\ proceso' = Avanza
      /\ NombreDe(Instruccion) = "MOV_IN"
      /\ UNCHANGED <<consolas, kernel, archivo, pcb, cola_exec, registros_cpu>>
  BY DEF ExecuteMovIn, Ejecuta, consolas, kernel
<1>3. Quieto(p)
  <2>1. proceso'.program_counter = proceso.program_counter + 1
    BY <1>1, <1>2, Avanzado
  <2>2. EnCpu(p)'
    BY <1>1, <1>2, SigueEnCpu
  <2>3. Contador(p)' = proceso'.program_counter - 1 /\ Valor(p)' = Valores(registros_cpu')
    BY <1>0, <1>2, <2>2, EnCpuDespues
  <2>4. Contador(p) = proceso.program_counter /\ Valor(p) = Valores(registros_cpu)
        /\ proceso.program_counter \in Nat
    BY <1>0, <1>1, <1>2, EnCpuAntes
  <2>5. Contador(p)' = Contador(p)
    BY <2>1, <2>3, <2>4
  <2>6. Valor(p)' = Valor(p)
    BY <1>2, <2>3, <2>4
  <2>. QED
    BY <2>5, <2>6 DEF Quieto
<1>4. ASSUME NEW q \in Proc, q # p
      PROVE  Quieto(q)
  <2>1. cola_exec # <<q>> /\ cola_exec' # <<q>> /\ pcb'[q] = pcb[q]
    BY <1>1, <1>2, <1>4
  <2>. QED
    BY <1>0, <2>1, OtroQuieto
<1>5. UNCHANGED <<contadores, valores>>
  BY <1>3, <1>4, TodosQuietos
<1>. QED
  BY <1>2, <1>5, EsQuieta

\* An answer that the Kernel reads: what was on its way is now in the pcb.
LEMMA AtendidoMaquina ==
    ASSUME CpuInv, CpuInv', NEW p \in Proc, Atendido(p)
    PROVE  UNCHANGED Maquina!vars
<1>0. LugaresBien /\ LugaresBien'
  BY Lugares, LugaresDespues
<1>1. PICK codigo, c, campos, t : /\ Contestado(p, codigo, c, campos)
                                  /\ pcb' = [pcb EXCEPT ![p] = PcbNuevo(p, c, t)]
  BY DEF Atendido
<1>2. cola_exec = <<p>> /\ Corre(p) /\ CpuVacia /\ Respuesta(p, codigo, c, campos)
  BY <1>1 DEF Contestado
<1>3. /\ UNCHANGED <<archivo, cpu, proceso, registros_cpu, hacia_memoria, desde_memoria>>
      /\ desde_cpu' = <<>> /\ cola_exec' \in {cola_exec, <<>>}
  BY DEF Atendido, Atendida, ciclo, enlace
<1>4. pcb = [q \in Proc |-> pcb[q]]
  BY DEF CpuInv, DatosBien
<1>5. pcb'[p].program_counter = c.program_counter /\ pcb'[p].registros = c.registros
  BY <1>1, <1>4 DEF PcbNuevo
<1>6. Quieto(p)
  <2>1. Contador(p) = c.program_counter /\ Valor(p) = Valores(c.registros)
    BY <1>0, <1>2 DEF LugaresBien, LugarDe
  <2>2. CpuVacia' /\ desde_cpu' = <<>>
    BY <1>2, <1>3 DEF CpuVacia, MemoriaCallada, SinProceso
  <2>3. (LugarDe(p, pcb[p].program_counter, Valores(pcb[p].registros)))'
    BY <1>0, <2>2 DEF LugaresBien
  <2>4. Contador(p)' = pcb'[p].program_counter /\ Valor(p)' = Valores(pcb'[p].registros)
    BY <2>3 DEF LugarDe, Valores
  <2>. QED
    BY <1>5, <2>1, <2>4 DEF Quieto
<1>7. ASSUME NEW q \in Proc, q # p
      PROVE  Quieto(q)
  <2>1. <<>> # <<q>>
    OBVIOUS
  <2>2. cola_exec # <<q>>
    BY <1>2, <1>7
  <2>3. cola_exec' # <<q>>
    BY <1>3, <2>1, <2>2, Zenon
  <2>4. pcb'[q] = pcb[q]
    BY <1>1, <1>4, <1>7
  <2>. QED
    BY <1>0, <2>2, <2>3, <2>4, OtroQuieto
<1>8. UNCHANGED <<contadores, valores>>
  BY <1>6, <1>7, TodosQuietos
<1>. QED
  BY <1>3, <1>8, EsQuieta

\* What a line of its file has done to the registers of a process.
LineaHecha(p, linea) ==
    LET r == linea.palabras[1][1] IN
    \/ linea.funcion # "SET" /\ Valor(p)' = Valor(p)
    \/ /\ linea.funcion = "SET" /\ r \in Range(REGISTROS)
       /\ Valor(p)' = [Valor(p) EXCEPT ![r] = Cortada(linea.palabras[2], ANCHO[r])]
    \/ /\ linea.funcion = "MOV_IN" /\ r \in Range(REGISTROS)
       /\ \E s : Len(s) <= ANCHO[r] /\ Valor(p)' = [Valor(p) EXCEPT ![r] = s]

\* A register of one process.
LEMMA UnRegistro ==
    ASSUME NEW p \in Proc, NEW r \in Range(REGISTROS), NEW s, Valor(p)' = [Valor(p) EXCEPT ![r] = s],
           \A q \in Proc : q # p => Valor(q)' = Valor(q)
    PROVE  valores' = [valores EXCEPT ![p][r] = s] /\ valores'[p][r] = s
<1>1. valores = [q \in Proc |-> Valor(q)] /\ valores' = [q \in Proc |-> Valor(q)']
  BY DEF valores
<1>2. Valor(p) = [x \in Range(REGISTROS) |-> Valor(p)[x]]
  BY DEF Valor
<1>3. valores'[p] = [valores[p] EXCEPT ![r] = s]
  BY <1>1
<1>4. valores'[p][r] = s
  BY <1>1, <1>2
<1>5. valores' = [valores EXCEPT ![p] = [valores[p] EXCEPT ![r] = s]]
  <2> DEFINE v == [valores EXCEPT ![p] = [valores[p] EXCEPT ![r] = s]]
  <2>1. v = [q \in Proc |-> v[q]]
    BY <1>1
  <2>2. v[p] = [valores[p] EXCEPT ![r] = s]
    BY <1>1
  <2>3. \A q \in Proc : q # p => v[q] = valores[q]
    BY <1>1
  <2> HIDE DEF v
  <2>4. \A q \in Proc : valores'[q] = v[q]
    BY <1>1, <1>3, <2>2, <2>3
  <2>5. v = valores'
    BY <1>1, <2>1, <2>4
  <2>. QED
    BY <2>5 DEF v
<1>. QED
  BY <1>4, <1>5

\* One line further, and the others as they were.
LEMMA AvanzaUna ==
    ASSUME LugaresBien, LugaresBien', NEW p \in Proc, cola_exec = <<p>>, UNCHANGED <<consolas, kernel>>,
           NEW n \in Nat, Contador(p) = n, Contador(p)' = n + 1, n < Len(archivo[p]),
           LineaHecha(p, archivo[p][n + 1])
    PROVE  Maquina!Ejecuta(p)
<1> DEFINE linea == archivo[p][n + 1]
           r == linea.palabras[1][1]
<1>1. \A q \in Proc : q # p => Quieto(q)
  <2>1. ASSUME NEW q \in Proc, q # p
        PROVE  cola_exec # <<q>> /\ cola_exec' # <<q>> /\ pcb'[q] = pcb[q]
    BY <2>1 DEF kernel
  <2>. QED
    BY <2>1, OtroQuieto
<1>2. contadores[p] = n /\ contadores' = [contadores EXCEPT ![p] = @ + 1]
  BY <1>1 DEF contadores, Quieto
<1>3. \A q \in Proc : q # p => Valor(q)' = Valor(q)
  BY <1>1 DEF Quieto
<1>4. CASE linea.funcion # "SET" /\ Valor(p)' = Valor(p)
  <2>1. UNCHANGED valores
    BY <1>3, <1>4 DEF valores
  <2>. QED
    BY <1>2, <1>4, <2>1, EsEjecuta DEF PasoDeLinea, consolas
<1>5. CASE /\ linea.funcion = "SET" /\ r \in Range(REGISTROS)
           /\ Valor(p)' = [Valor(p) EXCEPT ![r] = Cortada(linea.palabras[2], ANCHO[r])]
  <2>1. valores' = [valores EXCEPT ![p][r] = Cortada(linea.palabras[2], ANCHO[r])]
    <3>1. PICK x \in Range(REGISTROS) : x = r
      BY <1>5
    <3>2. PICK s : s = Cortada(linea.palabras[2], ANCHO[r])
      OBVIOUS
    <3>3. Valor(p)' = [Valor(p) EXCEPT ![x] = s]
      BY <1>5, <3>1, <3>2
    <3>4. valores' = [valores EXCEPT ![p][x] = s] /\ valores'[p][x] = s
      BY <1>3, <3>3, UnRegistro
    <3>. QED
      BY <3>1, <3>2, <3>4
  <2>. QED
    BY <1>2, <1>5, <2>1, EsEjecuta DEF PasoDeLinea, consolas
<1>6. CASE /\ linea.funcion = "MOV_IN" /\ r \in Range(REGISTROS)
           /\ \E s : Len(s) <= ANCHO[r] /\ Valor(p)' = [Valor(p) EXCEPT ![r] = s]
  <2>1. PICK s : Len(s) <= ANCHO[r] /\ Valor(p)' = [Valor(p) EXCEPT ![r] = s]
    BY <1>6
  <2>2. valores' = [valores EXCEPT ![p][r] = s] /\ valores'[p][r] = s
    <3>1. PICK x \in Range(REGISTROS) : x = r
      BY <1>6
    <3>2. Valor(p)' = [Valor(p) EXCEPT ![x] = s]
      BY <2>1, <3>1
    <3>3. valores' = [valores EXCEPT ![p][x] = s] /\ valores'[p][x] = s
      BY <1>3, <3>2, UnRegistro
    <3>. QED
      BY <3>1, <3>3
  <2>3. valores' = [valores EXCEPT ![p][r] = valores'[p][r]] /\ Len(valores'[p][r]) <= ANCHO[r]
    BY <2>1, <2>2
  <2>. QED
    BY <1>2, <1>6, <2>3, EsEjecuta DEF PasoDeLinea, consolas
<1>. QED
  BY <1>4, <1>5, <1>6 DEF LineaHecha

\* An instruction that gives the process back.
LEMMA SeDevuelveMaquina ==
    ASSUME CpuInv, CpuInv', NEW p \in Proc, SeDevuelve(p), cpu = "ejecuta",
           NombreDe(Instruccion) # "SET"
    PROVE  Maquina!Ejecuta(p)
<1> DEFINE n == proceso.program_counter
<1>0. LugaresBien /\ LugaresBien'
  BY Lugares, LugaresDespues
<1>1. /\ cola_exec = <<p>> /\ Corre(p) /\ EnCpu(p) /\ Admitido(p) /\ CpuVacia'
      /\ UNCHANGED <<consolas, kernel>>
  BY DEF SeDevuelve, Corre, Admitido
<1>2. PICK codigo, c, campos : /\ Respuesta(p, codigo, c, campos)'
                               /\ c.program_counter = n + 1
                               /\ Valores(c.registros) = Valores(registros_cpu)
  BY DEF SeDevuelve
<1>3. Contador(p) = n /\ Valor(p) = Valores(registros_cpu) /\ n \in Nat
  BY <1>0, <1>1, EnCpuAntes
<1>4. n + 1 \in 1..Len(archivo[p]) /\ EsDeLaLinea(Instruccion, archivo[p][n + 1])
  BY <1>1, LineaActual
<1>5. Contador(p)' = c.program_counter /\ Valor(p)' = Valores(c.registros)
  <2>1. cola_exec' = <<p>> /\ Corre(p)'
    BY <1>1 DEF Corre, kernel, consolas
  <2>. QED
    BY <1>0, <1>1, <1>2, <2>1 DEF LugaresBien, LugarDe
<1>6. archivo[p][n + 1].funcion # "SET"
  BY <1>4 DEF EsDeLaLinea
<1> HIDE DEF n
<1>7. n < Len(archivo[p])
  <2>1. Len(archivo[p]) \in Int \/ n + 1 \notin 1..Len(archivo[p])
    BY <1>1, ProgramaDe DEF ProgramaLeido
  <2>. QED
    BY <1>3, <1>4, <2>1
<1>8. LineaHecha(p, archivo[p][n + 1])
  BY <1>2, <1>3, <1>5, <1>6 DEF LineaHecha
<1>9. Contador(p)' = n + 1
  BY <1>2, <1>5 DEF n
<1>. QED
  BY <1>0, <1>1, <1>3, <1>7, <1>8, <1>9, AvanzaUna

\* MOV_OUT runs its line when it asks Memoria.
LEMMA ExecuteMovOutMaquina ==
    ASSUME CpuInv, CpuInv', ExecuteMovOut
    PROVE  \E p \in Proc : Maquina!Ejecuta(p)
<1> DEFINE n == proceso.program_counter
<1>0. LugaresBien /\ LugaresBien'
  BY Lugares, LugaresDespues
<1>1. PICK p \in Proc : cola_exec = <<p>> /\ Admitido(p) /\ EnCpu(p)
  BY EnEjecucion DEF ExecuteMovOut, Ejecuta
<1>2. /\ cpu = "ejecuta" /\ cpu' = "espera_escritura" /\ proceso' = Avanza
      /\ NombreDe(Instruccion) = "MOV_OUT"
      /\ UNCHANGED <<consolas, kernel, cola_exec, registros_cpu>>
  BY DEF ExecuteMovOut, Ejecuta, kernel
<1>3. proceso'.program_counter = n + 1
  BY <1>1, <1>2, Avanzado
<1>4. EnCpu(p)'
  BY <1>1, <1>2, SigueEnCpu
<1>5. Contador(p)' = proceso'.program_counter /\ Valor(p)' = Valores(registros_cpu')
  BY <1>0, <1>2, <1>4, EnCpuDespues
<1>6. Contador(p) = n /\ Valor(p) = Valores(registros_cpu) /\ n \in Nat
  BY <1>0, <1>1, <1>2, EnCpuAntes
<1>7. archivo[p][n + 1].funcion = "MOV_OUT" /\ n < Len(archivo[p])
  BY <1>1, <1>2, LineaActual DEF EsDeLaLinea, EnCpu, PuedeSeguir
<1>8. LineaHecha(p, archivo[p][n + 1])
  BY <1>2, <1>5, <1>6, <1>7 DEF LineaHecha
<1>9. Contador(p)' = n + 1
  BY <1>3, <1>5
<1> HIDE DEF n
<1>10. PICK m \in Nat : m = n
  BY <1>6
<1>. QED
  BY <1>0, <1>1, <1>2, <1>6, <1>7, <1>8, <1>9, <1>10, AvanzaUna

\* SET runs its line.
LEMMA ExecuteSetMaquina ==
    ASSUME CpuInv, CpuInv', ExecuteSet
    PROVE  \E p \in Proc : Maquina!Ejecuta(p)
<1> DEFINE n == proceso.program_counter
           r == Instruccion.parametros[1][1]
           s == Instruccion.parametros[2]
<1>0. LugaresBien /\ LugaresBien'
  BY Lugares, LugaresDespues
<1>1. PICK p \in Proc : cola_exec = <<p>> /\ Admitido(p) /\ EnCpu(p)
  BY EnEjecucion DEF ExecuteSet, Ejecuta
<1>2. /\ cpu = "ejecuta" /\ cpu' = "ejecuta" /\ proceso' = Avanza
      /\ NombreDe(Instruccion) = "SET" /\ registros_cpu' = SetValorRegistro(r, s)
      /\ UNCHANGED <<consolas, kernel, cola_exec>>
  BY DEF ExecuteSet, Ejecuta, kernel
<1>3. proceso'.program_counter = n + 1
  BY <1>1, <1>2, Avanzado
<1>4. EnCpu(p)'
  BY <1>1, <1>2, SigueEnCpu
<1>5. Contador(p)' = proceso'.program_counter /\ Valor(p)' = Valores(registros_cpu')
  BY <1>0, <1>2, <1>4, EnCpuDespues
<1>6. Contador(p) = n /\ Valor(p) = Valores(registros_cpu) /\ n \in Nat
  BY <1>0, <1>1, <1>2, EnCpuAntes
<1>7. EsDeLaLinea(Instruccion, archivo[p][n + 1]) /\ n < Len(archivo[p])
  BY <1>1, LineaActual DEF EnCpu, PuedeSeguir
<1>8. r \in Range(REGISTROS) /\ s \in Seq(Letra)
  BY <1>2, <1>7 DEF EsDeLaLinea, InstruccionBien
<1>9. archivo[p][n + 1].funcion = "SET" /\ r = archivo[p][n + 1].palabras[1][1]
      /\ s = archivo[p][n + 1].palabras[2]
  BY <1>2, <1>7 DEF EsDeLaLinea, Cantidad
<1> HIDE DEF n, r, s
<1>10. Valores(registros_cpu') = [Valor(p) EXCEPT ![r] = Cortada(s, ANCHO[r])]
  <2>1. RegistrosBien(registros_cpu)
    BY DEF CpuInv
  <2>2. Valores(SetValorRegistro(r, s)) = [Valores(registros_cpu) EXCEPT ![r] = Cortada(s, ANCHO[r])]
    BY <1>8, <2>1, SetValorBien
  <2>. QED
    BY <1>2, <1>6, <2>2
<1>11. LineaHecha(p, archivo[p][n + 1])
  BY <1>5, <1>8, <1>9, <1>10 DEF LineaHecha
<1>12. Contador(p)' = n + 1
  BY <1>3, <1>5 DEF n
<1>13. PICK m \in Nat : m = n
  BY <1>6
<1>. QED
  BY <1>0, <1>1, <1>2, <1>6, <1>7, <1>11, <1>12, <1>13, AvanzaUna

\* MOV_IN runs its line when Memoria answers.
LEMMA CpuLeidoMaquina ==
    ASSUME CpuInv, CpuInv', CpuLeido
    PROVE  \E p \in Proc : Maquina!Ejecuta(p)
<1> DEFINE k == proceso.program_counter
           r == Pasada.parametros[1][1]
           s == RecibirString(desde_memoria).valor
<1>0. LugaresBien /\ LugaresBien'
  BY Lugares, LugaresDespues
<1>1. /\ cpu = "espera_lectura" /\ cpu' = "ejecuta" /\ registros_cpu' = SetValorRegistro(r, s)
      /\ UNCHANGED <<consolas, kernel, cola_exec, proceso>>
  BY DEF CpuLeido, Pasada, kernel
<1>2. PICK p \in Proc : cola_exec = <<p>> /\ Admitido(p) /\ EnCpu(p)
  BY <1>1, Ocupada DEF CpuOcupada
<1>3. Lee(p) /\ \E t \in Seq(Letra) : desde_memoria = Mensaje(t)
  BY <1>2 DEF EnCpu, CpuLeido, MemoriaCallada, Lee, Escribe
<1>4. s \in Seq(Letra)
  <2>1. PICK t \in Seq(Letra) : desde_memoria = Mensaje(t)
    BY <1>3
  <2>2. t \in Seq(Int \cup Byte)
    BY LetraTipo, SeqMonotonic
  <2>. QED
    BY <2>1, <2>2, LeeMensajeSolo
<1>5. EnCpu(p)'
  BY <1>1, <1>2, SigueEnCpu
<1>6. Contador(p)' = k /\ Valor(p)' = Valores(registros_cpu')
  <2>1. Contador(p)' = proceso'.program_counter /\ Valor(p)' = Valores(registros_cpu')
    BY <1>0, <1>1, <1>5, EnCpuDespues
  <2>. QED
    BY <1>1, <2>1
<1>7. Contador(p) = k - 1 /\ Valor(p) = Valores(registros_cpu) /\ k \in Nat /\ k > 0
  BY <1>0, <1>1, <1>2, <1>3, EnCpuAntes DEF Lee
<1>8. InstruccionBien(Pasada) /\ EsDeLaLinea(Pasada, archivo[p][k]) /\ NombreDe(Pasada) = "MOV_IN"
      /\ k < Len(archivo[p])
  BY <1>2, <1>3, <1>7, LineaActual DEF Lee, EnCpu, PuedeSeguir
<1>9. r \in Range(REGISTROS) /\ archivo[p][k].funcion = "MOV_IN" /\ r = archivo[p][k].palabras[1][1]
  BY <1>8 DEF EsDeLaLinea, InstruccionBien, Cantidad
<1>10. Len(archivo[p]) \in Int
  BY <1>2, ProgramaDe DEF ProgramaLeido
<1> HIDE DEF k, r, s
<1>11. PICK n \in Nat : n = k - 1
  BY <1>7
<1>12. n + 1 = k /\ n < Len(archivo[p])
  BY <1>7, <1>8, <1>10, <1>11
<1>13. Valores(registros_cpu') = [Valor(p) EXCEPT ![r] = Cortada(s, ANCHO[r])]
       /\ Len(Cortada(s, ANCHO[r])) <= ANCHO[r]
  <2>1. RegistrosBien(registros_cpu)
    BY DEF CpuInv
  <2>2. Valores(SetValorRegistro(r, s)) = [Valores(registros_cpu) EXCEPT ![r] = Cortada(s, ANCHO[r])]
    BY <1>4, <1>9, <2>1, SetValorBien
  <2>3. ANCHO[r] \in Nat
    BY <1>9, RegistrosTipo
  <2>4. Len(Cortada(s, ANCHO[r])) <= ANCHO[r]
    <3>1. PICK a \in Nat : a = ANCHO[r]
      BY <2>3
    <3>2. PICK l \in 0..a : Len(Cortada(s, a)) = l
      BY <1>4, CortadaTipo
    <3>. QED
      BY <3>1, <3>2
  <2>. QED
    BY <1>1, <1>7, <2>2, <2>4
<1>14. LineaHecha(p, archivo[p][n + 1])
  BY <1>6, <1>9, <1>12, <1>13 DEF LineaHecha
<1>15. Contador(p)' = n + 1 /\ Contador(p) = n
  BY <1>6, <1>7, <1>11, <1>12
<1>. QED
  BY <1>0, <1>1, <1>2, <1>12, <1>14, <1>15, AvanzaUna

\* The instructions that give the process back run their line.
LEMMA DevueltoMaquina ==
    ASSUME CpuInv, CpuInv',
           SegFault \/ ExecuteSinCampos \/ ExecuteConEnteros \/ ExecuteConNombre \/ ExecuteAccesoArchivo
    PROVE  \E p \in Proc : Maquina!Ejecuta(p)
<1>1. cpu = "ejecuta" /\ NombreDe(Instruccion) # "SET"
  BY DEF SegFault, ExecuteSinCampos, ExecuteConEnteros, ExecuteConNombre, ExecuteAccesoArchivo,
         Ejecuta, ConDireccion
<1>2. PICK p \in Proc : SeDevuelve(p)
  BY SegFaultInv, ExecuteSinCamposInv, ExecuteConEnterosInv, ExecuteConNombreInv,
     ExecuteAccesoArchivoInv
<1>. QED
  BY <1>1, <1>2, SeDevuelveMaquina

\* A step of the system is a line of some process, a new file, or nothing to the machine.
LEMMA MaquinaPaso == CpuInv /\ CpuInv' /\ [Next]_vars => [Maquina!Next]_(Maquina!vars)
<1> SUFFICES ASSUME CpuInv, CpuInv', [Next]_vars
             PROVE  Maquina!Next \/ UNCHANGED Maquina!vars
  BY Zenon
<1>1. CASE \E p \in Proc : ConsolaEnvia(p)
  BY <1>1, ConsolaEnviaMaquina DEF Maquina!Next
<1>2. CASE \E p \in Proc : KernelCreaProceso(p)
  BY <1>2, KernelCreaProcesoMaquina
<1>3. CASE ExecuteSet \/ CpuLeido \/ ExecuteMovOut \/ SegFault \/ ExecuteSinCampos
           \/ ExecuteConEnteros \/ ExecuteConNombre \/ ExecuteAccesoArchivo
  <2>1. \E p \in Proc : Maquina!Ejecuta(p)
    BY <1>3, ExecuteSetMaquina, CpuLeidoMaquina, ExecuteMovOutMaquina, DevueltoMaquina
  <2>. QED
    BY <2>1 DEF Maquina!Next
<1>4. CASE CpuRecibeContexto \/ ExecuteMovIn \/ Despacha
  BY <1>4, CpuRecibeContextoMaquina, ExecuteMovInMaquina, DespachaMaquina
<1>5. CASE CpuCae \/ CpuEscrito \/ MemoryReadAdress \/ MemoryWriteAdress \/ UNCHANGED vars
  BY <1>5, CpuQuieta
<1>6. CASE ManejarRespuestaCpu
  <2>1. PICK p \in Proc : Atendido(p)
    BY <1>6, ProcesarFinInv, ProcesarYieldInv, ProcesarIOInv, ProcesarConNombreInv, ProcesarFSeekInv,
       ProcesarFTruncateInv, ProcesarAccesoInv, ProcesarCreateSegmentInv, ProcesarDeleteSegmentInv,
       ProcesarInesperadaInv DEF ManejarRespuestaCpu
  <2>. QED
    BY <2>1, AtendidoMaquina
<1>. QED
  BY <1>1, <1>2, <1>3, <1>4, <1>5, <1>6 DEF Next, CicloDeInstruccion

\* MaquinaRespetada: Cpu implements MaquinaPropia.  Through the parser, the serialisation
\* and the turns of the others in the CPU, a process runs the lines of its file in order
\* and its registers change only by its own lines (cpu.c:109-170, estructuras.c,
\* i_cpu.c:25-28).
THEOREM MaquinaRespetadaSiempre == Spec => MaquinaRespetada
<1>. QED
  BY InvCpuSiempre, MaquinaInicial, MaquinaPaso, PTL DEF Spec, MaquinaRespetada, Maquina!SpecMaquina

=============================================================================

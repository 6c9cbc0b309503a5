------------------------------ MODULE Pliegues ------------------------------
(***************************************************************************)
(* Least elements, induction over an initial segment of the naturals, and  *)
(* the folds over the positions of a list, and RemoveAt: what the proofs   *)
(* about the lists of Memoria, the blocks of the FileSystem and the CPU    *)
(* share.                                                                  *)
(***************************************************************************)
EXTENDS Integers, Sequences, SequencesExt, FiniteSetsExt, SequenceTheorems,
        WellFoundedInduction, TLAPS

-----------------------------------------------------------------------------
\* Every set of naturals has a least element.
LEMMA BuenOrden ==
    ASSUME NEW S, S \subseteq Nat, S # {}
    PROVE  \E m \in S : \A k \in S : m <= k
<1> DEFINE R == OpToRel(<, Nat)
<1>1. IsWellFoundedOn(R, Nat)
  BY NatLessThanWellFounded
<1>2. \A k, m \in Nat : k < m => <<k, m>> \in R
  BY DEF OpToRel
<1> HIDE DEF R
<1>3. PICK m \in S : \A k \in S : ~ (<<k, m>> \in R)
  BY <1>1, WFMin
<1>4. ASSUME NEW k \in S
      PROVE  m <= k
  <2>1. k \in Nat /\ m \in Nat /\ ~(k < m)
    BY <1>2, <1>3
  <2>. QED
    BY <2>1
<1>. QED
  BY <1>4

\* The least element is the one Min chooses.
LEMMA MinimoDe ==
    ASSUME NEW S, S \subseteq Nat, S # {}
    PROVE  Min(S) \in S /\ \A k \in S : Min(S) <= k
<1>1. PICK m \in S : \A k \in S : m <= k
  BY BuenOrden
<1> DEFINE EsMinimo(x) == \A y \in S : x <= y
<1>2. EsMinimo(m)
  BY <1>1
<1>3. Min(S) = CHOOSE x \in S : EsMinimo(x)
  BY DEF Min
<1> HIDE DEF EsMinimo
<1>4. Min(S) \in S /\ EsMinimo(Min(S))
  BY <1>2, <1>3
<1>. QED
  BY <1>4 DEF EsMinimo

\* And Max, where there is a bound.
LEMMA MaximoDe ==
    ASSUME NEW S, S \subseteq Nat, S # {}, NEW n \in Nat, \A k \in S : k <= n
    PROVE  Max(S) \in S /\ \A k \in S : k <= Max(S)
<1> DEFINE T == {n - k : k \in S}
<1>1. T \subseteq Nat /\ T # {}
  <2>1. \A k \in S : k \in Nat /\ k <= n /\ n - k \in Nat
    OBVIOUS
  <2>. QED
    BY <2>1
<1> HIDE DEF T
<1>2. PICK t \in T : \A u \in T : t <= u
  BY <1>1, BuenOrden
<1> USE DEF T
<1>3. PICK m \in S : t = n - m
  BY <1>2
<1>4. \A k \in S : n - m <= n - k
  BY <1>2, <1>3
<1>5. \A k \in S : k <= m
  BY <1>4
<1>. QED
  BY <1>5 DEF Max

\* What holds at the start and passes from each prefix to the next holds to the end.
LEMMA InduccionHasta ==
    ASSUME NEW n \in Nat, NEW S, 0 \in S, \A k \in 0..(n - 1) : k \in S => k + 1 \in S
    PROVE  \A k \in 0..n : k \in S
<1> SUFFICES ASSUME NEW c \in 0..n, c \notin S
             PROVE  FALSE
  OBVIOUS
<1> DEFINE T == (0..n) \ S
<1>1. T \subseteq Nat /\ T # {}
  OBVIOUS
<1> HIDE DEF T
<1>2. PICK m \in T : \A k \in T : m <= k
  BY <1>1, BuenOrden
<1> USE DEF T
<1>3. /\ m \in 0..n /\ m \notin S /\ m # 0
      /\ m - 1 \in 0..(n - 1)
  BY <1>2
<1>4. m - 1 \in S
  BY <1>2, <1>3
<1>. QED
  BY <1>3, <1>4

-----------------------------------------------------------------------------
(* Folds over sets of positions *)

\* The values of a fold, one for each set of positions, and a family of sets for them.
EsPliegue(g, n, base, F, P) ==
    /\ DOMAIN g = SUBSET (1..n)
    /\ g = [s \in DOMAIN g |-> g[s]]
    /\ g[{}] = base
    /\ \A s \in SUBSET (1..n) : /\ g[s] \in P[s]
                                /\ s # {} => g[s] = F[<<g[s \ {Max(s)}], Max(s)>>]

\* They exist and stay in the family when every step takes one to the next.
LEMMA Pliegue ==
    ASSUME NEW n \in Nat, NEW base, NEW F, NEW P,
           base \in P[{}],
           \A m \in 1..n : \A s \in SUBSET (1..(m - 1)) : \A x \in P[s] :
              F[<<x, m>>] \in P[s \cup {m}]
    PROVE  \E g : EsPliegue(g, n, base, F, P)
<1> DEFINE Bien(m, g) == EsPliegue(g, m, base, F, P)
           Q == {m \in 0..n : \E g : Bien(m, g)}
<1>1. 0 \in Q
  <2> DEFINE g == [s \in SUBSET (1..0) |-> base]
  <2>1. SUBSET (1..0) = {{}}
    <3>1. 1..0 = {}
      OBVIOUS
    <3>. QED
      BY <3>1
  <2>2. Bien(0, g)
    BY <2>1 DEF EsPliegue
  <2>3. 0 \in 0..n
    OBVIOUS
  <2> HIDE DEF Bien, g
  <2>. QED
    BY <2>2, <2>3
<1>2. ASSUME NEW m \in 0..(n - 1), m \in Q
      PROVE  m + 1 \in Q
  <2> DEFINE M == m + 1
  <2>1. PICK g : Bien(m, g)
    BY <1>2
  <2>2. /\ m \in Nat /\ M \in 1..n /\ M - 1 = m
        /\ 1..m \subseteq 1..M /\ M \notin 1..m
        /\ \A i \in 1..M : i # M => i \in 1..m
    OBVIOUS
  <2> DEFINE h == [s \in SUBSET (1..M) |-> IF M \in s THEN F[<<g[s \ {M}], M>>] ELSE g[s]]
  <2>3. ASSUME NEW s \in SUBSET (1..M), M \in s
        PROVE  Max(s) = M /\ s \ {M} \in SUBSET (1..m)
    <3>1. s \subseteq Nat /\ s # {} /\ (\A i \in s : i <= M) /\ M \in Nat
      BY <2>2, <2>3
    <3> HIDE DEF M
    <3>2. Max(s) \in s /\ \A i \in s : i <= Max(s)
      BY <3>1, MaximoDe
    <3>3. Max(s) \in Nat /\ Max(s) <= M /\ M <= Max(s)
      BY <2>3, <3>1, <3>2
    <3>4. Max(s) = M
      BY <3>1, <3>3
    <3>. QED
      BY <2>2, <3>4
  <2>4. ASSUME NEW s \in SUBSET (1..M), M \notin s
        PROVE  /\ s \in SUBSET (1..m)
               /\ s # {} => Max(s) \in s
    <3>1. s \in SUBSET (1..m)
      BY <2>2, <2>4
    <3>2. s \subseteq Nat /\ (\A i \in s : i <= m)
      BY <2>2, <3>1
    <3>. QED
      BY <2>2, <3>1, <3>2, MaximoDe
  <2> HIDE DEF M
  <2>5. \A s \in SUBSET (1..M) : h[s] = IF M \in s THEN F[<<g[s \ {M}], M>>] ELSE g[s]
    OBVIOUS
  <2>6. /\ DOMAIN h = SUBSET (1..M) /\ h = [s \in DOMAIN h |-> h[s]]
    OBVIOUS
  <2> HIDE DEF h
  <2>7. /\ g[{}] = base
        /\ \A s \in SUBSET (1..m) : /\ g[s] \in P[s]
                                    /\ s # {} => g[s] = F[<<g[s \ {Max(s)}], Max(s)>>]
    BY <2>1 DEF EsPliegue
  <2> HIDE DEF Bien, Q
  <2>8. h[{}] = base
    BY <2>5, <2>7
  <2>9. ASSUME NEW s \in SUBSET (1..M)
        PROVE  /\ h[s] \in P[s]
               /\ s # {} => h[s] = F[<<h[s \ {Max(s)}], Max(s)>>]
    <3>1. CASE M \in s
      <4>1. /\ Max(s) = M /\ s \ {M} \in SUBSET (1..m) /\ M \notin s \ {M}
            /\ s \ {M} \in SUBSET (1..M) /\ (s \ {M}) \cup {M} = s
        BY <2>3, <3>1
      <4>2. h[s] = F[<<g[s \ {M}], M>>] /\ h[s \ {M}] = g[s \ {M}]
        BY <2>5, <3>1, <4>1
      <4>3. g[s \ {M}] \in P[s \ {M}]
        BY <2>7, <4>1
      <4>4. F[<<g[s \ {M}], M>>] \in P[s]
        <5>1. M \in 1..n /\ s \ {M} \in SUBSET (1..(M - 1))
          BY <2>2, <4>1
        <5>2. F[<<g[s \ {M}], M>>] \in P[(s \ {M}) \cup {M}]
          BY <4>3, <5>1
        <5>. QED
          BY <4>1, <5>2
      <4>. QED
        BY <4>1, <4>2, <4>4
    <3>2. CASE M \notin s
      <4>1. s \in SUBSET (1..m) /\ h[s] = g[s]
        BY <2>4, <2>5, <3>2
      <4>2. s # {} => h[s \ {Max(s)}] = g[s \ {Max(s)}]
        <5>1. s \ {Max(s)} \in SUBSET (1..M) /\ M \notin s \ {Max(s)}
          BY <3>2
        <5>. QED
          BY <2>5, <5>1
      <4>. QED
        BY <2>7, <4>1, <4>2
    <3>. QED
      BY <3>1, <3>2
  <2>10. Bien(M, h)
    BY <2>6, <2>8, <2>9 DEF Bien, EsPliegue
  <2>11. M \in 0..n
    BY <2>2
  <2>. QED
    BY <2>10, <2>11 DEF Q, M
<1> HIDE DEF Q
<1>3. \A m \in 0..n : m \in Q
  <2>1. \A m \in 0..(n - 1) : m \in Q => m + 1 \in Q
    BY <1>2
  <2> HIDE DEF Bien
  <2>. QED
    BY <1>1, <2>1, InduccionHasta, Zenon
<1>4. n \in Q
  BY <1>3
<1>. QED
  BY <1>4 DEF Q

\* The greatest of a set of positions is one of them.
LEMMA MaximoEnPosiciones ==
    ASSUME NEW n \in Nat, NEW s \in SUBSET (1..n), s # {}
    PROVE  Max(s) \in s /\ Max(s) \in 1..n
<1>1. s \subseteq Nat /\ \A i \in s : i <= n
  OBVIOUS
<1>2. Max(s) \in s
  BY <1>1, MaximoDe
<1>. QED
  BY <1>2

\* What passes from a set of positions to the next holds of every one of them.
LEMMA PliegueDentro ==
    ASSUME NEW n \in Nat, NEW f, NEW P, f[{}] \in P[{}],
           \A s \in SUBSET (1..n) :
              s # {} /\ f[s \ {Max(s)}] \in P[s \ {Max(s)}] => f[s] \in P[s]
    PROVE  f[1..n] \in P[1..n]
<1> DEFINE Q == {m \in 0..n : \A s \in SUBSET (1..m) : f[s] \in P[s]}
<1>1. 0 \in Q
  <2>1. SUBSET (1..0) = {{}} /\ 0 \in 0..n
    <3>1. 1..0 = {}
      OBVIOUS
    <3>. QED
      BY <3>1
  <2>. QED
    BY <2>1
<1>2. ASSUME NEW m \in 0..(n - 1), m \in Q
      PROVE  m + 1 \in Q
  <2>1. ASSUME NEW s \in SUBSET (1..(m + 1)), s # {}
        PROVE  s \in SUBSET (1..n) /\ s \ {Max(s)} \in SUBSET (1..m)
    <3>1. s \subseteq Nat /\ (\A i \in s : i <= m + 1) /\ m \in Nat /\ m + 1 \in Nat
      OBVIOUS
    <3>2. Max(s) \in s /\ \A i \in s : i <= Max(s)
      BY <2>1, <3>1, MaximoDe
    <3>3. ASSUME NEW i \in s, i # Max(s)
          PROVE  i \in 1..m
      <4>1. i <= Max(s) /\ Max(s) \in 1..(m + 1) /\ i \in 1..(m + 1)
        BY <3>2
      <4>. QED
        BY <3>1, <3>3, <4>1
    <3>4. s \in SUBSET (1..n)
      OBVIOUS
    <3>. QED
      BY <3>3, <3>4
  <2>2. ASSUME NEW s \in SUBSET (1..(m + 1))
        PROVE  f[s] \in P[s]
    <3>1. CASE s = {}
      BY <3>1
    <3>2. CASE s # {}
      <4>1. s \in SUBSET (1..n) /\ f[s \ {Max(s)}] \in P[s \ {Max(s)}]
        BY <1>2, <2>1, <3>2
      <4>. QED
        BY <3>2, <4>1
    <3>. QED
      BY <3>1, <3>2
  <2>3. m + 1 \in 0..n
    OBVIOUS
  <2>. QED
    BY <2>2, <2>3
<1>3. \A m \in 0..n : m \in Q
  <2>1. \A m \in 0..(n - 1) : m \in Q => m + 1 \in Q
    BY <1>2
  <2> HIDE DEF Q
  <2>. QED
    BY <1>1, <2>1, InduccionHasta, Zenon
<1>4. n \in Q
  <2>1. n \in 0..n
    OBVIOUS
  <2> HIDE DEF Q
  <2>. QED
    BY <1>3, <2>1
<1>. QED
  BY <1>4

\* RemoveAt leaves the others in their order.
LEMMA RemoveAtProperties ==
    ASSUME NEW S, NEW s \in Seq(S), NEW k \in 1..Len(s)
    PROVE  /\ RemoveAt(s, k) \in Seq(S)
           /\ Len(RemoveAt(s, k)) = Len(s) - 1
           /\ \A i \in 1..(Len(s) - 1) :
                 RemoveAt(s, k)[i] = IF i < k THEN s[i] ELSE s[i + 1]
<1> DEFINE a == SubSeq(s, 1, k - 1)
           b == SubSeq(s, k + 1, Len(s))
<1>1. Len(s) \in Nat /\ \A i \in 1..Len(s) : s[i] \in S
  BY LenProperties, ElementOfSeq
<1>2. /\ a \in Seq(S) /\ Len(a) = k - 1
      /\ \A i \in 1..(k - 1) : a[i] = s[i]
  <2>1. /\ 1 \in Int /\ k - 1 \in Int
        /\ \A i \in 1..(k - 1) : s[i] \in S
    BY <1>1
  <2>2. /\ a \in Seq(S)
        /\ Len(a) = IF 1 <= k - 1 THEN k - 1 - 1 + 1 ELSE 0
        /\ \A i \in 1..(k - 1 - 1 + 1) : a[i] = s[1 + i - 1]
    BY <2>1, SubSeqProperties
  <2>. QED
    BY <1>1, <2>2
<1>3. /\ b \in Seq(S) /\ Len(b) = Len(s) - k
      /\ \A i \in 1..(Len(s) - k) : b[i] = s[k + i]
  <2>1. /\ k + 1 \in Int /\ Len(s) \in Int
        /\ \A i \in (k + 1)..Len(s) : s[i] \in S
    BY <1>1
  <2>2. /\ b \in Seq(S)
        /\ Len(b) = IF k + 1 <= Len(s) THEN Len(s) - (k + 1) + 1 ELSE 0
        /\ \A i \in 1..(Len(s) - (k + 1) + 1) : b[i] = s[k + 1 + i - 1]
    BY <2>1, SubSeqProperties
  <2>. QED
    BY <1>1, <2>2
<1> HIDE DEF a, b
<1>4. /\ a \o b \in Seq(S)
      /\ Len(a \o b) = Len(a) + Len(b)
      /\ \A i \in 1..(Len(a) + Len(b)) :
            (a \o b)[i] = IF i <= Len(a) THEN a[i] ELSE b[i - Len(a)]
  BY <1>2, <1>3, ConcatProperties
<1>5. RemoveAt(s, k) = a \o b
  BY DEF RemoveAt, a, b
<1>6. ASSUME NEW i \in 1..(Len(s) - 1)
      PROVE  (a \o b)[i] = IF i < k THEN s[i] ELSE s[i + 1]
  <2>1. i \in 1..(Len(a) + Len(b))
    BY <1>1, <1>2, <1>3
  <2>2. CASE i < k
    BY <1>1, <1>2, <1>4, <2>1, <2>2
  <2>3. CASE ~(i < k)
    <3>1. i - Len(a) \in 1..(Len(s) - k) /\ ~(i <= Len(a)) /\ k + (i - Len(a)) = i + 1
      BY <1>1, <1>2, <2>3
    <3>. QED
      BY <1>3, <1>4, <2>1, <2>3, <3>1
  <2>. QED
    BY <2>2, <2>3
<1>7. Len(a \o b) = Len(s) - 1
  BY <1>1, <1>2, <1>3, <1>4
<1>. QED
  BY <1>4, <1>5, <1>6, <1>7

=============================================================================

----------------------------- MODULE ListaProofs ----------------------------
(* The inductive invariant of Lista: the nodes of each list, in order, as a  *)
(* sequence of the heap.  With it, the lists implement Secuencia.            *)
(* At the end, list_sort of ListaOrdenar.                                    *)
EXTENDS Lista, ListaOrdenar, FiniteSetTheorems, SequenceTheorems, WellFoundedInduction, TLAPS

-----------------------------------------------------------------------------
(* Lists as sequences of nodes                                             *)

\* W[l] are the nodes of l from its head to the one that links to NULL; no node is twice in
\* them and all the nodes allocated are in one.
Enlazadas(nd, hd, ec, W) ==
  /\ \A l \in Listas : ec[l] \in Nat /\ W[l] \in [1 .. ec[l] -> DOMAIN nd]
  /\ \A l \in Listas : hd[l] = IF ec[l] = 0 THEN NULL ELSE W[l][1]
  /\ \A l \in Listas : \A i \in 1 .. ec[l] :
       nd[W[l][i]].next = IF i = ec[l] THEN NULL ELSE W[l][i + 1]
  /\ \A l, m \in Listas : \A i \in 1 .. ec[l], j \in 1 .. ec[m] :
       W[l][i] = W[m][j] => l = m /\ i = j
  /\ \A n \in DOMAIN nd : \E l \in Listas : \E i \in 1 .. ec[l] : n = W[l][i]

\* The sequence s, of length c, with n after its first i, and without the one after them.
Insertada(s, c, i, n) ==
  [j \in 1 .. c + 1 |-> IF j <= i THEN s[j] ELSE IF j = i + 1 THEN n ELSE s[j - 1]]
Extraida(s, c, i) == [j \in 1 .. c - 1 |-> IF j <= i THEN s[j] ELSE s[j + 1]]

\* What a walk of i links from the head of l reaches: its node, NULL at the end, and past it
\* what is no address.
LEMMA NodoEs ==
  ASSUME NEW l, NEW c \in Nat, NEW s,
         head[l] = (IF c = 0 THEN NULL ELSE s[1]),
         \A i \in 1 .. c : Siguiente(s[i]) = IF i = c THEN NULL ELSE s[i + 1],
         Siguiente(NULL) = Basura, Siguiente(Basura) = Basura
  PROVE  \A i \in Nat : Nodo(l, i) = IF i < c THEN s[i + 1] ELSE IF i = c THEN NULL ELSE Basura
<1> DEFINE F == [k \in Nat |-> IF k < c THEN s[k + 1] ELSE IF k = c THEN NULL ELSE Basura]
           N == CHOOSE f : f = [k \in Nat |-> IF k = 0 THEN head[l] ELSE Siguiente(f[k - 1])]
<1>1. F = [k \in Nat |-> IF k = 0 THEN head[l] ELSE Siguiente(F[k - 1])]
  <2>1. ASSUME NEW k \in Nat
        PROVE  F[k] = IF k = 0 THEN head[l] ELSE Siguiente(F[k - 1])
    <3>1. CASE k = 0
      BY <3>1
    <3>2. CASE k # 0
      <4>1. /\ k - 1 \in Nat
            /\ F[k - 1] = IF k - 1 < c THEN s[k] ELSE IF k - 1 = c THEN NULL ELSE Basura
        BY <3>2
      <4>2. CASE k <= c
        BY <3>2, <4>1, <4>2
      <4>3. CASE k > c
        BY <3>2, <4>1, <4>3
      <4> QED
        BY <4>2, <4>3
    <3> QED
      BY <3>1, <3>2
  <2> HIDE DEF F
  <2>2. F = [k \in Nat |-> F[k]]
    BY DEF F
  <2> QED
    BY <2>1, <2>2
<1> HIDE DEF F
<1>2. N = [k \in Nat |-> IF k = 0 THEN head[l] ELSE Siguiente(N[k - 1])]
  BY <1>1
<1>3. \A i : Nodo(l, i) = N[i]
  BY DEF Nodo
<1> HIDE DEF N
<1> DEFINE D == {k \in Nat : N[k] # F[k]}
<1>4. D = {}
  <2> SUFFICES ASSUME D # {} PROVE FALSE
    OBVIOUS
  <2>1. PICK m \in D : \A k \in D : ~(<<k, m>> \in OpToRel(<, Nat))
    BY NatLessThanWellFounded, WFMin
  <2>2. m \in Nat /\ m # 0 /\ m - 1 \in Nat
    BY <1>1, <1>2
  <2>3. m - 1 \notin D
    <3>1. <<m - 1, m>> \in OpToRel(<, Nat)
      BY <2>2 DEF OpToRel
    <3> QED
      BY <2>1, <3>1
  <2>4. N[m - 1] = F[m - 1]
    BY <2>2, <2>3
  <2>5. N[m] = Siguiente(N[m - 1])
    BY <1>2, <2>2
  <2>6. F[m] = Siguiente(F[m - 1])
    BY <1>1, <2>2
  <2> QED
    BY <2>1, <2>4, <2>5, <2>6
<1> QED
  BY <1>3, <1>4 DEF F

-----------------------------------------------------------------------------
(* One node more, one node less                                            *)

\* The links and counts of a heap with n after the first i nodes of l.
Enlaza(nd, hd, ec, W, l, i, n, nd2, hd2, ec2, W2) ==
  /\ n \notin DOMAIN nd /\ DOMAIN nd2 = DOMAIN nd \union {n}
  /\ nd2[n].next = IF i = ec[l] THEN NULL ELSE W[l][i + 1]
  /\ i > 0 => nd2[W[l][i]].next = n
  /\ \A x \in DOMAIN nd : (i = 0 \/ x # W[l][i]) => nd2[x].next = nd[x].next
  /\ hd2[l] = (IF i = 0 THEN n ELSE hd[l])
  /\ \A k \in Listas : k # l => hd2[k] = hd[k]
  /\ ec2[l] = ec[l] + 1
  /\ \A k \in Listas : k # l => ec2[k] = ec[k]
  /\ W2[l] = Insertada(W[l], ec[l], i, n)
  /\ \A k \in Listas : k # l => W2[k] = W[k]

\* The links and counts of a heap without the node after the first i of l.
Desenlaza(nd, hd, ec, W, l, i, nd2, hd2, ec2, W2) ==
  /\ DOMAIN nd2 = DOMAIN nd \ {W[l][i + 1]}
  /\ i > 0 => nd2[W[l][i]].next = nd[W[l][i + 1]].next
  /\ \A x \in DOMAIN nd2 : (i = 0 \/ x # W[l][i]) => nd2[x].next = nd[x].next
  /\ hd2[l] = (IF i = 0 THEN nd[W[l][1]].next ELSE hd[l])
  /\ \A k \in Listas : k # l => hd2[k] = hd[k]
  /\ ec2[l] = ec[l] - 1
  /\ \A k \in Listas : k # l => ec2[k] = ec[k]
  /\ W2[l] = Extraida(W[l], ec[l], i)
  /\ \A k \in Listas : k # l => W2[k] = W[k]

LEMMA Insercion ==
  ASSUME NEW nd, NEW hd, NEW ec, NEW W, Enlazadas(nd, hd, ec, W), NEW l \in Listas,
         NEW i \in 0 .. ec[l], NEW n, NEW nd2, NEW hd2, NEW ec2, NEW W2,
         Enlaza(nd, hd, ec, W, l, i, n, nd2, hd2, ec2, W2)
  PROVE  Enlazadas(nd2, hd2, ec2, W2)
<1> SUFFICES ASSUME n \notin DOMAIN nd, DOMAIN nd2 = DOMAIN nd \union {n},
                    nd2[n].next = IF i = ec[l] THEN NULL ELSE W[l][i + 1],
                    i > 0 => nd2[W[l][i]].next = n,
                    \A x \in DOMAIN nd : (i = 0 \/ x # W[l][i]) => nd2[x].next = nd[x].next,
                    hd2[l] = (IF i = 0 THEN n ELSE hd[l]),
                    \A k \in Listas : k # l => hd2[k] = hd[k],
                    ec2[l] = ec[l] + 1,
                    \A k \in Listas : k # l => ec2[k] = ec[k],
                    W2[l] = Insertada(W[l], ec[l], i, n),
                    \A k \in Listas : k # l => W2[k] = W[k]
             PROVE  Enlazadas(nd2, hd2, ec2, W2)
  BY DEF Enlaza
<1> DEFINE s == W[l]
           c == ec[l]
           r == W2[l]
<1>1. /\ c \in Nat /\ s \in [1 .. c -> DOMAIN nd]
      /\ \A k \in Listas : ec[k] \in Nat /\ W[k] \in [1 .. ec[k] -> DOMAIN nd]
      /\ \A k \in Listas : hd[k] = IF ec[k] = 0 THEN NULL ELSE W[k][1]
      /\ \A k \in Listas : \A j \in 1 .. ec[k] :
           nd[W[k][j]].next = IF j = ec[k] THEN NULL ELSE W[k][j + 1]
      /\ \A k, m \in Listas : \A p \in 1 .. ec[k], q \in 1 .. ec[m] :
           W[k][p] = W[m][q] => k = m /\ p = q
      /\ \A x \in DOMAIN nd : \E k \in Listas : \E j \in 1 .. ec[k] : x = W[k][j]
  BY DEF Enlazadas
<1>2. /\ r \in [1 .. c + 1 -> DOMAIN nd2] /\ r[i + 1] = n
      /\ \A j \in 1 .. i : r[j] = s[j] /\ j \in 1 .. c
      /\ \A j \in i + 2 .. c + 1 : r[j] = s[j - 1] /\ j - 1 \in 1 .. c
  <2>1. r = Insertada(s, c, i, n) /\ i \in 0 .. c
    OBVIOUS
  <2> HIDE DEF s, c, r
  <2>2. i \in Nat /\ c \in Nat /\ i <= c
    BY <1>1, <2>1
  <2>3. \A j \in 1 .. c + 1 : r[j] = IF j <= i THEN s[j] ELSE IF j = i + 1 THEN n ELSE s[j - 1]
    BY <2>1 DEF Insertada
  <2>4. r \in [1 .. c + 1 -> DOMAIN nd2]
    <3> SUFFICES ASSUME NEW j \in 1 .. c + 1 PROVE r[j] \in DOMAIN nd2
      BY <2>1 DEF Insertada
    <3>1. CASE j <= i
      BY <1>1, <2>2, <2>3, <3>1
    <3>2. CASE j = i + 1
      BY <2>2, <2>3, <3>2
    <3>3. CASE j > i + 1
      BY <1>1, <2>2, <2>3, <3>3
    <3> QED
      BY <2>2, <3>1, <3>2, <3>3
  <2>5. r[i + 1] = n
    BY <2>2, <2>3
  <2>6. \A j \in 1 .. i : r[j] = s[j] /\ j \in 1 .. c
    BY <2>2, <2>3
  <2>7. \A j \in i + 2 .. c + 1 : r[j] = s[j - 1] /\ j - 1 \in 1 .. c
    BY <2>2, <2>3
  <2> QED
    BY <2>4, <2>5, <2>6, <2>7
<1>3. ec2[l] = c + 1 /\ i \in Nat /\ i <= c /\ c \in Nat
  BY <1>1
<1> HIDE DEF s, c, r
<1>4. ASSUME NEW k \in Listas
      PROVE  ec2[k] \in Nat /\ W2[k] \in [1 .. ec2[k] -> DOMAIN nd2]
  <2>1. CASE k = l
    BY <1>2, <1>3, <2>1 DEF r
  <2>2. CASE k # l
    BY <1>1, <2>2
  <2> QED
    BY <2>1, <2>2
<1>5. ASSUME NEW k \in Listas
      PROVE  hd2[k] = IF ec2[k] = 0 THEN NULL ELSE W2[k][1]
  <2>1. CASE k = l
    <3>1. CASE i = 0
      BY <1>2, <1>3, <2>1, <3>1 DEF r
    <3>2. CASE i # 0
      <4>1. r[1] = s[1] /\ c # 0
        BY <1>2, <1>3, <3>2
      <4> QED
        BY <1>1, <1>3, <2>1, <3>2, <4>1 DEF r, s, c
    <3> QED
      BY <3>1, <3>2
  <2>2. CASE k # l
    BY <1>1, <2>2
  <2> QED
    BY <2>1, <2>2
\* Where each node of the new lists comes from.
<1>6. ASSUME NEW k \in Listas, NEW j \in 1 .. ec2[k]
      PROVE  \/ k = l /\ j = i + 1 /\ W2[k][j] = n
             \/ k = l /\ j <= i /\ j \in 1 .. ec[k] /\ W2[k][j] = W[k][j]
             \/ k = l /\ j > i + 1 /\ j - 1 \in 1 .. ec[k] /\ W2[k][j] = W[k][j - 1]
             \/ k # l /\ j \in 1 .. ec[k] /\ W2[k][j] = W[k][j]
  <2>1. CASE k = l
    <3>1. j \in 1 .. c + 1
      BY <1>3, <2>1
    <3>2. CASE j = i + 1
      BY <1>2, <2>1, <3>2 DEF r
    <3>3. CASE j <= i
      <4>1. j \in 1 .. i
        BY <1>3, <3>1, <3>3
      <4> QED
        BY <1>2, <2>1, <3>3, <4>1 DEF r, s, c
    <3>4. CASE j > i + 1
      <4>1. j \in i + 2 .. c + 1
        BY <1>3, <3>1, <3>4
      <4> QED
        BY <1>2, <2>1, <3>4, <4>1 DEF r, s, c
    <3> QED
      BY <1>3, <3>1, <3>2, <3>3, <3>4
  <2>2. CASE k # l
    BY <2>2
  <2> QED
    BY <2>1, <2>2
<1>7. ASSUME NEW k \in Listas, NEW j \in 1 .. ec2[k]
      PROVE  nd2[W2[k][j]].next = IF j = ec2[k] THEN NULL ELSE W2[k][j + 1]
  <2>1. CASE k = l /\ j = i + 1
    <3>1. nd2[n].next = IF i = c THEN NULL ELSE s[i + 1]
      BY DEF c, s
    <3>2. i # c => r[i + 2] = s[i + 1]
      <4>1. i # c => i + 2 \in i + 2 .. c + 1
        BY <1>3
      <4> QED
        BY <1>2, <1>3, <4>1
    <3> QED
      BY <1>2, <1>3, <2>1, <3>1, <3>2 DEF r
  <2>2. CASE k = l /\ j = i
    <3>1. nd2[s[i]].next = n
      BY <1>3, <2>2 DEF s
    <3>2. r[i] = s[i] /\ r[i + 1] = n /\ i # c + 1
      BY <1>2, <1>3, <2>2
    <3> QED
      BY <1>3, <2>2, <3>1, <3>2 DEF r
  <2>3. CASE k = l /\ j < i
    <3>1. /\ j \in 1 .. c /\ i \in 1 .. c /\ s[j] \in DOMAIN nd /\ s[j] # s[i] /\ j # c
          /\ j + 1 \in 1 .. i /\ j \in 1 .. i /\ j # c + 1
      <4>1. j \in 1 .. c /\ i \in 1 .. c /\ j # i /\ j # c /\ j + 1 \in 1 .. i /\ j \in 1 .. i
        BY <1>3, <2>3
      <4>2. s[j] # s[i]
        BY <1>1, <4>1 DEF s, c
      <4> QED
        BY <1>1, <1>3, <4>1, <4>2
    <3>2. nd2[s[j]].next = nd[s[j]].next
      BY <3>1 DEF s
    <3>3. nd[s[j]].next = s[j + 1]
      BY <1>1, <3>1 DEF s, c
    <3>4. r[j] = s[j] /\ r[j + 1] = s[j + 1]
      BY <1>2, <3>1
    <3> QED
      BY <1>3, <2>3, <3>1, <3>2, <3>3, <3>4 DEF r
  <2>4. CASE k = l /\ j > i + 1
    <3>1. /\ j - 1 \in 1 .. c /\ j \in i + 2 .. c + 1
          /\ s[j - 1] \in DOMAIN nd /\ (i = 0 \/ s[j - 1] # s[i])
          /\ j # c + 1 => j + 1 \in i + 2 .. c + 1
      <4>1. /\ j - 1 \in 1 .. c /\ j \in i + 2 .. c + 1 /\ (i = 0 \/ i \in 1 .. c) /\ j - 1 # i
            /\ j # c + 1 => j + 1 \in i + 2 .. c + 1
        BY <1>3, <2>4
      <4>2. i \in 1 .. c => s[j - 1] # s[i]
        BY <1>1, <4>1 DEF s, c
      <4> QED
        BY <1>1, <4>1, <4>2
    <3>2. nd2[s[j - 1]].next = nd[s[j - 1]].next
      BY <3>1 DEF s
    <3>3. nd[s[j - 1]].next = IF j - 1 = c THEN NULL ELSE s[j - 1 + 1]
      BY <1>1, <3>1 DEF s, c
    <3>4. r[j] = s[j - 1] /\ (j # c + 1 => r[j + 1] = s[j])
      <4>1. r[j] = s[j - 1]
        BY <1>2, <3>1
      <4>2. j # c + 1 => r[j + 1] = s[j + 1 - 1]
        BY <1>2, <3>1
      <4> QED
        BY <4>1, <4>2
    <3>5. (j - 1 = c <=> j = c + 1) /\ j - 1 + 1 = j
      BY <1>3
    <3> QED
      BY <1>3, <2>4, <3>2, <3>3, <3>4, <3>5 DEF r
  <2>5. CASE k # l
    <3>1. ec2[k] = ec[k] /\ W2[k] = W[k] /\ W[k][j] \in DOMAIN nd
      <4>1. ec2[k] = ec[k] /\ W2[k] = W[k]
        BY <2>5
      <4>2. j \in 1 .. ec[k] /\ W[k] \in [1 .. ec[k] -> DOMAIN nd]
        BY <1>1, <4>1
      <4> QED
        BY <4>1, <4>2
    <3>2. i = 0 \/ W[k][j] # s[i]
      <4>1. i = 0 \/ i \in 1 .. c
        BY <1>3
      <4>2. i \in 1 .. c => W[k][j] # s[i]
        BY <1>1, <2>5, <3>1 DEF s, c
      <4> QED
        BY <4>1, <4>2
    <3>3. nd2[W[k][j]].next = nd[W[k][j]].next
      BY <3>1, <3>2 DEF s
    <3> QED
      BY <1>1, <3>1, <3>3
  <2> QED
    BY <1>3, <2>1, <2>2, <2>3, <2>4, <2>5
<1>8. ASSUME NEW k \in Listas, NEW m \in Listas, NEW p \in 1 .. ec2[k], NEW q \in 1 .. ec2[m],
             W2[k][p] = W2[m][q]
      PROVE  k = m /\ p = q
  <2>1. \A h \in Listas : \A j \in 1 .. ec[h] : W[h][j] # n
    BY <1>1
  <2>2. /\ k = l /\ p = i + 1 <=> m = l /\ q = i + 1
    BY <1>6, <1>8, <2>1
  <2>3. CASE k = l /\ p = i + 1
    BY <2>2, <2>3
  <2>4. CASE ~(k = l /\ p = i + 1)
    <3> DEFINE B(h, j) == IF h = l /\ j > i + 1 THEN j - 1 ELSE j
    <3>1. B(k, p) \in 1 .. ec[k] /\ W2[k][p] = W[k][B(k, p)]
      BY <1>6, <2>4, <1>3
    <3>2. B(m, q) \in 1 .. ec[m] /\ W2[m][q] = W[m][B(m, q)]
      BY <1>6, <2>2, <2>4, <1>3
    <3>3. k = m /\ B(k, p) = B(m, q)
      <4> DEFINE b == B(k, p)
                 d == B(m, q)
      <4>1. b \in 1 .. ec[k] /\ d \in 1 .. ec[m] /\ W[k][b] = W[m][d]
        BY <1>8, <3>1, <3>2
      <4> HIDE DEF b, d
      <4>2. k = m /\ b = d
        BY <1>1, <4>1
      <4> QED
        BY <4>2 DEF b, d
    <3>4. p \in Int /\ q \in Int /\ i \in Int
      BY <1>3, <1>4
    <3> QED
      BY <2>2, <2>4, <3>3, <3>4
  <2> QED
    BY <2>3, <2>4
<1>9. ASSUME NEW x \in DOMAIN nd2
      PROVE  \E k \in Listas : \E j \in 1 .. ec2[k] : x = W2[k][j]
  <2>1. CASE x = n
    <3>1. i + 1 \in 1 .. ec2[l] /\ W2[l][i + 1] = n
      BY <1>2, <1>3 DEF r
    <3> QED
      BY <2>1, <3>1
  <2>2. CASE x # n
    <3>1. PICK k \in Listas : \E j \in 1 .. ec[k] : x = W[k][j]
      BY <1>1, <2>2
    <3>2. PICK j \in 1 .. ec[k] : x = W[k][j]
      BY <3>1
    <3>3. CASE k # l
      BY <3>2, <3>3
    <3>4. CASE k = l /\ j <= i
      <4>1. j \in 1 .. ec2[k] /\ W2[k][j] = x
        <5>1. j \in 1 .. i /\ j \in 1 .. c + 1
          BY <1>3, <3>4
        <5> QED
          BY <1>2, <1>3, <3>2, <3>4, <5>1 DEF r, s
      <4> QED
        BY <4>1
    <3>5. CASE k = l /\ j > i
      <4>1. j + 1 \in 1 .. ec2[k] /\ W2[k][j + 1] = x
        <5>1. j \in 1 .. c
          BY <3>5 DEF c
        <5>2. j + 1 \in i + 2 .. c + 1 /\ j + 1 \in 1 .. c + 1 /\ j + 1 - 1 = j
          BY <1>3, <3>5, <5>1
        <5>3. r[j + 1] = s[j]
          BY <1>2, <5>2
        <5> QED
          BY <1>3, <3>2, <3>5, <5>2, <5>3 DEF r, s
      <4> QED
        BY <4>1
    <3> QED
      BY <1>3, <3>3, <3>4, <3>5
  <2> QED
    BY <2>1, <2>2
<1> QED
  BY <1>4, <1>5, <1>7, <1>8, <1>9 DEF Enlazadas

LEMMA Extraccion ==
  ASSUME NEW nd, NEW hd, NEW ec, NEW W, Enlazadas(nd, hd, ec, W), NEW l \in Listas,
         NEW i \in 0 .. ec[l] - 1, NEW nd2, NEW hd2, NEW ec2, NEW W2,
         Desenlaza(nd, hd, ec, W, l, i, nd2, hd2, ec2, W2)
  PROVE  Enlazadas(nd2, hd2, ec2, W2)
<1> SUFFICES ASSUME DOMAIN nd2 = DOMAIN nd \ {W[l][i + 1]},
                    i > 0 => nd2[W[l][i]].next = nd[W[l][i + 1]].next,
                    \A x \in DOMAIN nd2 : (i = 0 \/ x # W[l][i]) => nd2[x].next = nd[x].next,
                    hd2[l] = (IF i = 0 THEN nd[W[l][1]].next ELSE hd[l]),
                    \A k \in Listas : k # l => hd2[k] = hd[k],
                    ec2[l] = ec[l] - 1,
                    \A k \in Listas : k # l => ec2[k] = ec[k],
                    W2[l] = Extraida(W[l], ec[l], i),
                    \A k \in Listas : k # l => W2[k] = W[k]
             PROVE  Enlazadas(nd2, hd2, ec2, W2)
  BY DEF Desenlaza
<1> DEFINE s == W[l]
           c == ec[l]
           r == W2[l]
           n == W[l][i + 1]
<1>1. /\ c \in Nat /\ s \in [1 .. c -> DOMAIN nd]
      /\ \A k \in Listas : ec[k] \in Nat /\ W[k] \in [1 .. ec[k] -> DOMAIN nd]
      /\ \A k \in Listas : hd[k] = IF ec[k] = 0 THEN NULL ELSE W[k][1]
      /\ \A k \in Listas : \A j \in 1 .. ec[k] :
           nd[W[k][j]].next = IF j = ec[k] THEN NULL ELSE W[k][j + 1]
      /\ \A k, m \in Listas : \A p \in 1 .. ec[k], q \in 1 .. ec[m] :
           W[k][p] = W[m][q] => k = m /\ p = q
      /\ \A x \in DOMAIN nd : \E k \in Listas : \E j \in 1 .. ec[k] : x = W[k][j]
  BY DEF Enlazadas
<1>2. /\ r = Extraida(s, c, i) /\ ec2[l] = c - 1 /\ n = s[i + 1]
      /\ i \in Nat /\ i < c /\ c \in Nat /\ c - 1 \in Nat
  BY <1>1
<1> HIDE DEF s, c, r, n
\* Where each node of the new lists comes from.
<1> DEFINE B(h, j) == IF h = l /\ j > i THEN j + 1 ELSE j
<1>3. ASSUME NEW k \in Listas, NEW j \in 1 .. ec2[k]
      PROVE  /\ B(k, j) \in 1 .. ec[k] /\ W2[k][j] = W[k][B(k, j)]
             /\ ~(k = l /\ B(k, j) = i + 1)
             /\ j \in Int
  <2>1. CASE k = l
    <3>1. j \in 1 .. c - 1
      BY <1>2, <2>1
    <3>2. r[j] = IF j <= i THEN s[j] ELSE s[j + 1]
      BY <1>2, <3>1 DEF Extraida
    <3>3. CASE j <= i
      BY <1>2, <2>1, <3>1, <3>2, <3>3 DEF r, s, c
    <3>4. CASE j > i
      BY <1>2, <2>1, <3>1, <3>2, <3>4 DEF r, s, c
    <3> QED
      BY <1>2, <3>1, <3>3, <3>4
  <2>2. CASE k # l
    <3>1. ec2[k] = ec[k] /\ W2[k] = W[k] /\ ec[k] \in Nat
      BY <1>1, <2>2
    <3> QED
      BY <2>2, <3>1
  <2> QED
    BY <2>1, <2>2
<1>4. ASSUME NEW k \in Listas, NEW j \in 1 .. ec2[k]
      PROVE  W2[k][j] \in DOMAIN nd2
  <2> DEFINE b == B(k, j)
  <2>1. b \in 1 .. ec[k] /\ W2[k][j] = W[k][b] /\ ~(k = l /\ b = i + 1)
    BY <1>3
  <2> HIDE DEF b, B
  <2>2. i + 1 \in 1 .. ec[l]
    BY <1>2 DEF c
  <2>3. W[k] \in [1 .. ec[k] -> DOMAIN nd]
    BY <1>1
  <2>4. W[k][b] # W[l][i + 1]
    BY <1>1, <2>1, <2>2
  <2> QED
    BY <2>1, <2>3, <2>4
<1>5. ASSUME NEW k \in Listas
      PROVE  ec2[k] \in Nat /\ W2[k] \in [1 .. ec2[k] -> DOMAIN nd2]
  <2>1. ec2[k] \in Nat
    <3>1. k # l => ec2[k] \in Nat
      BY <1>1
    <3> QED
      BY <1>2, <3>1
  <2>2. W2[k] = [j \in 1 .. ec2[k] |-> W2[k][j]]
    <3>1. CASE k = l
      BY <1>2, <3>1 DEF r, Extraida
    <3>2. CASE k # l
      BY <1>1, <3>2
    <3> QED
      BY <3>1, <3>2
  <2> QED
    BY <1>4, <2>1, <2>2
<1>6. ASSUME NEW k \in Listas
      PROVE  hd2[k] = IF ec2[k] = 0 THEN NULL ELSE W2[k][1]
  <2>1. CASE k = l /\ i = 0
    <3>1. 1 \in 1 .. ec[l] /\ hd2[l] = nd[s[1]].next
      BY <1>2, <2>1 DEF c, s
    <3>2. nd[s[1]].next = IF 1 = c THEN NULL ELSE s[1 + 1]
      BY <1>1, <3>1 DEF c, s
    <3>3. 1 # c => r[1] = s[1 + 1]
      BY <1>2, <2>1 DEF Extraida
    <3> QED
      BY <1>2, <2>1, <3>1, <3>2, <3>3 DEF r
  <2>2. CASE k = l /\ i # 0
    <3>1. hd2[l] = s[1]
      BY <1>1, <1>2, <2>2 DEF c, s
    <3>2. c - 1 # 0 /\ r[1] = s[1]
      BY <1>2, <2>2 DEF Extraida
    <3> QED
      BY <1>2, <2>2, <3>1, <3>2 DEF r
  <2>3. CASE k # l
    BY <1>1, <2>3
  <2> QED
    BY <2>1, <2>2, <2>3
<1>7. ASSUME NEW k \in Listas, NEW j \in 1 .. ec2[k]
      PROVE  nd2[W2[k][j]].next = IF j = ec2[k] THEN NULL ELSE W2[k][j + 1]
  <2>1. W2[k][j] \in DOMAIN nd2
    BY <1>4
  <2>2. CASE k = l /\ j = i
    <3>1. r[i] = s[i] /\ (i # c - 1 => r[i + 1] = s[i + 2]) /\ i > 0
      <4>1. i \in 1 .. c - 1 /\ (i # c - 1 => i + 1 \in 1 .. c - 1)
        BY <1>2, <2>2
      <4>2. i # c - 1 => r[i + 1] = s[i + 1 + 1]
        BY <1>2, <4>1 DEF Extraida
      <4>3. r[i] = s[i]
        BY <1>2, <4>1 DEF Extraida
      <4> QED
        BY <1>2, <4>1, <4>2, <4>3
    <3>2. nd2[s[i]].next = nd[s[i + 1]].next
      BY <3>1 DEF s
    <3>3. i + 1 \in 1 .. ec[l]
      BY <1>2 DEF c
    <3>4. nd[s[i + 1]].next = IF i + 1 = c THEN NULL ELSE s[i + 1 + 1]
      BY <1>1, <3>3 DEF c, s
    <3>5. (i + 1 = c <=> i = c - 1) /\ i + 1 + 1 = i + 2
      BY <1>2
    <3> QED
      BY <1>2, <2>2, <3>1, <3>2, <3>4, <3>5 DEF r
  <2>3. CASE ~(k = l /\ j = i)
    <3> DEFINE b == B(k, j)
    <3>1. b \in 1 .. ec[k] /\ W2[k][j] = W[k][b] /\ ~(k = l /\ b = i + 1) /\ j \in Int
      BY <1>3
    <3>2. i = 0 \/ W2[k][j] # W[l][i]
      <4>1. i = 0 \/ i \in 1 .. ec[l]
        BY <1>2 DEF c
      <4>2. ~(k = l /\ b = i)
        BY <1>2, <2>3, <3>1
      <4> HIDE DEF b, B
      <4> QED
        BY <1>1, <3>1, <4>1, <4>2
    <3>3. nd2[W2[k][j]].next = nd[W[k][b]].next
      <4> HIDE DEF b, B
      <4> QED
        BY <2>1, <3>1, <3>2
    <3>4. nd[W[k][b]].next = IF b = ec[k] THEN NULL ELSE W[k][b + 1]
      <4> HIDE DEF b, B
      <4> QED
        BY <1>1, <3>1
    <3>5. b = ec[k] <=> j = ec2[k]
      <4>1. CASE k = l
        BY <1>2, <2>3, <3>1, <4>1 DEF c
      <4>2. CASE k # l
        BY <4>2
      <4> QED
        BY <4>1, <4>2
    <3>6. j # ec2[k] => W[k][b + 1] = W2[k][j + 1]
      <4>1. CASE k = l
        <5> SUFFICES ASSUME j # ec2[k] PROVE s[b + 1] = r[j + 1]
          BY <4>1 DEF s, r
        <5>1. j \in 1 .. c - 1 /\ j # c - 1 /\ j + 1 \in 1 .. c - 1
          BY <1>2, <4>1
        <5>2. r[j + 1] = IF j + 1 <= i THEN s[j + 1] ELSE s[j + 1 + 1]
          BY <1>2, <5>1 DEF Extraida
        <5> QED
          BY <1>2, <2>3, <3>1, <4>1, <5>1, <5>2
      <4>2. CASE k # l
        BY <4>2
      <4> QED
        BY <4>1, <4>2
    <3> HIDE DEF b, B
    <3> QED
      BY <3>3, <3>4, <3>5, <3>6
  <2> QED
    BY <2>2, <2>3
<1>8. ASSUME NEW k \in Listas, NEW m \in Listas, NEW p \in 1 .. ec2[k], NEW q \in 1 .. ec2[m],
             W2[k][p] = W2[m][q]
      PROVE  k = m /\ p = q
  <2> DEFINE b == B(k, p)
             d == B(m, q)
  <2>1. /\ b \in 1 .. ec[k] /\ d \in 1 .. ec[m] /\ W[k][b] = W[m][d]
        /\ p \in Int /\ q \in Int
    BY <1>3, <1>8
  <2>2. k = m /\ b = d
    <3> HIDE DEF b, d, B
    <3> QED
      BY <1>1, <2>1
  <2> QED
    BY <1>2, <2>1, <2>2
<1>9. ASSUME NEW x \in DOMAIN nd2
      PROVE  \E k \in Listas : \E j \in 1 .. ec2[k] : x = W2[k][j]
  <2>1. x \in DOMAIN nd /\ x # n
    BY DEF n
  <2>2. PICK k \in Listas : \E j \in 1 .. ec[k] : x = W[k][j]
    BY <1>1, <2>1
  <2>3. PICK j \in 1 .. ec[k] : x = W[k][j]
    BY <2>2
  <2>4. CASE k # l
    <3>1. ec2[k] = ec[k] /\ W2[k] = W[k]
      BY <2>4
    <3> QED
      BY <2>3, <3>1
  <2>5. CASE k = l
    <3>1. j \in 1 .. c /\ x = s[j] /\ j # i + 1
      BY <1>2, <2>1, <2>3, <2>5 DEF c, s
    <3>2. CASE j <= i
      <4>1. j \in 1 .. c - 1 /\ r[j] = s[j]
        BY <1>2, <3>1, <3>2 DEF Extraida
      <4> QED
        BY <1>2, <3>1, <4>1 DEF r
    <3>3. CASE j > i + 1
      <4>1. j - 1 \in 1 .. c - 1 /\ ~(j - 1 <= i) /\ j - 1 + 1 = j
        BY <1>2, <3>1, <3>3
      <4>2. r[j - 1] = s[j - 1 + 1]
        BY <1>2, <4>1 DEF Extraida
      <4> QED
        BY <1>2, <3>1, <4>1, <4>2 DEF r
    <3> QED
      BY <1>2, <3>1, <3>2, <3>3
  <2> QED
    BY <2>4, <2>5
<1> QED
  <2> HIDE DEF B
  <2> QED
    BY <1>5, <1>6, <1>7, <1>8, <1>9 DEF Enlazadas

-----------------------------------------------------------------------------
(* The heap and its lists                                                  *)

\* The heap is well typed and its lists are the sequences W.
Heap(nd, hd, ec, W) ==
  /\ DOMAIN nd \subseteq Nodos
  /\ \A n \in DOMAIN nd : nd[n] \in [data : Datos \cup {NULL}, next : Nodos \cup {NULL}]
  /\ hd \in [Listas -> Nodos \cup {NULL}] /\ ec \in [Listas -> Nat]
  /\ Enlazadas(nd, hd, ec, W)

\* W with s for the nodes of l.
Con(W, l, s) == [k \in Listas |-> IF k = l THEN s ELSE W[k]]

\* A node n with the datum d after the first i of l.
SumaNodo(nd, hd, ec, W, l, i, n, d, nd2, hd2, ec2) ==
  /\ n \in Nodos \ DOMAIN nd /\ DOMAIN nd2 = DOMAIN nd \union {n}
  /\ nd2[n] = [data |-> d, next |-> IF i = ec[l] THEN NULL ELSE W[l][i + 1]]
  /\ \A x \in DOMAIN nd :
       nd2[x] = [data |-> nd[x].data,
                 next |-> IF i > 0 /\ x = W[l][i] THEN n ELSE nd[x].next]
  /\ hd2 = [k \in Listas |-> IF k = l /\ i = 0 THEN n ELSE hd[k]]
  /\ ec2 = [k \in Listas |-> IF k = l THEN ec[l] + 1 ELSE ec[k]]

\* The node after the first i of l goes.
RestaNodo(nd, hd, ec, W, l, i, nd2, hd2, ec2) ==
  /\ DOMAIN nd2 = DOMAIN nd \ {W[l][i + 1]}
  /\ \A x \in DOMAIN nd2 :
       nd2[x] = [data |-> nd[x].data,
                 next |-> IF i > 0 /\ x = W[l][i] THEN nd[W[l][i + 1]].next ELSE nd[x].next]
  /\ hd2 = [k \in Listas |-> IF k = l /\ i = 0 THEN nd[W[l][1]].next ELSE hd[k]]
  /\ ec2 = [k \in Listas |-> IF k = l THEN ec[l] - 1 ELSE ec[k]]

LEMMA HeapConUnoMas ==
  ASSUME NEW nd, NEW hd, NEW ec, NEW W, Heap(nd, hd, ec, W), NEW l \in Listas,
         NEW i \in 0 .. ec[l], NEW n, NEW d \in Datos \cup {NULL}, NEW nd2, NEW hd2, NEW ec2,
         SumaNodo(nd, hd, ec, W, l, i, n, d, nd2, hd2, ec2)
  PROVE  Heap(nd2, hd2, ec2, Con(W, l, Insertada(W[l], ec[l], i, n)))
<1> DEFINE s == Insertada(W[l], ec[l], i, n)
           W2 == Con(W, l, s)
<1>1. /\ n \in Nodos /\ n \notin DOMAIN nd /\ DOMAIN nd2 = DOMAIN nd \union {n}
      /\ nd2[n] = [data |-> d, next |-> IF i = ec[l] THEN NULL ELSE W[l][i + 1]]
      /\ \A x \in DOMAIN nd :
           nd2[x] = [data |-> nd[x].data,
                     next |-> IF i > 0 /\ x = W[l][i] THEN n ELSE nd[x].next]
      /\ hd2 = [k \in Listas |-> IF k = l /\ i = 0 THEN n ELSE hd[k]]
      /\ ec2 = [k \in Listas |-> IF k = l THEN ec[l] + 1 ELSE ec[k]]
  BY DEF SumaNodo
<1>2. /\ DOMAIN nd \subseteq Nodos
      /\ \A x \in DOMAIN nd : nd[x] \in [data : Datos \cup {NULL}, next : Nodos \cup {NULL}]
      /\ hd \in [Listas -> Nodos \cup {NULL}] /\ ec \in [Listas -> Nat]
      /\ Enlazadas(nd, hd, ec, W)
  BY DEF Heap
<1>3. ec[l] \in Nat /\ W[l] \in [1 .. ec[l] -> DOMAIN nd] /\ i \in Nat /\ i <= ec[l]
  BY <1>2 DEF Enlazadas
<1>4. W2[l] = s /\ \A k \in Listas : k # l => W2[k] = W[k]
  BY DEF Con
<1>5. /\ nd2[n].next = IF i = ec[l] THEN NULL ELSE W[l][i + 1]
      /\ nd2[n].data = d
      /\ \A x \in DOMAIN nd : (i = 0 \/ x # W[l][i]) => nd2[x].next = nd[x].next
      /\ i > 0 => nd2[W[l][i]].next = n
  <2>1. i > 0 => W[l][i] \in DOMAIN nd
    BY <1>3
  <2> QED
    BY <1>1, <1>3, <2>1
<1>6. /\ hd2[l] = (IF i = 0 THEN n ELSE hd[l]) /\ \A k \in Listas : k # l => hd2[k] = hd[k]
      /\ ec2[l] = ec[l] + 1 /\ \A k \in Listas : k # l => ec2[k] = ec[k]
  BY <1>1
<1> HIDE DEF W2, s
<1>7. Enlazadas(nd2, hd2, ec2, W2)
  <2> USE DEF s
  <2>1. W2[l] = Insertada(W[l], ec[l], i, n)
    BY <1>4
  <2> HIDE DEF s
  <2>2. Enlaza(nd, hd, ec, W, l, i, n, nd2, hd2, ec2, W2)
    BY <1>1, <1>4, <1>5, <1>6, <2>1 DEF Enlaza
  <2> QED
    BY <1>2, <2>2, Insercion
<1>8. DOMAIN nd2 \subseteq Nodos
  BY <1>1, <1>2
<1>9. ASSUME NEW x \in DOMAIN nd2
      PROVE  nd2[x] \in [data : Datos \cup {NULL}, next : Nodos \cup {NULL}]
  <2>1. i # ec[l] => W[l][i + 1] \in Nodos
    <3>1. i # ec[l] => i + 1 \in 1 .. ec[l]
      BY <1>3
    <3> QED
      BY <1>2, <1>3, <3>1
  <2>2. CASE x = n
    BY <1>1, <2>1, <2>2
  <2>3. CASE x # n
    <3>1. x \in DOMAIN nd
      BY <1>1, <2>3
    <3>2. nd[x].data \in Datos \cup {NULL} /\ nd[x].next \in Nodos \cup {NULL}
      BY <1>2, <3>1
    <3> QED
      BY <1>1, <3>1, <3>2
  <2> QED
    BY <2>2, <2>3
<1>10. hd2 \in [Listas -> Nodos \cup {NULL}] /\ ec2 \in [Listas -> Nat]
  BY <1>1, <1>2
<1>11. Heap(nd2, hd2, ec2, W2)
  BY <1>7, <1>8, <1>9, <1>10 DEF Heap
<1> QED
  BY <1>11 DEF W2, s

LEMMA HeapConUnoMenos ==
  ASSUME NEW nd, NEW hd, NEW ec, NEW W, Heap(nd, hd, ec, W), NEW l \in Listas,
         NEW i \in 0 .. ec[l] - 1, NEW nd2, NEW hd2, NEW ec2,
         RestaNodo(nd, hd, ec, W, l, i, nd2, hd2, ec2)
  PROVE  Heap(nd2, hd2, ec2, Con(W, l, Extraida(W[l], ec[l], i)))
<1> DEFINE s == Extraida(W[l], ec[l], i)
           W2 == Con(W, l, s)
<1>1. /\ DOMAIN nd2 = DOMAIN nd \ {W[l][i + 1]}
      /\ \A x \in DOMAIN nd2 :
           nd2[x] = [data |-> nd[x].data,
                     next |-> IF i > 0 /\ x = W[l][i]
                                THEN nd[W[l][i + 1]].next ELSE nd[x].next]
      /\ hd2 = [k \in Listas |-> IF k = l /\ i = 0 THEN nd[W[l][1]].next ELSE hd[k]]
      /\ ec2 = [k \in Listas |-> IF k = l THEN ec[l] - 1 ELSE ec[k]]
  BY DEF RestaNodo
<1>2. /\ DOMAIN nd \subseteq Nodos
      /\ \A x \in DOMAIN nd : nd[x] \in [data : Datos \cup {NULL}, next : Nodos \cup {NULL}]
      /\ hd \in [Listas -> Nodos \cup {NULL}] /\ ec \in [Listas -> Nat]
      /\ Enlazadas(nd, hd, ec, W)
  BY DEF Heap
<1>3. /\ ec[l] \in Nat /\ W[l] \in [1 .. ec[l] -> DOMAIN nd] /\ i \in Nat /\ i < ec[l]
      /\ \A p, q \in 1 .. ec[l] : W[l][p] = W[l][q] => p = q
  BY <1>2 DEF Enlazadas
<1>4. W2[l] = s /\ \A k \in Listas : k # l => W2[k] = W[k]
  BY DEF Con
<1>5. W[l][i + 1] \in DOMAIN nd /\ W[l][1] \in DOMAIN nd
  BY <1>3
<1>6. /\ \A x \in DOMAIN nd2 : (i = 0 \/ x # W[l][i]) => nd2[x].next = nd[x].next
      /\ i > 0 => nd2[W[l][i]].next = nd[W[l][i + 1]].next
  <2>1. i > 0 => W[l][i] \in DOMAIN nd /\ W[l][i] # W[l][i + 1]
    BY <1>3
  <2>2. i > 0 => W[l][i] \in DOMAIN nd2
    BY <1>1, <2>1
  <2>3. \A x \in DOMAIN nd2 : nd2[x].next = IF i > 0 /\ x = W[l][i]
                                             THEN nd[W[l][i + 1]].next ELSE nd[x].next
    <3> SUFFICES ASSUME NEW x \in DOMAIN nd2
                 PROVE  nd2[x].next = IF i > 0 /\ x = W[l][i]
                                        THEN nd[W[l][i + 1]].next ELSE nd[x].next
      OBVIOUS
    <3>1. nd2[x] = [data |-> nd[x].data,
                    next |-> IF i > 0 /\ x = W[l][i]
                               THEN nd[W[l][i + 1]].next ELSE nd[x].next]
      BY <1>1
    <3> QED
      BY <3>1
  <2> QED
    BY <1>3, <2>2, <2>3
<1>7. /\ hd2[l] = (IF i = 0 THEN nd[W[l][1]].next ELSE hd[l])
      /\ \A k \in Listas : k # l => hd2[k] = hd[k]
      /\ ec2[l] = ec[l] - 1 /\ \A k \in Listas : k # l => ec2[k] = ec[k]
  BY <1>1
<1> HIDE DEF W2, s
<1>8. Enlazadas(nd2, hd2, ec2, W2)
  <2>1. W2[l] = Extraida(W[l], ec[l], i)
    BY <1>4 DEF s
  <2>2. Desenlaza(nd, hd, ec, W, l, i, nd2, hd2, ec2, W2)
    BY <1>1, <1>4, <1>6, <1>7, <2>1 DEF Desenlaza
  <2> QED
    BY <1>2, <2>2, Extraccion
<1>9. DOMAIN nd2 \subseteq Nodos
  BY <1>1, <1>2
<1>10. ASSUME NEW x \in DOMAIN nd2
       PROVE  nd2[x] \in [data : Datos \cup {NULL}, next : Nodos \cup {NULL}]
  <2>1. x \in DOMAIN nd
    BY <1>1
  <2>2. /\ nd[x].data \in Datos \cup {NULL} /\ nd[x].next \in Nodos \cup {NULL}
        /\ nd[W[l][i + 1]].next \in Nodos \cup {NULL}
    BY <1>2, <1>5, <2>1
  <2>3. nd2[x] = [data |-> nd[x].data,
                  next |-> IF i > 0 /\ x = W[l][i] THEN nd[W[l][i + 1]].next ELSE nd[x].next]
    BY <1>1
  <2> QED
    BY <2>2, <2>3
<1>11. hd2 \in [Listas -> Nodos \cup {NULL}] /\ ec2 \in [Listas -> Nat]
  <2>1. nd[W[l][1]].next \in Nodos \cup {NULL}
    BY <1>2, <1>5
  <2>2. ec[l] - 1 \in Nat
    BY <1>3
  <2> QED
    BY <1>1, <1>2, <2>1, <2>2
<1>12. Heap(nd2, hd2, ec2, W2)
  BY <1>8, <1>9, <1>10, <1>11 DEF Heap
<1> QED
  BY <1>12 DEF W2, s

\* What list_get_element finds, and what the walk reaches past the last node.
LEMMA ElNodo ==
  ASSUME NEW W, Heap(nodos, head, elements_count, W), NEW l \in Listas, NEW i \in Nat
  PROVE  /\ Nodo(l, i) = IF i < elements_count[l] THEN W[l][i + 1]
                         ELSE IF i = elements_count[l] THEN NULL ELSE Basura
         /\ list_get_element(l, i) = IF i < elements_count[l] THEN W[l][i + 1] ELSE NULL
<1> DEFINE c == elements_count[l]
           s == W[l]
<1>1. /\ DOMAIN nodos \subseteq Nodos /\ c \in Nat /\ s \in [1 .. c -> DOMAIN nodos]
      /\ head[l] = (IF c = 0 THEN NULL ELSE s[1])
      /\ \A j \in 1 .. c : nodos[s[j]].next = IF j = c THEN NULL ELSE s[j + 1]
  BY DEF Heap, Enlazadas
<1>2. Siguiente(NULL) = Basura /\ Siguiente(Basura) = Basura
  BY <1>1, ConstantesOK DEF Siguiente
<1> HIDE DEF c, s
<1>3. \A j \in 1 .. c : Siguiente(s[j]) = IF j = c THEN NULL ELSE s[j + 1]
  BY <1>1 DEF Siguiente
<1>4. \A j \in Nat : Nodo(l, j) = IF j < c THEN s[j + 1] ELSE IF j = c THEN NULL ELSE Basura
  BY <1>1, <1>2, <1>3, NodoEs
<1>5. list_get_element(l, i) = IF i < c THEN s[i + 1] ELSE NULL
  BY <1>1, <1>4 DEF list_get_element, EnRango, c
<1> QED
  BY <1>4, <1>5 DEF c, s

\* A list has as many nodes as its count says.
LEMMA CuantosNodos ==
  ASSUME NEW nd, NEW hd, NEW ec, NEW W, Heap(nd, hd, ec, W), NEW l \in Listas
  PROVE  LET S == {W[l][i] : i \in 1 .. ec[l]}
         IN  /\ S \subseteq DOMAIN nd /\ IsFiniteSet(S) /\ Cardinality(S) = ec[l]
             /\ ec[l] \in 0 .. Cardinality(Nodos)
<1> DEFINE c == ec[l]
           s == W[l]
           S == {s[i] : i \in 1 .. c}
<1>1. /\ DOMAIN nd \subseteq Nodos /\ c \in Nat /\ s \in [1 .. c -> DOMAIN nd]
      /\ \A i, j \in 1 .. c : s[i] = s[j] => i = j
  BY DEF Heap, Enlazadas
<1> HIDE DEF c, s
<1>2. IsFiniteSet(1 .. c) /\ Cardinality(1 .. c) = c
  <2>1. IsFiniteSet(1 .. c) /\ Cardinality(1 .. c) = IF 1 > c THEN 0 ELSE c - 1 + 1
    BY <1>1, FS_Interval
  <2> QED
    BY <1>1, <2>1
<1>3. s \in Bijection(1 .. c, S)
  BY <1>1 DEF Bijection, Injection, Surjection, IsInjective
<1>4. IsFiniteSet(S) /\ Cardinality(S) = c
  <2>1. ExistsBijection(1 .. c, S)
    BY <1>3 DEF ExistsBijection
  <2> QED
    BY <1>2, <2>1, FS_Bijection
<1>5. S \subseteq DOMAIN nd
  BY <1>1
<1>6. c \in 0 .. Cardinality(Nodos)
  <2>1. IsFiniteSet(Nodos) /\ S \subseteq Nodos
    BY <1>1, <1>5, ConstantesOK
  <2>2. Cardinality(S) <= Cardinality(Nodos) /\ Cardinality(Nodos) \in Nat
    BY <2>1, FS_Subset, FS_CardinalityType
  <2> QED
    BY <1>1, <1>4, <2>2
<1> QED
  BY <1>4, <1>5, <1>6 DEF c, s

-----------------------------------------------------------------------------
(* The operations                                                          *)

LEMMA AlFinalSuma ==
  ASSUME NEW W, Heap(nodos, head, elements_count, W), NEW l \in Listas,
         NEW d \in Datos \cup {NULL}, AlFinal(l, d)
  PROVE  \E n : SumaNodo(nodos, head, elements_count, W, l, elements_count[l], n, d,
                         nodos', head', elements_count')
<1> DEFINE c == elements_count[l]
<1>1. PICK n \in Libres :
        /\ IF c = 0
             THEN nodos' = ConNodo(n, d, NULL) /\ head' = [head EXCEPT ![l] = n]
             ELSE /\ nodos' = Enlazar(ConNodo(n, d, NULL), list_get_element(l, c - 1), n)
                  /\ UNCHANGED head
        /\ elements_count' = [elements_count EXCEPT ![l] = @ + 1]
  BY DEF AlFinal
<1>2. /\ head \in [Listas -> Nodos \cup {NULL}] /\ elements_count \in [Listas -> Nat]
      /\ n \in Nodos \ DOMAIN nodos /\ c \in Nat /\ W[l] \in [1 .. c -> DOMAIN nodos]
      /\ \A x \in DOMAIN nodos : nodos[x] = [data |-> nodos[x].data, next |-> nodos[x].next]
  BY DEF Heap, Enlazadas, Libres
<1>3. elements_count' = [k \in Listas |-> IF k = l THEN c + 1 ELSE elements_count[k]]
  BY <1>1, <1>2
<1> HIDE DEF c
<1>4. CASE c = 0
  <2>1. nodos' = ConNodo(n, d, NULL) /\ head' = [head EXCEPT ![l] = n]
    BY <1>1, <1>4
  <2>2. /\ DOMAIN nodos' = DOMAIN nodos \union {n}
        /\ nodos'[n] = [data |-> d, next |-> NULL]
        /\ \A x \in DOMAIN nodos : nodos'[x] = nodos[x]
    BY <1>2, <2>1 DEF ConNodo
  <2>3. head' = [k \in Listas |-> IF k = l THEN n ELSE head[k]]
    BY <1>2, <2>1
  <2> QED
    BY <1>2, <1>3, <1>4, <2>2, <2>3 DEF SumaNodo, c
<1>5. CASE c # 0
  <2> DEFINE g == W[l][c]
  <2>1. list_get_element(l, c - 1) = g /\ g \in DOMAIN nodos
    <3>1. c - 1 \in Nat /\ c - 1 < c /\ c - 1 + 1 = c /\ c \in 1 .. c
      BY <1>2, <1>5
    <3> QED
      BY <1>2, <3>1, ElNodo DEF c
  <2>2. nodos' = Enlazar(ConNodo(n, d, NULL), g, n) /\ head' = head
    BY <1>1, <1>5, <2>1
  <2> HIDE DEF g
  <2>3. /\ DOMAIN nodos' = DOMAIN nodos \union {n}
        /\ nodos'[n] = [data |-> d, next |-> NULL]
        /\ \A x \in DOMAIN nodos : nodos'[x] = [data |-> nodos[x].data,
                                                next |-> IF x = g THEN n ELSE nodos[x].next]
    BY <1>2, <2>1, <2>2 DEF ConNodo, Enlazar
  <2>4. head' = [k \in Listas |-> IF k = l /\ c = 0 THEN n ELSE head[k]]
    BY <1>2, <1>5, <2>2
  <2> QED
    BY <1>2, <1>3, <1>5, <2>3, <2>4 DEF SumaNodo, c, g
<1> QED
  BY <1>4, <1>5

LEMMA EnElMedioSuma ==
  ASSUME NEW W, Heap(nodos, head, elements_count, W), NEW l \in Listas,
         NEW i \in 0 .. elements_count[l], NEW d \in Datos \cup {NULL}, list_add_in_index(l, i, d)
  PROVE  \E n : SumaNodo(nodos, head, elements_count, W, l, i, n, d,
                         nodos', head', elements_count')
<1> DEFINE c == elements_count[l]
           sig == IF i = c THEN NULL ELSE W[l][i + 1]
<1>1. PICK n \in Libres :
         IF i = 0
           THEN nodos' = ConNodo(n, d, head[l]) /\ head' = [head EXCEPT ![l] = n]
           ELSE /\ nodos' = Enlazar(ConNodo(n, d, list_get_element(l, i)),
                                    list_get_element(l, i - 1), n)
                /\ UNCHANGED head
  BY DEF list_add_in_index
<1>2. /\ head \in [Listas -> Nodos \cup {NULL}] /\ elements_count \in [Listas -> Nat]
      /\ n \in Nodos \ DOMAIN nodos /\ c \in Nat /\ W[l] \in [1 .. c -> DOMAIN nodos]
      /\ \A x \in DOMAIN nodos : nodos[x] = [data |-> nodos[x].data, next |-> nodos[x].next]
      /\ head[l] = (IF c = 0 THEN NULL ELSE W[l][1])
      /\ i \in Nat /\ i <= c
  BY DEF Heap, Enlazadas, Libres
<1>3. elements_count' = [k \in Listas |-> IF k = l THEN c + 1 ELSE elements_count[k]]
  BY <1>2 DEF list_add_in_index
<1>4. list_get_element(l, i) = sig
  BY <1>2, ElNodo
<1> HIDE DEF c
<1>5. CASE i = 0
  <2>1. nodos' = ConNodo(n, d, head[l]) /\ head' = [head EXCEPT ![l] = n]
    BY <1>1, <1>5
  <2>2. head[l] = sig
    BY <1>2, <1>5
  <2> HIDE DEF sig
  <2>3. /\ DOMAIN nodos' = DOMAIN nodos \union {n}
        /\ nodos'[n] = [data |-> d, next |-> sig]
        /\ \A x \in DOMAIN nodos : nodos'[x] = nodos[x]
    BY <1>2, <2>1, <2>2 DEF ConNodo
  <2>4. head' = [k \in Listas |-> IF k = l /\ i = 0 THEN n ELSE head[k]]
    BY <1>2, <1>5, <2>1
  <2> QED
    BY <1>2, <1>3, <1>5, <2>3, <2>4 DEF SumaNodo, c, sig
<1>6. CASE i # 0
  <2> DEFINE g == W[l][i]
  <2>1. list_get_element(l, i - 1) = g /\ g \in DOMAIN nodos
    <3>1. i - 1 \in Nat /\ i - 1 < c /\ i - 1 + 1 = i /\ i \in 1 .. c
      BY <1>2, <1>6
    <3> QED
      BY <1>2, <3>1, ElNodo DEF c
  <2>2. nodos' = Enlazar(ConNodo(n, d, sig), g, n) /\ head' = head
    BY <1>1, <1>4, <1>6, <2>1
  <2> HIDE DEF g, sig
  <2>3. /\ DOMAIN nodos' = DOMAIN nodos \union {n}
        /\ nodos'[n] = [data |-> d, next |-> sig]
        /\ \A x \in DOMAIN nodos : nodos'[x] = [data |-> nodos[x].data,
                                                next |-> IF x = g THEN n ELSE nodos[x].next]
    BY <1>2, <2>1, <2>2 DEF ConNodo, Enlazar
  <2>4. head' = [k \in Listas |-> IF k = l /\ i = 0 THEN n ELSE head[k]]
    BY <1>2, <1>6, <2>2
  <2> QED
    BY <1>2, <1>3, <1>6, <2>3, <2>4 DEF SumaNodo, c, g, sig
<1> QED
  BY <1>5, <1>6

LEMMA SacarResta ==
  ASSUME NEW W, Heap(nodos, head, elements_count, W), NEW l \in Listas, NEW i \in Nat, Sacar(l, i)
  PROVE  /\ i \in 0 .. elements_count[l] - 1
         /\ RestaNodo(nodos, head, elements_count, W, l, i, nodos', head', elements_count')
         /\ list_get_element(l, i) = W[l][i + 1]
<1> DEFINE c == elements_count[l]
           aux == W[l][i + 1]
<1>1. /\ head \in [Listas -> Nodos \cup {NULL}] /\ elements_count \in [Listas -> Nat]
      /\ c \in Nat /\ W[l] \in [1 .. c -> DOMAIN nodos]
      /\ \A x \in DOMAIN nodos : nodos[x] = [data |-> nodos[x].data, next |-> nodos[x].next]
      /\ \A p, q \in 1 .. c : W[l][p] = W[l][q] => p = q
  BY DEF Heap, Enlazadas
<1>2. i < c /\ i + 1 \in 1 .. c /\ aux \in DOMAIN nodos
  <2>1. i < c
    BY <1>1 DEF Sacar, EnRango
  <2>2. i + 1 \in 1 .. c
    BY <1>1, <2>1
  <2> QED
    BY <1>1, <2>1, <2>2
<1>3. list_get_element(l, i) = aux
  BY <1>2, ElNodo
<1>4. Siguiente(aux) = nodos[aux].next
  BY <1>2 DEF Siguiente
<1>5. elements_count' = [k \in Listas |-> IF k = l THEN c - 1 ELSE elements_count[k]]
  BY <1>1 DEF Sacar
<1>6. IF i = 0
        THEN /\ head' = [head EXCEPT ![l] = nodos[aux].next]
             /\ nodos' = SinNodo(nodos, aux)
        ELSE /\ nodos' = SinNodo(Enlazar(nodos, list_get_element(l, i - 1), nodos[aux].next), aux)
             /\ UNCHANGED head
  BY <1>3, <1>4 DEF Sacar
<1> HIDE DEF c
<1>7. CASE i = 0
  <2>1. aux = W[l][1]
    BY <1>7
  <2> HIDE DEF aux
  <2>2. head' = [k \in Listas |-> IF k = l THEN nodos[aux].next ELSE head[k]]
    BY <1>1, <1>6, <1>7
  <2>3. DOMAIN nodos' = DOMAIN nodos \ {aux} /\ \A x \in DOMAIN nodos' : nodos'[x] = nodos[x]
    BY <1>6, <1>7 DEF SinNodo
  <2>4. RestaNodo(nodos, head, elements_count, W, l, i, nodos', head', elements_count')
    BY <1>1, <1>5, <1>7, <2>1, <2>2, <2>3 DEF RestaNodo, c
  <2> QED
    BY <1>1, <1>2, <1>3, <2>4 DEF c, aux
<1>8. CASE i # 0
  <2> DEFINE g == W[l][i]
  <2>1. list_get_element(l, i - 1) = g /\ g \in DOMAIN nodos
    <3>1. i - 1 \in Nat /\ i - 1 < c /\ i - 1 + 1 = i /\ i \in 1 .. c
      BY <1>1, <1>2, <1>8
    <3> QED
      BY <1>1, <3>1, ElNodo DEF c
  <2>2. nodos' = SinNodo(Enlazar(nodos, g, nodos[aux].next), aux) /\ head' = head
    BY <1>6, <1>8, <2>1
  <2> HIDE DEF g, aux
  <2>3. /\ DOMAIN nodos' = DOMAIN nodos \ {aux}
        /\ \A x \in DOMAIN nodos' :
             nodos'[x] = [data |-> nodos[x].data,
                          next |-> IF x = g THEN nodos[aux].next ELSE nodos[x].next]
    BY <1>1, <2>1, <2>2 DEF SinNodo, Enlazar
  <2>4. head' = [k \in Listas |-> IF k = l /\ i = 0 THEN nodos[W[l][1]].next ELSE head[k]]
    BY <1>1, <1>8, <2>2
  <2>5. RestaNodo(nodos, head, elements_count, W, l, i, nodos', head', elements_count')
    BY <1>1, <1>5, <1>8, <2>3, <2>4 DEF RestaNodo, c, g, aux
  <2> QED
    BY <1>1, <1>2, <1>3, <2>5 DEF c, aux
<1> QED
  BY <1>7, <1>8

\* The nodes of a list are those of its sequence.
LEMMA LosNodos ==
  ASSUME NEW W, Heap(nodos, head, elements_count, W), NEW l \in Listas
  PROVE  DeLaLista(l) = {W[l][i] : i \in 1 .. elements_count[l]}
<1> DEFINE c == elements_count[l]
           s == W[l]
           S == {s[i] : i \in 1 .. c}
<1>1. c \in Nat
  BY DEF Heap
<1>2. \A i \in Nat : Nodo(l, i) = IF i < c THEN s[i + 1] ELSE IF i = c THEN NULL ELSE Basura
  BY ElNodo
<1>3. DeLaLista(l) = {Nodo(l, i) : i \in 0 .. c - 1}
  BY DEF DeLaLista
<1>4. S = {s[i] : i \in 1 .. c}
  OBVIOUS
<1> HIDE DEF c, s, S
<1>5. \A i \in 0 .. c - 1 : Nodo(l, i) = s[i + 1] /\ i + 1 \in 1 .. c
  BY <1>1, <1>2
<1>6. \A i \in 1 .. c : i - 1 \in 0 .. c - 1 /\ Nodo(l, i - 1) = s[i]
  <2> SUFFICES ASSUME NEW i \in 1 .. c PROVE i - 1 \in 0 .. c - 1 /\ Nodo(l, i - 1) = s[i]
    OBVIOUS
  <2>1. i - 1 \in 0 .. c - 1 /\ i - 1 + 1 = i
    BY <1>1
  <2> QED
    BY <1>5, <2>1
<1>7. DeLaLista(l) = S
  BY <1>3, <1>4, <1>5, <1>6
<1> QED
  BY <1>7 DEF c, s, S

\* list_clean leaves the nodes of the other lists.
LEMMA HeapVaciado ==
  ASSUME NEW W, Heap(nodos, head, elements_count, W), NEW l \in Listas, list_clean(l)
  PROVE  Heap(nodos', head', elements_count', Con(W, l, << >>))
<1> DEFINE S == {W[l][i] : i \in 1 .. elements_count[l]}
           W2 == Con(W, l, << >>)
<1>1. /\ DOMAIN nodos \subseteq Nodos
      /\ \A x \in DOMAIN nodos :
           nodos[x] \in [data : Datos \cup {NULL}, next : Nodos \cup {NULL}]
      /\ head \in [Listas -> Nodos \cup {NULL}] /\ elements_count \in [Listas -> Nat]
      /\ \A k \in Listas : W[k] \in [1 .. elements_count[k] -> DOMAIN nodos]
      /\ \A k \in Listas : head[k] = IF elements_count[k] = 0 THEN NULL ELSE W[k][1]
      /\ \A k \in Listas : \A i \in 1 .. elements_count[k] :
           nodos[W[k][i]].next = IF i = elements_count[k] THEN NULL ELSE W[k][i + 1]
      /\ \A k, m \in Listas : \A i \in 1 .. elements_count[k], j \in 1 .. elements_count[m] :
           W[k][i] = W[m][j] => k = m /\ i = j
      /\ \A n \in DOMAIN nodos : \E k \in Listas : \E i \in 1 .. elements_count[k] : n = W[k][i]
  BY DEF Heap, Enlazadas
<1>2. DeLaLista(l) = S
  BY LosNodos
<1>3. /\ DOMAIN nodos' = DOMAIN nodos \ S /\ \A x \in DOMAIN nodos' : nodos'[x] = nodos[x]
      /\ head' = [k \in Listas |-> IF k = l THEN NULL ELSE head[k]]
      /\ elements_count' = [k \in Listas |-> IF k = l THEN 0 ELSE elements_count[k]]
  <2> HIDE DEF S
  <2> QED
    BY <1>1, <1>2 DEF list_clean
<1>4. W2[l] = << >> /\ \A k \in Listas : k # l => W2[k] = W[k]
  BY DEF Con
<1>5. \A k \in Listas : k # l =>
        \A i \in 1 .. elements_count[k] : W[k][i] \in DOMAIN nodos'
  <2> SUFFICES ASSUME NEW k \in Listas, k # l, NEW i \in 1 .. elements_count[k]
               PROVE  W[k][i] \in DOMAIN nodos \ S
    BY <1>3
  <2>1. W[k] \in [1 .. elements_count[k] -> DOMAIN nodos]
    BY <1>1
  <2>2. \A j \in 1 .. elements_count[l] : W[k][i] # W[l][j]
    BY <1>1
  <2> QED
    BY <2>1, <2>2
<1>6. \A n \in DOMAIN nodos' :
        \E k \in Listas : k # l /\ \E i \in 1 .. elements_count[k] : n = W[k][i]
  <2> SUFFICES ASSUME NEW n \in DOMAIN nodos \ S
               PROVE  \E k \in Listas : k # l /\ \E i \in 1 .. elements_count[k] : n = W[k][i]
    BY <1>3
  <2> QED
    BY <1>1
<1> HIDE DEF W2, S
<1>7. ASSUME NEW k \in Listas
      PROVE  elements_count'[k] \in Nat /\ W2[k] \in [1 .. elements_count'[k] -> DOMAIN nodos']
  <2>1. CASE k = l
    <3>1. elements_count'[k] = 0 /\ W2[k] = << >> /\ 1 .. 0 = {}
      BY <1>3, <1>4, <2>1
    <3>2. << >> \in [1 .. 0 -> DOMAIN nodos']
      BY EmptySeq, 1 .. 0 = {}
    <3> QED
      BY <3>1, <3>2
  <2>2. CASE k # l
    <3>1. elements_count'[k] = elements_count[k] /\ W2[k] = W[k]
      BY <1>3, <1>4, <2>2
    <3>2. W[k] \in [1 .. elements_count[k] -> DOMAIN nodos] /\ elements_count[k] \in Nat
      BY <1>1
    <3> QED
      BY <1>5, <2>2, <3>1, <3>2
  <2> QED
    BY <2>1, <2>2
<1>8. \A k \in Listas : head'[k] = IF elements_count'[k] = 0 THEN NULL ELSE W2[k][1]
  BY <1>1, <1>3, <1>4
<1>9. \A k \in Listas : \A i \in 1 .. elements_count'[k] :
        /\ k # l /\ elements_count'[k] = elements_count[k] /\ W2[k] = W[k]
        /\ i \in 1 .. elements_count[k]
  BY <1>3, <1>4
<1>10. \A k \in Listas : \A i \in 1 .. elements_count'[k] :
         nodos'[W2[k][i]].next = IF i = elements_count'[k] THEN NULL ELSE W2[k][i + 1]
  BY <1>1, <1>3, <1>5, <1>9
<1>11. \A k, m \in Listas : \A i \in 1 .. elements_count'[k], j \in 1 .. elements_count'[m] :
         W2[k][i] = W2[m][j] => k = m /\ i = j
  BY <1>1, <1>9
<1>12. \A n \in DOMAIN nodos' : \E k \in Listas : \E i \in 1 .. elements_count'[k] : n = W2[k][i]
  BY <1>3, <1>4, <1>6
<1>13. Enlazadas(nodos', head', elements_count', W2)
  BY <1>7, <1>8, <1>10, <1>11, <1>12 DEF Enlazadas
<1>14. /\ DOMAIN nodos' \subseteq Nodos
       /\ \A x \in DOMAIN nodos' :
            nodos'[x] \in [data : Datos \cup {NULL}, next : Nodos \cup {NULL}]
       /\ head' \in [Listas -> Nodos \cup {NULL}] /\ elements_count' \in [Listas -> Nat]
  BY <1>1, <1>3
<1> QED
  BY <1>13, <1>14 DEF Heap, W2

\* A change of a datum moves no node.
LEMMA HeapReemplazado ==
  ASSUME NEW W, Heap(nodos, head, elements_count, W), NEW l \in Listas, NEW i \in Nat,
         NEW d \in Datos, list_replace(l, i, d)
  PROVE  Heap(nodos', head', elements_count', W)
<1> DEFINE g == W[l][i + 1]
<1>1. /\ DOMAIN nodos \subseteq Nodos
      /\ \A x \in DOMAIN nodos :
           nodos[x] \in [data : Datos \cup {NULL}, next : Nodos \cup {NULL}]
      /\ \A k \in Listas : elements_count[k] \in Nat
      /\ \A k \in Listas : W[k] \in [1 .. elements_count[k] -> DOMAIN nodos]
      /\ Enlazadas(nodos, head, elements_count, W)
  BY DEF Heap, Enlazadas
<1>2. /\ elements_count[l] \in Nat /\ i < elements_count[l]
      /\ head' = head /\ elements_count' = elements_count
  BY <1>1 DEF list_replace, EnRango
<1>3. g \in DOMAIN nodos /\ list_get_element(l, i) = g
  <2>1. i + 1 \in 1 .. elements_count[l]
    BY <1>2
  <2> QED
    BY <1>1, <1>2, <2>1, ElNodo
<1>4. nodos' = [nodos EXCEPT ![g].data = d]
  BY <1>3 DEF list_replace
<1> HIDE DEF g
<1>5. /\ DOMAIN nodos' = DOMAIN nodos
      /\ \A x \in DOMAIN nodos :
           /\ nodos'[x] \in [data : Datos \cup {NULL}, next : Nodos \cup {NULL}]
           /\ nodos'[x].next = nodos[x].next
  BY <1>1, <1>3, <1>4
<1>6. \A k \in Listas : \A j \in 1 .. elements_count[k] : W[k][j] \in DOMAIN nodos
  BY <1>1
<1>7. Enlazadas(nodos', head', elements_count', W)
  BY <1>1, <1>2, <1>5, <1>6 DEF Enlazadas
<1> QED
  BY <1>2, <1>5, <1>7 DEF Heap

\* Of a list that has run out, list_take_and_remove takes NULL.
LEMMA TomarNada ==
  ASSUME NEW W, Heap(nodos, head, elements_count, W), origen \in Listas, destino \in Listas,
         origen # destino, Tomar, elements_count[origen] = 0
  PROVE  \E n : SumaNodo(nodos, head, elements_count, W, destino, elements_count[destino], n,
                         NULL, nodos', head', elements_count')
<1> DEFINE c == elements_count[destino]
           g == W[destino][c]
<1>1. /\ head \in [Listas -> Nodos \cup {NULL}] /\ elements_count \in [Listas -> Nat]
      /\ c \in Nat /\ W[destino] \in [1 .. c -> DOMAIN nodos]
      /\ \A x \in DOMAIN nodos : nodos[x] = [data |-> nodos[x].data, next |-> nodos[x].next]
      /\ head[origen] = NULL
  BY DEF Heap, Enlazadas
<1>2. PICK n \in Nodos \ DOMAIN nodos :
        LET nuevo == [k \in DOMAIN nodos \cup {n} |->
                        IF k = n THEN [data |-> NULL, next |-> NULL] ELSE nodos[k]]
        IN  /\ nodos' = IF c = 0 THEN nuevo ELSE Enlazar(nuevo, list_get_element(destino, c - 1), n)
            /\ head' = [head EXCEPT ![origen] = NULL, ![destino] = IF c = 0 THEN n ELSE @]
            /\ elements_count' = [elements_count EXCEPT ![origen] = @, ![destino] = @ + 1]
  BY <1>1 DEF Tomar
<1> DEFINE nuevo == [k \in DOMAIN nodos \cup {n} |->
                       IF k = n THEN [data |-> NULL, next |-> NULL] ELSE nodos[k]]
<1>3. /\ DOMAIN nuevo = DOMAIN nodos \union {n} /\ nuevo[n] = [data |-> NULL, next |-> NULL]
      /\ \A x \in DOMAIN nodos : nuevo[x] = [data |-> nodos[x].data, next |-> nodos[x].next]
  BY <1>1, <1>2
<1>4. nodos' = IF c = 0 THEN nuevo ELSE Enlazar(nuevo, list_get_element(destino, c - 1), n)
  BY <1>2
<1> HIDE DEF nuevo
<1>5. /\ head' = [k \in Listas |-> IF k = destino /\ c = 0 THEN n ELSE head[k]]
      /\ elements_count' = [k \in Listas |-> IF k = destino THEN c + 1 ELSE elements_count[k]]
  BY <1>1, <1>2
<1>6. c # 0 => list_get_element(destino, c - 1) = g /\ g \in DOMAIN nodos
  <2> SUFFICES ASSUME c # 0 PROVE list_get_element(destino, c - 1) = g /\ g \in DOMAIN nodos
    OBVIOUS
  <2>1. c - 1 \in Nat /\ c - 1 < c /\ c - 1 + 1 = c /\ c \in 1 .. c
    BY <1>1
  <2> QED
    BY <1>1, <2>1, ElNodo
<1> HIDE DEF c, g
<1>7. /\ DOMAIN nodos' = DOMAIN nodos \union {n} /\ nodos'[n] = [data |-> NULL, next |-> NULL]
      /\ \A x \in DOMAIN nodos :
           nodos'[x] = [data |-> nodos[x].data,
                        next |-> IF c > 0 /\ x = g THEN n ELSE nodos[x].next]
  <2>1. CASE c = 0
    <3>1. nodos' = nuevo /\ ~(c > 0)
      BY <1>4, <2>1
    <3> QED
      BY <1>3, <3>1
  <2>2. CASE c # 0
    <3>1. nodos' = Enlazar(nuevo, g, n) /\ g \in DOMAIN nodos /\ c > 0 /\ g # n
      BY <1>1, <1>2, <1>4, <1>6, <2>2
    <3>2. DOMAIN nodos' = DOMAIN nuevo /\ nodos'[n] = nuevo[n]
      BY <1>3, <3>1 DEF Enlazar
    <3>3. \A x \in DOMAIN nodos :
            nodos'[x] = [data |-> nodos[x].data,
                         next |-> IF x = g THEN n ELSE nodos[x].next]
      BY <1>3, <3>1 DEF Enlazar
    <3> QED
      BY <1>3, <3>1, <3>2, <3>3
  <2> QED
    BY <2>1, <2>2
<1>8. n \in Nodos \ DOMAIN nodos
  BY <1>2
<1>9. SumaNodo(nodos, head, elements_count, W, destino, c, n, NULL, nodos', head',
               elements_count')
  BY <1>5, <1>7, <1>8 DEF SumaNodo, c, g
<1> QED
  BY <1>9 DEF c

\* list_remove of the first node of origen and list_add of its datum to destino.
LEMMA TomarMueve ==
  ASSUME NEW W, Heap(nodos, head, elements_count, W), origen \in Listas, destino \in Listas,
         origen # destino, Tomar, elements_count[origen] # 0
  PROVE  \E n, q, hq, eq : LET W1 == Con(W, origen, Extraida(W[origen], elements_count[origen], 0))
         IN /\ RestaNodo(nodos, head, elements_count, W, origen, 0, q, hq, eq)
            /\ SumaNodo(q, hq, eq, W1, destino, elements_count[destino], n,
                        nodos[W[origen][1]].data, nodos', head', elements_count')
<1> DEFINE aux == head[origen]
           q == SinNodo(nodos, aux)
           d == nodos[aux].data
           hq == [k \in Listas |-> IF k = origen THEN nodos[aux].next ELSE head[k]]
           eq == [k \in Listas |-> IF k = origen THEN elements_count[origen] - 1
                                                 ELSE elements_count[k]]
           W1 == Con(W, origen, Extraida(W[origen], elements_count[origen], 0))
           c == elements_count[destino]
           g == W[destino][c]
<1>1. /\ head \in [Listas -> Nodos \cup {NULL}] /\ elements_count \in [Listas -> Nat]
      /\ DOMAIN nodos \subseteq Nodos /\ c \in Nat
      /\ \A x \in DOMAIN nodos :
           /\ nodos[x] = [data |-> nodos[x].data, next |-> nodos[x].next]
           /\ nodos[x].data \in Datos \cup {NULL}
      /\ W[origen] \in [1 .. elements_count[origen] -> DOMAIN nodos]
      /\ W[destino] \in [1 .. c -> DOMAIN nodos]
      /\ aux = W[origen][1]
      /\ \A i \in 1 .. elements_count[origen], j \in 1 .. c : W[origen][i] # W[destino][j]
  BY DEF Heap, Enlazadas
<1>2. /\ 1 \in 1 .. elements_count[origen] /\ aux \in DOMAIN nodos /\ aux # NULL
      /\ Siguiente(aux) = nodos[aux].next /\ Dato(aux) = d
  <2>1. 1 \in 1 .. elements_count[origen]
    BY <1>1
  <2>2. aux \in DOMAIN nodos
    BY <1>1, <2>1
  <2> QED
    BY <1>1, <2>1, <2>2, ConstantesOK DEF Siguiente, Dato
<1>3. /\ DOMAIN q = DOMAIN nodos \ {aux} /\ \A x \in DOMAIN q : q[x] = nodos[x]
  BY DEF SinNodo
<1>4. RestaNodo(nodos, head, elements_count, W, origen, 0, q, hq, eq)
  <2> HIDE DEF aux, q
  <2>1. \A x \in DOMAIN q : q[x] = [data |-> nodos[x].data, next |-> nodos[x].next]
    BY <1>1, <1>3
  <2> QED
    BY <1>1, <1>3, <2>1 DEF RestaNodo
<1>5. PICK n \in Nodos \ DOMAIN q :
        LET nuevo == [k \in DOMAIN q \cup {n} |->
                        IF k = n THEN [data |-> d, next |-> NULL] ELSE q[k]]
        IN  /\ nodos' = IF c = 0 THEN nuevo ELSE Enlazar(nuevo, list_get_element(destino, c - 1), n)
            /\ head' = [head EXCEPT ![origen] = nodos[aux].next,
                                    ![destino] = IF c = 0 THEN n ELSE @]
            /\ elements_count' = [elements_count EXCEPT ![origen] = @ - 1, ![destino] = @ + 1]
  BY <1>2 DEF Tomar
<1> DEFINE nuevo == [k \in DOMAIN q \cup {n} |->
                       IF k = n THEN [data |-> d, next |-> NULL] ELSE q[k]]
<1> HIDE DEF q, d, aux
<1>6. /\ DOMAIN nuevo = DOMAIN q \union {n} /\ nuevo[n] = [data |-> d, next |-> NULL]
      /\ \A x \in DOMAIN q : nuevo[x] = nodos[x]
  BY <1>3
<1>7. /\ nodos' = IF c = 0 THEN nuevo ELSE Enlazar(nuevo, list_get_element(destino, c - 1), n)
      /\ head' = [head EXCEPT ![origen] = nodos[aux].next, ![destino] = IF c = 0 THEN n ELSE @]
      /\ elements_count' = [elements_count EXCEPT ![origen] = @ - 1, ![destino] = @ + 1]
  BY <1>5
<1> HIDE DEF nuevo
<1>8. /\ head' = [k \in Listas |-> IF k = destino /\ c = 0 THEN n ELSE hq[k]]
      /\ elements_count' = [k \in Listas |-> IF k = destino THEN c + 1 ELSE eq[k]]
      /\ eq[destino] = c
  BY <1>1, <1>7
<1>9. /\ DOMAIN nodos' = DOMAIN q \union {n} /\ nodos'[n] = [data |-> d, next |-> NULL]
      /\ \A x \in DOMAIN q : nodos'[x] = [data |-> nodos[x].data,
                                          next |-> IF c > 0 /\ x = g THEN n ELSE nodos[x].next]
  <2>1. \A x \in DOMAIN q : nodos[x] = [data |-> nodos[x].data, next |-> nodos[x].next]
    BY <1>1, <1>3
  <2>2. CASE c = 0
    <3>1. nodos' = nuevo
      BY <1>7, <2>2
    <3> HIDE DEF g
    <3>2. ~(c > 0)
      BY <2>2
    <3> HIDE DEF c
    <3>3. \A x \in DOMAIN q : nodos'[x] = nodos[x]
      BY <1>6, <3>1
    <3>4. \A x \in DOMAIN q : nodos'[x] = [data |-> nodos[x].data,
                                          next |-> IF c > 0 /\ x = g THEN n ELSE nodos[x].next]
      BY <2>1, <3>2, <3>3
    <3> QED
      BY <1>6, <3>1, <3>4
  <2>3. CASE c # 0
    <3>1. list_get_element(destino, c - 1) = g /\ g \in DOMAIN nodos /\ g # aux
      <4>1. c - 1 \in Nat /\ c - 1 < c /\ c - 1 + 1 = c /\ c \in 1 .. c
        BY <1>1, <2>3
      <4>2. list_get_element(destino, c - 1) = g
        BY <4>1, ElNodo
      <4> HIDE DEF c
      <4> QED
        BY <1>1, <1>2, <4>1, <4>2
    <3>2. nodos' = Enlazar(nuevo, g, n) /\ g \in DOMAIN q /\ g # n /\ c > 0
      BY <1>1, <1>3, <1>5, <1>7, <2>3, <3>1
    <3> HIDE DEF g, c
    <3>3. \A x \in DOMAIN q : nuevo[x] = [data |-> nodos[x].data, next |-> nodos[x].next]
      BY <1>6, <2>1
    <3>4. DOMAIN nodos' = DOMAIN nuevo /\ nodos'[n] = nuevo[n]
      BY <1>6, <3>2 DEF Enlazar
    <3>5. \A x \in DOMAIN q : nodos'[x] = [data |-> nodos[x].data,
                                          next |-> IF x = g THEN n ELSE nodos[x].next]
      BY <1>6, <3>2, <3>3 DEF Enlazar
    <3> QED
      BY <1>6, <3>2, <3>4, <3>5
  <2> QED
    BY <2>2, <2>3
<1>10. W1[destino] = W[destino]
  BY DEF Con
<1>11. \A x \in DOMAIN q : q[x] = nodos[x]
  BY <1>3
<1>12. SumaNodo(q, hq, eq, W1, destino, c, n, d, nodos', head', elements_count')
  <2>1. g = W1[destino][c]
    BY <1>10
  <2> HIDE DEF W1, eq, hq, c, g
  <2>2. n \in Nodos \ DOMAIN q
    BY <1>5
  <2>3. \A x \in DOMAIN q : nodos'[x] = [data |-> q[x].data,
                                        next |-> IF c > 0 /\ x = W1[destino][c]
                                                   THEN n ELSE q[x].next]
    BY <1>9, <1>11, <2>1
  <2> QED
    BY <1>8, <1>9, <2>2, <2>3 DEF SumaNodo
<1>13. d = nodos[W[origen][1]].data
  BY <1>1 DEF d
<1> HIDE DEF hq, eq
<1> QED
  BY <1>4, <1>12, <1>13

-----------------------------------------------------------------------------
(* The invariant                                                           *)

Respuestas == Datos \cup {NULL} \cup 0 .. Cardinality(Nodos)

Tipos ==
  /\ pc \in {"libre", "iterar", "tomar"}
  /\ origen \in Listas /\ destino \in Listas
  /\ element \in Nodos \cup {NULL}
  /\ condition \subseteq Datos \cup {NULL}
  /\ count \in 0 .. Cardinality(Nodos) + 1
  /\ ret \in Respuestas
  /\ vivo \in BOOLEAN

\* A loop goes from one list to another, and an iteration is at a node of its origin.
EnBucle(p, o, dst, e, ec, W) ==
  /\ p # "libre" => o # dst
  /\ p = "iterar" => e = NULL \/ \E i \in 1 .. ec[o] : e = W[o][i]

IInv ==
  /\ Tipos
  /\ \E W : /\ Heap(nodos, head, elements_count, W)
            /\ EnBucle(pc, origen, destino, element, elements_count, W)

LEMMA Tamanio == Cardinality(Nodos) \in Nat
  BY ConstantesOK, FS_CardinalityType

LEMMA AlEmpezar == Init => IInv
<1> SUFFICES ASSUME Init PROVE IInv
  OBVIOUS
<1>1. Ninguna \in Listas
  BY ConstantesOK DEF Ninguna
<1>2. Tipos
  BY <1>1, Tamanio DEF Init, Tipos, Respuestas
<1> DEFINE W == [l \in Listas |-> << >>]
<1>3. DOMAIN nodos = {}
  BY DEF Init
<1>4. Enlazadas(nodos, head, elements_count, W)
  <2>1. 1 .. 0 = {} /\ << >> \in [1 .. 0 -> DOMAIN nodos]
    BY EmptySeq, 1 .. 0 = {}
  <2>2. \A l \in Listas : elements_count[l] = 0 /\ head[l] = NULL /\ W[l] = << >>
    BY DEF Init
  <2> HIDE DEF W
  <2>3. ASSUME NEW l \in Listas
        PROVE  elements_count[l] \in Nat /\ W[l] \in [1 .. elements_count[l] -> DOMAIN nodos]
    <3>1. elements_count[l] = 0 /\ W[l] = << >>
      BY <2>2
    <3> QED
      BY <2>1, <3>1
  <2>4. \A l \in Listas : \A i \in 1 .. elements_count[l] : FALSE
    BY <2>1, <2>2
  <2> QED
    BY <1>3, <2>2, <2>3, <2>4 DEF Enlazadas
<1> HIDE DEF W
<1>5. Heap(nodos, head, elements_count, W)
  BY <1>3, <1>4 DEF Heap, Init
<1>6. EnBucle(pc, origen, destino, element, elements_count, W)
  BY DEF EnBucle, Init
<1> QED
  BY <1>2, <1>5, <1>6 DEF IInv

\* A call ends with the heap in order and leaves the loop out of it.
LEMMA LlamadaCoherente ==
  ASSUME Tipos, NEW W, Heap(nodos, head, elements_count, W), pc = "libre",
         NEW l \in Listas, Llamada(l)
  PROVE  IInv'
<1> USE DEF Respuestas
<1>1. /\ elements_count[l] \in 0 .. Cardinality(Nodos) /\ elements_count[l] \in Nat
      /\ DOMAIN nodos \subseteq Nodos
      /\ \A x \in DOMAIN nodos : nodos[x].data \in Datos \cup {NULL}
      /\ W[l] \in [1 .. elements_count[l] -> DOMAIN nodos]
      /\ \A k \in Listas : head[k] \in Nodos \cup {NULL}
  <2>1. elements_count[l] \in 0 .. Cardinality(Nodos)
    BY CuantosNodos
  <2>2. /\ elements_count[l] \in Nat /\ DOMAIN nodos \subseteq Nodos
        /\ W[l] \in [1 .. elements_count[l] -> DOMAIN nodos]
        /\ \A k \in Listas : head[k] \in Nodos \cup {NULL}
    BY DEF Heap, Enlazadas
  <2>3. \A x \in DOMAIN nodos : nodos[x].data \in Datos \cup {NULL}
    BY DEF Heap
  <2> QED
    BY <2>1, <2>2, <2>3
<1>2. ASSUME UNCHANGED bucle, ret' \in Respuestas, vivo' \in BOOLEAN
      PROVE  Tipos' /\ \A V : EnBucle(pc', origen', destino', element', elements_count', V)
  BY <1>2 DEF Tipos, bucle, EnBucle
<1>3. ASSUME UNCHANGED lista
      PROVE  Heap(nodos', head', elements_count', W)
  BY <1>3 DEF lista
<1>4. ASSUME NEW i \in Nat, EnRango(l, i)
      PROVE  Dato(list_get_element(l, i)) \in Datos \cup {NULL}
  <2>1. i < elements_count[l] /\ i + 1 \in 1 .. elements_count[l]
    <3>1. i < elements_count[l]
      BY <1>1, <1>4 DEF EnRango
    <3> QED
      BY <1>1, <3>1
  <2>2. list_get_element(l, i) = W[l][i + 1] /\ W[l][i + 1] \in DOMAIN nodos
    BY <1>1, <2>1, ElNodo
  <2> QED
    BY <1>1, <2>2 DEF Dato
<1>5. ASSUME NEW d \in Datos, list_add(l, d) PROVE IInv'
  <2>1. PICK n : SumaNodo(nodos, head, elements_count, W, l, elements_count[l], n, d,
                          nodos', head', elements_count')
    BY <1>5, AlFinalSuma DEF list_add
  <2>2. \E V : Heap(nodos', head', elements_count', V)
    <3>1. elements_count[l] \in 0 .. elements_count[l] /\ d \in Datos \cup {NULL}
      BY <1>1
    <3> QED
      BY <2>1, <3>1, HeapConUnoMas
  <2>3. UNCHANGED bucle /\ ret' \in Respuestas /\ vivo' \in BOOLEAN
    BY <1>1, <1>5 DEF list_add, Tipos
  <2> QED
    BY <1>2, <2>2, <2>3 DEF IInv
<1>6. ASSUME NEW i \in 0 .. elements_count[l], NEW d \in Datos, list_add_in_index(l, i, d)
      PROVE  IInv'
  <2>1. PICK n : SumaNodo(nodos, head, elements_count, W, l, i, n, d,
                          nodos', head', elements_count')
    BY <1>6, EnElMedioSuma
  <2>2. \E V : Heap(nodos', head', elements_count', V)
    BY <2>1, HeapConUnoMas
  <2>3. UNCHANGED bucle /\ ret' \in Respuestas /\ vivo' \in BOOLEAN
    BY <1>6 DEF list_add_in_index, Tipos
  <2> QED
    BY <1>2, <2>2, <2>3 DEF IInv
<1>7. ASSUME NEW i \in 0 .. elements_count[l], NEW d \in Datos, list_replace(l, i, d)
      PROVE  IInv'
  <2>1. i \in Nat
    BY <1>1
  <2>2. Heap(nodos', head', elements_count', W)
    BY <1>7, <2>1, HeapReemplazado
  <2>3. UNCHANGED bucle /\ ret' \in Respuestas /\ vivo' \in BOOLEAN
    BY <1>4, <1>7, <2>1 DEF list_replace, Tipos
  <2> QED
    BY <1>2, <2>2, <2>3 DEF IInv
<1>8. ASSUME NEW i \in 0 .. elements_count[l], list_get(l, i) PROVE IInv'
  <2>1. i \in Nat
    BY <1>1
  <2>2. UNCHANGED bucle /\ UNCHANGED lista /\ ret' \in Respuestas /\ vivo' \in BOOLEAN
    BY <1>4, <1>8, <2>1 DEF list_get, Tipos
  <2> QED
    BY <1>2, <1>3, <2>2 DEF IInv
<1>9. ASSUME NEW i \in Nat, list_remove(l, i) PROVE IInv'
  <2>1. /\ i \in 0 .. elements_count[l] - 1 /\ EnRango(l, i)
        /\ RestaNodo(nodos, head, elements_count, W, l, i, nodos', head', elements_count')
    <3>1. EnRango(l, i)
      BY <1>9 DEF list_remove, Sacar
    <3> QED
      BY <1>9, <3>1, SacarResta DEF list_remove
  <2>2. \E V : Heap(nodos', head', elements_count', V)
    BY <2>1, HeapConUnoMenos
  <2>3. UNCHANGED bucle /\ ret' \in Respuestas /\ vivo' \in BOOLEAN
    BY <1>4, <1>9, <2>1 DEF list_remove, Tipos
  <2> QED
    BY <1>2, <2>2, <2>3 DEF IInv
<1>10. ASSUME NEW i, list_remove_fuera(l, i) PROVE IInv'
  <2>1. UNCHANGED bucle /\ UNCHANGED lista /\ ret' \in Respuestas /\ vivo' \in BOOLEAN
    BY <1>10 DEF list_remove_fuera, Tipos
  <2> QED
    BY <1>2, <1>3, <2>1 DEF IInv
<1>11. CASE list_remove_vacia(l)
  <2>1. UNCHANGED bucle /\ UNCHANGED lista /\ ret' \in Respuestas /\ vivo' \in BOOLEAN
    BY <1>11 DEF list_remove_vacia, Tipos
  <2> QED
    BY <1>2, <1>3, <2>1 DEF IInv
<1>12. ASSUME NEW C, list_remove_by_condition(l, C) PROVE IInv'
  <2>1. PICK i \in 0 .. Cardinality(Nodos) : list_remove(l, i)
    BY <1>12 DEF list_remove_by_condition
  <2>2. i \in Nat
    BY Tamanio
  <2> QED
    BY <1>9, <2>1, <2>2
<1>13. CASE list_clean(l)
  <2>1. \E V : Heap(nodos', head', elements_count', V)
    BY <1>13, HeapVaciado
  <2>2. UNCHANGED bucle /\ ret' \in Respuestas /\ vivo' \in BOOLEAN
    BY <1>13 DEF list_clean, Tipos
  <2> QED
    BY <1>2, <2>1, <2>2 DEF IInv
<1>14. ASSUME NEW m \in Listas \ {l}, NEW C \in (SUBSET Datos) \cup {Datos \cup {NULL}},
              EmpezarIteracion(l, m, C)
       PROVE  IInv'
  <2>1. Heap(nodos', head', elements_count', W)
    BY <1>3, <1>14 DEF EmpezarIteracion
  <2>2. /\ pc' = "iterar" /\ destino' = l /\ origen' = m /\ element' = head[m]
        /\ condition' = C /\ count' = count /\ ret' = ret /\ vivo' = vivo
        /\ elements_count' = elements_count
    BY <1>14 DEF EmpezarIteracion, lista
  <2>3. Tipos'
    <3>1. head[m] \in Nodos \cup {NULL}
      BY <1>1
    <3>2. C \subseteq Datos \cup {NULL}
      OBVIOUS
    <3> QED
      BY <2>2, <3>1, <3>2 DEF Tipos
  <2>4. head[m] = NULL \/ \E i \in 1 .. elements_count[m] : head[m] = W[m][i]
    <3>1. head[m] = (IF elements_count[m] = 0 THEN NULL ELSE W[m][1]) /\ elements_count[m] \in Nat
      BY DEF Heap, Enlazadas
    <3>2. elements_count[m] # 0 => 1 \in 1 .. elements_count[m]
      BY <3>1
    <3> QED
      BY <3>1, <3>2
  <2>5. EnBucle(pc', origen', destino', element', elements_count', W)
    BY <2>2, <2>4 DEF EnBucle
  <2> QED
    BY <2>1, <2>3, <2>5 DEF IInv
<1>15. ASSUME NEW m \in Listas \ {l}, NEW n \in 0 .. elements_count[m] + 1, EmpezarTomar(l, m, n)
       PROVE  IInv'
  <2>1. Heap(nodos', head', elements_count', W)
    BY <1>3, <1>15 DEF EmpezarTomar
  <2>2. /\ pc' = "tomar" /\ destino' = l /\ origen' = m /\ count' = n
        /\ element' = element /\ condition' = condition /\ ret' = ret /\ vivo' = vivo
    BY <1>15 DEF EmpezarTomar
  <2>3. n \in 0 .. Cardinality(Nodos) + 1
    <3>1. elements_count[m] \in 0 .. Cardinality(Nodos)
      BY CuantosNodos
    <3> QED
      BY <3>1, Tamanio
  <2>4. Tipos'
    BY <2>2, <2>3 DEF Tipos
  <2>5. EnBucle(pc', origen', destino', element', elements_count', W)
    BY <2>2 DEF EnBucle
  <2> QED
    BY <2>1, <2>4, <2>5 DEF IInv
<1>16. elements_count[l] \in Nat /\ \A i \in 0 .. elements_count[l] : i \in Nat
  BY <1>1
<1> QED
  BY <1>5, <1>6, <1>7, <1>8, <1>9, <1>10, <1>11, <1>12, <1>13, <1>14, <1>15, <1>16 DEF Llamada

\* Each turn of a loop moves the heap as list_add and list_remove do, and the loop stays at a
\* node of its origin.
LEMMA BucleCoherente ==
  ASSUME Tipos, NEW W, Heap(nodos, head, elements_count, W),
         EnBucle(pc, origen, destino, element, elements_count, W), PasoDelBucle
  PROVE  IInv'
<1> DEFINE c == elements_count[destino]
<1>1. /\ elements_count \in [Listas -> Nat]
      /\ DOMAIN nodos \subseteq Nodos /\ c \in Nat
      /\ \A x \in DOMAIN nodos : nodos[x].data \in Datos \cup {NULL}
      /\ W[origen] \in [1 .. elements_count[origen] -> DOMAIN nodos]
      /\ origen \in Listas /\ destino \in Listas
  BY DEF Heap, Enlazadas, Tipos
<1>2. CASE Iterar
  <2>1. /\ pc = "iterar" /\ element # NULL /\ element' = Siguiente(element) /\ origen # destino
        /\ IF Dato(element) \in condition
             THEN AlFinal(destino, Dato(element)) ELSE UNCHANGED lista
        /\ UNCHANGED <<pc, origen, destino, condition, count, ret, vivo>>
    BY <1>2 DEF Iterar, EnBucle
  <2>2. PICK i \in 1 .. elements_count[origen] : element = W[origen][i]
    BY <2>1 DEF EnBucle
  <2>3. element \in DOMAIN nodos /\ Siguiente(element) = nodos[element].next
        /\ Dato(element) \in Datos \cup {NULL}
    BY <1>1, <2>2 DEF Siguiente, Dato
  <2>4. nodos[element].next = IF i = elements_count[origen] THEN NULL ELSE W[origen][i + 1]
    BY <1>1, <2>2 DEF Heap, Enlazadas
  <2>5. element' = NULL \/ \E j \in 1 .. elements_count[origen] : element' = W[origen][j]
    <3>1. i # elements_count[origen] => i + 1 \in 1 .. elements_count[origen]
      BY <1>1
    <3> QED
      BY <2>1, <2>3, <2>4, <3>1
  <2>6. element' \in Nodos \cup {NULL}
    BY <1>1, <2>5
  <2>7. Tipos'
    BY <2>1, <2>6 DEF Tipos
  <2>8. CASE Dato(element) \in condition
    <3>1. PICK n : SumaNodo(nodos, head, elements_count, W, destino, c, n, Dato(element),
                            nodos', head', elements_count')
      BY <1>1, <2>1, <2>3, <2>8, AlFinalSuma
    <3> DEFINE V == Con(W, destino, Insertada(W[destino], c, c, n))
    <3>2. Heap(nodos', head', elements_count', V)
      <4>1. c \in 0 .. c
        BY <1>1
      <4> QED
        BY <1>1, <2>3, <3>1, <4>1, HeapConUnoMas
    <3>3. V[origen] = W[origen] /\ elements_count'[origen] = elements_count[origen]
      BY <1>1, <2>1, <3>1 DEF Con, SumaNodo
    <3> HIDE DEF V
    <3>4. EnBucle(pc', origen', destino', element', elements_count', V)
      BY <2>1, <2>5, <3>3 DEF EnBucle
    <3> QED
      BY <2>7, <3>2, <3>4 DEF IInv
  <2>9. CASE Dato(element) \notin condition
    <3>1. Heap(nodos', head', elements_count', W) /\ elements_count' = elements_count
      BY <2>1, <2>9 DEF lista
    <3>2. EnBucle(pc', origen', destino', element', elements_count', W)
      BY <2>1, <2>5, <3>1 DEF EnBucle
    <3> QED
      BY <2>7, <3>1, <3>2 DEF IInv
  <2> QED
    BY <2>8, <2>9
<1>3. CASE FinDeIteracion \/ FinDeTomar
  <2>1. /\ UNCHANGED lista /\ pc' = "libre" /\ element' = element
        /\ origen' = Ninguna /\ destino' = Ninguna
        /\ condition' \in {condition, {}} /\ UNCHANGED <<count, ret, vivo>>
    BY <1>3 DEF FinDeIteracion, FinDeTomar
  <2>2. Heap(nodos', head', elements_count', W)
    BY <2>1 DEF lista
  <2>3. Ninguna \in Listas
    BY ConstantesOK DEF Ninguna
  <2>4. Tipos'
    BY <2>1, <2>3 DEF Tipos
  <2>5. EnBucle(pc', origen', destino', element', elements_count', W)
    BY <2>1 DEF EnBucle
  <2> QED
    BY <2>2, <2>4, <2>5 DEF IInv
<1>4. CASE Tomar
  <2>1. /\ pc = "tomar" /\ count > 0 /\ count' = count - 1 /\ origen # destino
        /\ UNCHANGED <<pc, origen, destino, element, condition, ret, vivo>>
    BY <1>4 DEF Tomar, EnBucle
  <2>2. Tipos'
    <3>1. count' \in 0 .. Cardinality(Nodos) + 1
      BY <2>1, Tamanio DEF Tipos
    <3> QED
      BY <2>1, <3>1 DEF Tipos
  <2>3. \A V : EnBucle(pc', origen', destino', element', elements_count', V)
    BY <2>1 DEF EnBucle
  <2>4. CASE elements_count[origen] = 0
    <3>1. PICK n : SumaNodo(nodos, head, elements_count, W, destino, c, n, NULL,
                            nodos', head', elements_count')
      BY <1>1, <1>4, <2>1, <2>4, TomarNada
    <3>2. c \in 0 .. c /\ NULL \in Datos \cup {NULL}
      BY <1>1
    <3>3. \E V : Heap(nodos', head', elements_count', V)
      BY <1>1, <3>1, <3>2, HeapConUnoMas
    <3> QED
      BY <2>2, <2>3, <3>3 DEF IInv
  <2>5. CASE elements_count[origen] # 0
    <3> DEFINE W1 == Con(W, origen, Extraida(W[origen], elements_count[origen], 0))
               d == nodos[W[origen][1]].data
    <3>1. PICK n, q, hq, eq :
            /\ RestaNodo(nodos, head, elements_count, W, origen, 0, q, hq, eq)
            /\ SumaNodo(q, hq, eq, W1, destino, c, n, d, nodos', head', elements_count')
      BY <1>1, <1>4, <2>1, <2>5, TomarMueve
    <3>2. Heap(q, hq, eq, W1)
      <4>1. 0 \in 0 .. elements_count[origen] - 1
        BY <1>1, <2>5
      <4> QED
        BY <1>1, <3>1, <4>1, HeapConUnoMenos
    <3>3. eq[destino] = c /\ c \in 0 .. eq[destino] /\ d \in Datos \cup {NULL}
      <4>1. eq[destino] = c
        BY <1>1, <2>1, <3>1 DEF RestaNodo
      <4>2. 1 \in 1 .. elements_count[origen]
        BY <1>1, <2>5
      <4> QED
        BY <1>1, <4>1, <4>2
    <3> HIDE DEF W1, d
    <3>4. \E V : Heap(nodos', head', elements_count', V)
      BY <1>1, <3>1, <3>2, <3>3, HeapConUnoMas
    <3> QED
      BY <2>2, <2>3, <3>4 DEF IInv
  <2> QED
    BY <2>4, <2>5
<1> QED
  BY <1>2, <1>3, <1>4 DEF PasoDelBucle

LEMMA CadaPaso == IInv /\ [Next]_vars => IInv'
<1> SUFFICES ASSUME IInv, [Next]_vars PROVE IInv'
  OBVIOUS
<1>1. PICK W : /\ Heap(nodos, head, elements_count, W)
               /\ EnBucle(pc, origen, destino, element, elements_count, W)
  BY DEF IInv
<1>2. Tipos
  BY DEF IInv
<1>3. CASE pc = "libre" /\ \E l \in Listas : Llamada(l)
  BY <1>1, <1>2, <1>3, LlamadaCoherente
<1>4. CASE PasoDelBucle
  BY <1>1, <1>2, <1>4, BucleCoherente
<1>5. CASE UNCHANGED vars
  <2>1. Tipos'
    BY <1>2, <1>5 DEF Tipos, Respuestas, vars, lista, bucle
  <2>2. /\ nodos' = nodos /\ head' = head /\ elements_count' = elements_count
        /\ pc' = pc /\ origen' = origen /\ destino' = destino /\ element' = element
    BY <1>5 DEF vars, lista, bucle
  <2> QED
    BY <1>1, <2>1, <2>2 DEF IInv
<1> QED
  BY <1>3, <1>4, <1>5 DEF Next

-----------------------------------------------------------------------------
(* What it says of the lists                                               *)

LEMMA ElHeap == IInv => HeapCoherente
<1> SUFFICES ASSUME IInv PROVE HeapCoherente
  OBVIOUS
<1>1. PICK W : Heap(nodos, head, elements_count, W)
  BY DEF IInv
<1>2. /\ \A n \in DOMAIN nodos :
           nodos[n] \in [data : Datos \cup {NULL}, next : Nodos \cup {NULL}]
      /\ head \in [Listas -> Nodos \cup {NULL}] /\ elements_count \in [Listas -> Nat]
      /\ \A l, m \in Listas : \A i \in 1 .. elements_count[l], j \in 1 .. elements_count[m] :
           W[l][i] = W[m][j] => l = m /\ i = j
      /\ \A n \in DOMAIN nodos : \E l \in Listas : \E i \in 1 .. elements_count[l] : n = W[l][i]
  BY <1>1 DEF Heap, Enlazadas
<1>3. ASSUME NEW l \in Listas
      PROVE  /\ DeLaLista(l) = {W[l][i] : i \in 1 .. elements_count[l]}
             /\ BienEnlazada(l)
             /\ elements_count[l] \in 0 .. Cardinality(Nodos)
  <2>1. DeLaLista(l) = {W[l][i] : i \in 1 .. elements_count[l]}
    BY <1>1, LosNodos
  <2>2. /\ DeLaLista(l) \subseteq DOMAIN nodos /\ Cardinality(DeLaLista(l)) = elements_count[l]
        /\ elements_count[l] \in 0 .. Cardinality(Nodos)
    <3> DEFINE S == {W[l][i] : i \in 1 .. elements_count[l]}
    <3>1. /\ S \subseteq DOMAIN nodos /\ Cardinality(S) = elements_count[l]
          /\ elements_count[l] \in 0 .. Cardinality(Nodos)
      BY <1>1, CuantosNodos
    <3> HIDE DEF S
    <3>2. DeLaLista(l) = S
      BY <2>1 DEF S
    <3> QED
      BY <3>1, <3>2
  <2>3. Nodo(l, elements_count[l]) = NULL
    <3>1. elements_count[l] \in Nat /\ ~(elements_count[l] < elements_count[l])
      BY <1>2
    <3> QED
      BY <1>1, <3>1, ElNodo
  <2> QED
    BY <2>1, <2>2, <2>3 DEF BienEnlazada
<1>4. TypeOK
  <2>1. elements_count \in [Listas -> 0 .. Cardinality(Nodos)]
    BY <1>2, <1>3
  <2> QED
    BY <1>2, <2>1 DEF IInv, Tipos, Respuestas, TypeOK
<1>5. ASSUME NEW n \in DOMAIN nodos
      PROVE  Cardinality({l \in Listas : n \in DeLaLista(l)}) = 1
  <2>1. PICK l \in Listas : \E i \in 1 .. elements_count[l] : n = W[l][i]
    BY <1>2
  <2>2. PICK i \in 1 .. elements_count[l] : n = W[l][i]
    BY <2>1
  <2>3. \A m \in Listas : n \in DeLaLista(m) <=> m = l
    <3>1. n \in DeLaLista(l)
      BY <1>3, <2>2
    <3>2. ASSUME NEW m \in Listas, n \in DeLaLista(m) PROVE m = l
      <4>1. PICK j \in 1 .. elements_count[m] : n = W[m][j]
        BY <1>3, <3>2
      <4>2. W[l][i] = W[m][j]
        BY <2>2, <4>1
      <4> QED
        BY <1>2, <4>2
    <3> QED
      BY <3>1, <3>2
  <2>4. {m \in Listas : n \in DeLaLista(m)} = {l}
    BY <2>3
  <2> QED
    BY <2>4, FS_Singleton
<1> QED
  BY <1>3, <1>4, <1>5 DEF HeapCoherente

\* Whatever the calls and in whatever order, each list is the chain its count says, and each
\* node alive is in one list.
THEOREM HeapSiempreCoherente == Spec => []HeapCoherente
<1>1. Spec => []IInv
  BY AlEmpezar, CadaPaso, PTL DEF Spec
<1> QED
  BY <1>1, ElHeap, PTL

-----------------------------------------------------------------------------
(* The elements of a sequence that are in a set                            *)

\* What UltimosQue takes of the k-th element from the end.
Elegido(s, C, k) == IF s[Len(s) - k + 1] \in C THEN <<s[Len(s) - k + 1]>> ELSE << >>

\* f obeys the recursion of UltimosQue up to n.
Sigue(f, s, C, n) ==
  /\ f[0] = << >>
  /\ \A k \in 1 .. n : f[k] = Elegido(s, C, k) \o f[k - 1]

LEMMA HayUltimos ==
  ASSUME NEW s, NEW C
  PROVE  \A n \in Nat : \E f : Sigue(f, s, C, n)
<1> DEFINE D == {n \in Nat : ~\E f : Sigue(f, s, C, n)}
<1> SUFFICES ASSUME D # {} PROVE FALSE
  OBVIOUS
<1>1. PICK m \in D : \A k \in D : ~(<<k, m>> \in OpToRel(<, Nat))
  BY NatLessThanWellFounded, WFMin
<1>2. m # 0
  <2> DEFINE g == [k \in Nat |-> << >>]
  <2>1. g[0] = << >> /\ 1 .. 0 = {}
    OBVIOUS
  <2>2. Sigue(g, s, C, 0)
    BY <2>1 DEF Sigue
  <2> QED
    BY <1>1, <2>2
<1>3. m \in Nat /\ m - 1 \in Nat
  <2>1. m \in Nat
    OBVIOUS
  <2> QED
    BY <1>2, <2>1
<1>4. m - 1 \notin D
  <2>1. <<m - 1, m>> \in OpToRel(<, Nat)
    BY <1>3 DEF OpToRel
  <2> QED
    BY <1>1, <2>1
<1>5. PICK f : Sigue(f, s, C, m - 1)
  BY <1>3, <1>4
<1> DEFINE g == [k \in Nat |-> IF k = m THEN Elegido(s, C, m) \o f[m - 1] ELSE f[k]]
<1>6. g[0] = << >> /\ g[m] = Elegido(s, C, m) \o g[m - 1]
  BY <1>2, <1>3, <1>5 DEF Sigue
<1>7. ASSUME NEW k \in 1 .. m - 1 PROVE g[k] = Elegido(s, C, k) \o g[k - 1]
  <2>1. k \in Nat /\ k - 1 \in Nat /\ k # m /\ k - 1 # m
    BY <1>3
  <2>2. f[k] = Elegido(s, C, k) \o f[k - 1]
    BY <1>5 DEF Sigue
  <2> QED
    BY <2>1, <2>2
<1> HIDE DEF g
<1>8. \A k \in 1 .. m : k = m \/ k \in 1 .. m - 1
  BY <1>3
<1>9. Sigue(g, s, C, m)
  BY <1>6, <1>7, <1>8 DEF Sigue
<1> QED
  BY <1>1, <1>9

LEMMA MismosUltimos ==
  ASSUME NEW s, NEW C, NEW f, NEW g, NEW n \in Nat,
         Sigue(f, s, C, n), Sigue(g, s, C, n)
  PROVE  \A k \in 0 .. n : f[k] = g[k]
<1> DEFINE D == {k \in Nat : k <= n /\ f[k] # g[k]}
<1>1. D = {}
  <2> SUFFICES ASSUME D # {} PROVE FALSE
    OBVIOUS
  <2>1. PICK m \in D : \A k \in D : ~(<<k, m>> \in OpToRel(<, Nat))
    BY NatLessThanWellFounded, WFMin
  <2>2. m \in 1 .. n /\ m \in Nat /\ m - 1 \in Nat /\ m - 1 <= n
    <3>1. m # 0
      BY DEF Sigue
    <3> QED
      BY <3>1
  <2>3. <<m - 1, m>> \in OpToRel(<, Nat)
    BY <2>2 DEF OpToRel
  <2>4. f[m - 1] = g[m - 1]
    BY <2>1, <2>2, <2>3
  <2>5. f[m] = Elegido(s, C, m) \o f[m - 1] /\ g[m] = Elegido(s, C, m) \o g[m - 1]
    BY <2>2 DEF Sigue
  <2> QED
    BY <2>1, <2>4, <2>5
<1>2. \A k \in 0 .. n : k \in Nat /\ k <= n
  OBVIOUS
<1> QED
  BY <1>1, <1>2

\* UltimosQue is what its definition says: there is a function that obeys the recursion.
LEMMA UltimosQueEs ==
  ASSUME NEW s, NEW C
  PROVE  /\ UltimosQue(s, C, 0) = << >>
         /\ \A k \in Nat \ {0} :
              UltimosQue(s, C, k) = Elegido(s, C, k) \o UltimosQue(s, C, k - 1)
<1> DEFINE h(n) == CHOOSE f : Sigue(f, s, C, n)
           G == [n \in Nat |-> h(n)[n]]
           F == CHOOSE f : f = [k \in Nat |-> IF k = 0 THEN << >> ELSE Elegido(s, C, k) \o f[k - 1]]
<1>1. \A n \in Nat : Sigue(h(n), s, C, n)
  BY HayUltimos
<1> HIDE DEF h
<1>2. G[0] = << >>
  BY <1>1 DEF Sigue
<1>3. ASSUME NEW n \in Nat \ {0} PROVE G[n] = Elegido(s, C, n) \o G[n - 1]
  <2>1. n - 1 \in Nat /\ n \in 1 .. n /\ n - 1 \in 0 .. n - 1
    OBVIOUS
  <2>2. Sigue(h(n), s, C, n) /\ Sigue(h(n - 1), s, C, n - 1)
    BY <1>1, <2>1
  <2>3. Sigue(h(n), s, C, n - 1)
    <3>1. \A k \in 1 .. n - 1 : k \in 1 .. n
      BY <2>1
    <3> QED
      BY <2>2, <3>1 DEF Sigue
  <2>4. h(n)[n - 1] = h(n - 1)[n - 1]
    BY <2>1, <2>2, <2>3, MismosUltimos
  <2>5. h(n)[n] = Elegido(s, C, n) \o h(n)[n - 1]
    BY <2>1, <2>2 DEF Sigue
  <2> QED
    BY <2>1, <2>4, <2>5
<1>4. G = [k \in Nat |-> IF k = 0 THEN << >> ELSE Elegido(s, C, k) \o G[k - 1]]
  <2>1. G = [k \in Nat |-> G[k]]
    OBVIOUS
  <2> HIDE DEF G
  <2> QED
    BY <1>2, <1>3, <2>1
<1> HIDE DEF G
<1>5. F = [k \in Nat |-> IF k = 0 THEN << >> ELSE Elegido(s, C, k) \o F[k - 1]]
  BY <1>4
<1>6. \A n : UltimosQue(s, C, n) = F[n]
  BY DEF UltimosQue, Elegido
<1> HIDE DEF F
<1>7. /\ F[0] = << >>
      /\ \A k \in Nat \ {0} : F[k] = Elegido(s, C, k) \o F[k - 1]
  BY <1>5
<1> QED
  BY <1>6, <1>7

LEMMA TipoUltimos ==
  ASSUME NEW S, NEW s \in Seq(S), NEW C
  PROVE  \A k \in 0 .. Len(s) : UltimosQue(s, C, k) \in Seq(S)
<1> DEFINE D == {k \in Nat : k <= Len(s) /\ UltimosQue(s, C, k) \notin Seq(S)}
<1>1. D = {}
  <2> SUFFICES ASSUME D # {} PROVE FALSE
    OBVIOUS
  <2>1. PICK m \in D : \A k \in D : ~(<<k, m>> \in OpToRel(<, Nat))
    BY NatLessThanWellFounded, WFMin
  <2>2. m \in Nat \ {0} /\ m - 1 \in Nat /\ m - 1 <= Len(s) /\ m <= Len(s) /\ Len(s) \in Nat
    <3>1. m # 0
      BY UltimosQueEs, EmptySeq
    <3>2. m \in Nat /\ m <= Len(s) /\ Len(s) \in Nat
      BY LenProperties
    <3> QED
      BY <3>1, <3>2
  <2>3. <<m - 1, m>> \in OpToRel(<, Nat)
    BY <2>2 DEF OpToRel
  <2>4. UltimosQue(s, C, m - 1) \in Seq(S)
    BY <2>1, <2>2, <2>3
  <2>5. Elegido(s, C, m) \in Seq(S)
    <3>1. Len(s) - m + 1 \in 1 .. Len(s)
      BY <2>2
    <3>2. s[Len(s) - m + 1] \in S
      BY <3>1, ElementOfSeq
    <3> QED
      BY <3>2, EmptySeq DEF Elegido
  <2>6. UltimosQue(s, C, m) = Elegido(s, C, m) \o UltimosQue(s, C, m - 1)
    BY <2>2, UltimosQueEs
  <2>7. UltimosQue(s, C, m) \in Seq(S)
    BY <2>4, <2>5, <2>6, ConcatProperties
  <2> QED
    BY <2>7
<1>2. \A k \in 0 .. Len(s) : k \in Nat /\ k <= Len(s)
  BY LenProperties
<1> QED
  BY <1>1, <1>2

-----------------------------------------------------------------------------
(* A sequence with an element more, and with one less                      *)

\* t is the sequence s over S with d after its first i.
ConDato(t, S, s, i, d) ==
  /\ t \in Seq(S) /\ Len(t) = Len(s) + 1
  /\ \A j \in 1 .. Len(s) + 1 :
       t[j] = IF j <= i THEN s[j] ELSE IF j = i + 1 THEN d ELSE s[j - 1]

LEMMA ConUnElemento ==
  ASSUME NEW S, NEW s \in Seq(S), NEW d \in S, NEW i \in 0 .. Len(s)
  PROVE  ConDato(Secuencias!InsertAt(s, i + 1, d), S, s, i, d)
<1>1. Len(s) \in Nat /\ i \in Nat /\ i <= Len(s) /\ \A j \in 1 .. Len(s) : s[j] \in S
  BY LenProperties, ElementOfSeq
<1> DEFINE a == SubSeq(s, 1, i)
           b == SubSeq(s, i + 1, Len(s))
           c == a \o <<d>>
<1>2. a \in Seq(S) /\ Len(a) = i /\ \A j \in 1 .. i : a[j] = s[j]
  <2>1. 1 \in Int /\ i \in Int /\ \A j \in 1 .. i : s[j] \in S
    BY <1>1
  <2>2. /\ a \in Seq(S) /\ Len(a) = IF 1 <= i THEN i - 1 + 1 ELSE 0
        /\ \A j \in 1 .. i - 1 + 1 : a[j] = s[1 + j - 1]
    BY <2>1, SubSeqProperties
  <2> HIDE DEF a
  <2> QED
    BY <1>1, <2>2
<1>3. /\ b \in Seq(S) /\ Len(b) = Len(s) - i
      /\ \A j \in 1 .. Len(s) - i : b[j] = s[i + j]
  <2>1. i + 1 \in Int /\ Len(s) \in Int /\ \A j \in i + 1 .. Len(s) : s[j] \in S
    BY <1>1
  <2>2. /\ b \in Seq(S) /\ Len(b) = IF i + 1 <= Len(s) THEN Len(s) - (i + 1) + 1 ELSE 0
        /\ \A j \in 1 .. Len(s) - (i + 1) + 1 : b[j] = s[i + 1 + j - 1]
    BY <2>1, SubSeqProperties
  <2> HIDE DEF b
  <2> QED
    BY <1>1, <2>2
<1>4. Secuencias!InsertAt(s, i + 1, d) = c \o b
  <2>1. i + 1 - 1 = i
    BY <1>1
  <2> DEFINE k == i + 1
  <2>2. Secuencias!InsertAt(s, k, d) = SubSeq(s, 1, k - 1) \o <<d>> \o SubSeq(s, k, Len(s))
    BY Zenon DEF Secuencias!InsertAt
  <2>3. SubSeq(s, 1, k - 1) = a
    BY <2>1
  <2> HIDE DEF a
  <2> QED
    BY <2>2, <2>3
<1> HIDE DEF a, b
<1>5. /\ c \in Seq(S) /\ Len(c) = i + 1
      /\ \A j \in 1 .. i : c[j] = s[j]
      /\ c[i + 1] = d
  <2>1. <<d>> \in Seq(S) /\ Len(<<d>>) = 1 /\ <<d>>[1] = d
    OBVIOUS
  <2>2. /\ c \in Seq(S) /\ Len(c) = Len(a) + 1
        /\ \A j \in 1 .. Len(a) + 1 : c[j] = IF j <= Len(a) THEN a[j] ELSE <<d>>[j - Len(a)]
    BY <1>2, <2>1, ConcatProperties
  <2>3. c[i + 1] = <<d>>[1]
    BY <1>1, <1>2, <2>2
  <2> HIDE DEF c
  <2>4. ASSUME NEW j \in 1 .. i PROVE c[j] = s[j]
    BY <1>1, <1>2, <2>2
  <2> QED
    BY <1>1, <1>2, <2>1, <2>2, <2>3, <2>4
<1> HIDE DEF c
<1>6. /\ c \o b \in Seq(S) /\ Len(c \o b) = Len(c) + Len(b)
      /\ \A j \in 1 .. Len(c) + Len(b) : (c \o b)[j] = IF j <= Len(c) THEN c[j] ELSE b[j - Len(c)]
  BY <1>3, <1>5, ConcatProperties
<1>7. Len(c \o b) = Len(s) + 1
  BY <1>1, <1>3, <1>5, <1>6
<1>8. ASSUME NEW j \in 1 .. Len(s) + 1
      PROVE  (c \o b)[j] = IF j <= i THEN s[j] ELSE IF j = i + 1 THEN d ELSE s[j - 1]
  <2>1. j \in 1 .. Len(c) + Len(b) /\ j \in Nat
    BY <1>1, <1>3, <1>5
  <2>2. CASE j <= i
    BY <1>1, <1>5, <1>6, <2>1, <2>2
  <2>3. CASE j = i + 1
    BY <1>1, <1>5, <1>6, <2>1, <2>3
  <2>4. CASE j > i + 1
    <3>1. j - (i + 1) \in 1 .. Len(s) - i /\ i + (j - (i + 1)) = j - 1 /\ ~(j <= i + 1)
      BY <1>1, <2>1, <2>4
    <3>2. (c \o b)[j] = b[j - (i + 1)] /\ b[j - (i + 1)] = s[j - 1]
      BY <1>3, <1>5, <1>6, <2>1, <3>1
    <3> QED
      BY <1>1, <2>1, <2>4, <3>2
  <2> QED
    BY <1>1, <2>1, <2>2, <2>3, <2>4
<1> QED
  BY <1>4, <1>6, <1>7, <1>8 DEF ConDato

LEMMA SinUnElemento ==
  ASSUME NEW S, NEW s \in Seq(S), NEW i \in 0 .. Len(s) - 1
  PROVE  /\ Secuencias!RemoveAt(s, i + 1) \in Seq(S)
         /\ Len(Secuencias!RemoveAt(s, i + 1)) = Len(s) - 1
         /\ \A j \in 1 .. Len(s) - 1 :
              Secuencias!RemoveAt(s, i + 1)[j] = IF j <= i THEN s[j] ELSE s[j + 1]
<1>1. /\ Len(s) \in Nat /\ i \in Nat /\ i + 1 <= Len(s)
      /\ \A j \in 1 .. Len(s) : s[j] \in S
  BY LenProperties, ElementOfSeq
<1> DEFINE a == SubSeq(s, 1, i)
           b == SubSeq(s, i + 1 + 1, Len(s))
<1>2. a \in Seq(S) /\ Len(a) = i /\ \A j \in 1 .. i : a[j] = s[j]
  <2>1. 1 \in Int /\ i \in Int /\ \A j \in 1 .. i : s[j] \in S
    BY <1>1
  <2>2. /\ a \in Seq(S) /\ Len(a) = IF 1 <= i THEN i - 1 + 1 ELSE 0
        /\ \A j \in 1 .. i - 1 + 1 : a[j] = s[1 + j - 1]
    BY <2>1, SubSeqProperties
  <2> HIDE DEF a
  <2> QED
    BY <1>1, <2>2
<1>3. /\ b \in Seq(S) /\ Len(b) = Len(s) - (i + 1)
      /\ \A j \in 1 .. Len(s) - (i + 1) : b[j] = s[i + 1 + j]
  <2>1. i + 1 + 1 \in Int /\ Len(s) \in Int /\ \A j \in i + 1 + 1 .. Len(s) : s[j] \in S
    BY <1>1
  <2>2. /\ b \in Seq(S)
        /\ Len(b) = IF i + 1 + 1 <= Len(s) THEN Len(s) - (i + 1 + 1) + 1 ELSE 0
        /\ \A j \in 1 .. Len(s) - (i + 1 + 1) + 1 : b[j] = s[i + 1 + 1 + j - 1]
    BY <2>1, SubSeqProperties
  <2> HIDE DEF b
  <2> QED
    BY <1>1, <2>2
<1>4. Secuencias!RemoveAt(s, i + 1) = a \o b
  <2>1. i + 1 - 1 = i
    BY <1>1
  <2> DEFINE k == i + 1
  <2>2. Secuencias!RemoveAt(s, k) = SubSeq(s, 1, k - 1) \o SubSeq(s, k + 1, Len(s))
    BY Zenon DEF Secuencias!RemoveAt
  <2>3. SubSeq(s, 1, k - 1) = a
    BY <2>1
  <2> HIDE DEF a
  <2> QED
    BY <2>2, <2>3
<1> HIDE DEF a, b
<1>5. /\ a \o b \in Seq(S) /\ Len(a \o b) = Len(a) + Len(b)
      /\ \A j \in 1 .. Len(a) + Len(b) : (a \o b)[j] = IF j <= Len(a) THEN a[j] ELSE b[j - Len(a)]
  BY <1>2, <1>3, ConcatProperties
<1>6. Len(a \o b) = Len(s) - 1
  BY <1>1, <1>2, <1>3, <1>5
<1>7. ASSUME NEW j \in 1 .. Len(s) - 1
      PROVE  (a \o b)[j] = IF j <= i THEN s[j] ELSE s[j + 1]
  <2>1. j \in 1 .. Len(a) + Len(b) /\ j \in Nat
    BY <1>1, <1>2, <1>3
  <2>2. CASE j <= i
    BY <1>1, <1>2, <1>5, <2>1, <2>2
  <2>3. CASE ~(j <= i)
    <3>1. j - i \in 1 .. Len(s) - (i + 1) /\ i + 1 + (j - i) = j + 1
      BY <1>1, <2>1, <2>3
    <3>2. (a \o b)[j] = b[j - i] /\ b[j - i] = s[j + 1]
      BY <1>2, <1>3, <1>5, <2>1, <2>3, <3>1
    <3> QED
      BY <2>3, <3>2
  <2> QED
    BY <2>2, <2>3
<1> QED
  BY <1>4, <1>5, <1>6, <1>7

-----------------------------------------------------------------------------
(* The data of the lists                                                   *)

\* The data in the nodes W[l] of each list.
Vista(nd, ec, W) == [l \in Listas |-> [i \in 1 .. ec[l] |-> nd[W[l][i]].data]]

\* D are sequences of data, as long as ec says.
SonDatos(D, ec) ==
  /\ D \in [Listas -> Seq(Datos \cup {NULL})]
  /\ \A l \in Listas : Len(D[l]) = ec[l] /\ ec[l] \in Nat

LEMMA NodosVivos ==
  ASSUME NEW nd, NEW hd, NEW ec, NEW W, Heap(nd, hd, ec, W), NEW l \in Listas
  PROVE  /\ ec[l] \in Nat
         /\ \A i \in 1 .. ec[l] : W[l][i] \in DOMAIN nd /\ nd[W[l][i]].data \in Datos \cup {NULL}
<1>1. ec[l] \in Nat /\ W[l] \in [1 .. ec[l] -> DOMAIN nd]
  BY DEF Heap, Enlazadas
<1>2. \A x \in DOMAIN nd : nd[x].data \in Datos \cup {NULL}
  BY DEF Heap
<1> QED
  BY <1>1, <1>2

LEMMA VistaTipo ==
  ASSUME NEW nd, NEW hd, NEW ec, NEW W, Heap(nd, hd, ec, W)
  PROVE  /\ SonDatos(Vista(nd, ec, W), ec)
         /\ \A l \in Listas : \A i \in 1 .. ec[l] : Vista(nd, ec, W)[l][i] = nd[W[l][i]].data
<1>1. ASSUME NEW l \in Listas
      PROVE  /\ Vista(nd, ec, W)[l] \in Seq(Datos \cup {NULL}) /\ Len(Vista(nd, ec, W)[l]) = ec[l]
             /\ \A i \in 1 .. ec[l] : Vista(nd, ec, W)[l][i] = nd[W[l][i]].data
             /\ ec[l] \in Nat
  <2> DEFINE c == ec[l]
             s == [i \in 1 .. c |-> nd[W[l][i]].data]
  <2>1. c \in Nat /\ \A i \in 1 .. c : W[l][i] \in DOMAIN nd
    BY NodosVivos
  <2>2. \A i \in 1 .. c : nd[W[l][i]].data \in Datos \cup {NULL}
    BY NodosVivos
  <2>3. Vista(nd, ec, W)[l] = s
    BY DEF Vista
  <2> HIDE DEF c
  <2>4. s \in [1 .. c -> Datos \cup {NULL}] /\ \A i \in 1 .. c : s[i] = nd[W[l][i]].data
    BY <2>1, <2>2
  <2> HIDE DEF s
  <2>5. s \in Seq(Datos \cup {NULL}) /\ Len(s) = c
    BY <2>1, <2>4
  <2> QED
    BY <2>1, <2>3, <2>4, <2>5 DEF c
<1>2. Vista(nd, ec, W) = [l \in Listas |-> Vista(nd, ec, W)[l]]
  BY DEF Vista
<1> QED
  BY <1>1, <1>2 DEF SonDatos

\* A node more in the heap is a datum more in its list.
LEMMA VistaMas ==
  ASSUME NEW nd, NEW hd, NEW ec, NEW W, Heap(nd, hd, ec, W), NEW l \in Listas,
         NEW i \in 0 .. ec[l], NEW n, NEW d \in Datos \cup {NULL}, NEW nd2, NEW hd2, NEW ec2,
         SumaNodo(nd, hd, ec, W, l, i, n, d, nd2, hd2, ec2)
  PROVE  Vista(nd2, ec2, Con(W, l, Insertada(W[l], ec[l], i, n))) =
           [Vista(nd, ec, W) EXCEPT ![l] = Secuencias!InsertAt(@, i + 1, d)]
<1> DEFINE c == ec[l]
           s == Insertada(W[l], c, i, n)
           W2 == Con(W, l, s)
           D == Vista(nd, ec, W)
           D2 == Vista(nd2, ec2, W2)
           T == Datos \cup {NULL}
           t == Secuencias!InsertAt(D[l], i + 1, d)
<1>1. Heap(nd2, hd2, ec2, W2)
  BY HeapConUnoMas
<1>2. /\ D \in [Listas -> Seq(T)] /\ c \in Nat /\ Len(D[l]) = c
      /\ \A k \in Listas : Len(D[k]) = ec[k]
      /\ \A k \in Listas : \A j \in 1 .. ec[k] : D[k][j] = nd[W[k][j]].data
  BY VistaTipo DEF SonDatos
<1>3. /\ D2 \in [Listas -> Seq(T)]
      /\ \A k \in Listas : Len(D2[k]) = ec2[k]
      /\ \A k \in Listas : \A j \in 1 .. ec2[k] : D2[k][j] = nd2[W2[k][j]].data
  BY <1>1, VistaTipo DEF SonDatos
<1>4. /\ \A k \in Listas : k # l => ec2[k] = ec[k] /\ W2[k] = W[k]
      /\ ec2[l] = c + 1 /\ W2[l] = s
      /\ \A x \in DOMAIN nd : nd2[x].data = nd[x].data
      /\ nd2[n].data = d
  BY DEF SumaNodo, Con
<1>5. \A k \in Listas : \A j \in 1 .. ec[k] : W[k][j] \in DOMAIN nd
  BY NodosVivos
<1>6. \A j \in 1 .. c + 1 : s[j] = IF j <= i THEN W[l][j] ELSE IF j = i + 1 THEN n ELSE W[l][j - 1]
  BY DEF Insertada
<1>7. /\ t \in Seq(T) /\ Len(t) = c + 1
      /\ \A j \in 1 .. c + 1 :
           t[j] = IF j <= i THEN D[l][j] ELSE IF j = i + 1 THEN d ELSE D[l][j - 1]
  <2>1. D[l] \in Seq(T) /\ Len(D[l]) = c /\ i \in 0 .. Len(D[l]) /\ d \in T
    BY <1>2
  <2> HIDE DEF D, T
  <2>2. ConDato(t, T, D[l], i, d)
    BY <2>1, ConUnElemento, Zenon
  <2> HIDE DEF c, t
  <2> QED
    BY <2>1, <2>2 DEF ConDato
<1> HIDE DEF s, W2, D, D2, t
<1>8. D2[l] = t
  <2>1. ASSUME NEW j \in 1 .. c + 1 PROVE D2[l][j] = t[j]
    <3>1. D2[l][j] = nd2[s[j]].data /\ i \in Nat /\ i <= c /\ j \in Nat
      BY <1>2, <1>3, <1>4
    <3>2. CASE j <= i
      <4>1. j \in 1 .. c /\ s[j] = W[l][j]
        BY <1>2, <1>6, <3>1, <3>2
      <4> QED
        BY <1>2, <1>4, <1>5, <1>7, <3>1, <3>2, <4>1
    <3>3. CASE j = i + 1
      <4>1. s[j] = n /\ t[j] = d
        BY <1>6, <1>7, <3>1, <3>3
      <4> QED
        BY <1>4, <3>1, <4>1
    <3>4. CASE j > i + 1
      <4>1. j - 1 \in 1 .. c /\ s[j] = W[l][j - 1] /\ t[j] = D[l][j - 1]
        BY <1>2, <1>6, <1>7, <3>1, <3>4
      <4> QED
        BY <1>2, <1>4, <1>5, <3>1, <4>1
    <3> QED
      BY <3>1, <3>2, <3>3, <3>4
  <2>2. D2[l] \in Seq(T) /\ Len(D2[l]) = c + 1
    BY <1>3, <1>4
  <2> HIDE DEF c, T
  <2> QED
    BY <1>7, <2>1, <2>2, SeqEqual
<1>9. ASSUME NEW k \in Listas, k # l PROVE D2[k] = D[k]
  <2>1. ASSUME NEW j \in 1 .. ec[k] PROVE D2[k][j] = D[k][j]
    <3>1. D2[k][j] = nd2[W[k][j]].data /\ D[k][j] = nd[W[k][j]].data
      <4>1. ec2[k] = ec[k] /\ W2[k] = W[k]
        BY <1>4, <1>9
      <4>2. D2[k][j] = nd2[W2[k][j]].data
        BY <1>3, <4>1
      <4> QED
        BY <1>2, <4>1, <4>2
    <3> QED
      BY <1>4, <1>5, <3>1
  <2>2. D[k] \in Seq(T) /\ D2[k] \in Seq(T) /\ Len(D[k]) = ec[k] /\ Len(D2[k]) = ec[k]
    BY <1>2, <1>3, <1>4, <1>9
  <2> HIDE DEF T
  <2> QED
    BY <2>1, <2>2, SeqEqual
<1>10. /\ D2 = [k \in Listas |-> D2[k]]
       /\ [D EXCEPT ![l] = t] = [k \in Listas |-> IF k = l THEN t ELSE D[k]]
  BY <1>2, <1>3
<1>11. D2 = [D EXCEPT ![l] = t]
  BY <1>8, <1>9, <1>10
<1> QED
  BY <1>11 DEF D, D2, t, W2, s

\* A node less is a datum less.
LEMMA VistaMenos ==
  ASSUME NEW nd, NEW hd, NEW ec, NEW W, Heap(nd, hd, ec, W), NEW l \in Listas,
         NEW i \in 0 .. ec[l] - 1, NEW nd2, NEW hd2, NEW ec2,
         RestaNodo(nd, hd, ec, W, l, i, nd2, hd2, ec2)
  PROVE  Vista(nd2, ec2, Con(W, l, Extraida(W[l], ec[l], i))) =
           [Vista(nd, ec, W) EXCEPT ![l] = Secuencias!RemoveAt(@, i + 1)]
<1> DEFINE c == ec[l]
           s == Extraida(W[l], c, i)
           W2 == Con(W, l, s)
           D == Vista(nd, ec, W)
           D2 == Vista(nd2, ec2, W2)
           T == Datos \cup {NULL}
           t == Secuencias!RemoveAt(D[l], i + 1)
<1>1. Heap(nd2, hd2, ec2, W2)
  BY HeapConUnoMenos
<1>2. /\ D \in [Listas -> Seq(T)] /\ c \in Nat /\ Len(D[l]) = c
      /\ \A k \in Listas : Len(D[k]) = ec[k]
      /\ \A k \in Listas : \A j \in 1 .. ec[k] : D[k][j] = nd[W[k][j]].data
  BY VistaTipo DEF SonDatos
<1>3. /\ D2 \in [Listas -> Seq(T)]
      /\ \A k \in Listas : Len(D2[k]) = ec2[k]
      /\ \A k \in Listas : \A j \in 1 .. ec2[k] : D2[k][j] = nd2[W2[k][j]].data
      /\ \A k \in Listas : \A j \in 1 .. ec2[k] : W2[k][j] \in DOMAIN nd2
  BY <1>1, VistaTipo, NodosVivos DEF SonDatos
<1>4. /\ \A k \in Listas : k # l => ec2[k] = ec[k] /\ W2[k] = W[k]
      /\ ec2[l] = c - 1 /\ W2[l] = s
      /\ \A x \in DOMAIN nd2 : nd2[x].data = nd[x].data
  <2>1. ASSUME NEW x \in DOMAIN nd2 PROVE nd2[x].data = nd[x].data
    <3>1. \E y : nd2[x] = [data |-> nd[x].data, next |-> y]
      BY Zenon DEF RestaNodo
    <3> QED
      BY <3>1
  <2>2. ec2 = [k \in Listas |-> IF k = l THEN ec[l] - 1 ELSE ec[k]]
    BY DEF RestaNodo
  <2> HIDE DEF s
  <2> QED
    BY <2>1, <2>2 DEF Con
<1>5. \A j \in 1 .. c - 1 : s[j] = IF j <= i THEN W[l][j] ELSE W[l][j + 1]
  BY DEF Extraida
<1>6. /\ t \in Seq(T) /\ Len(t) = c - 1
      /\ \A j \in 1 .. c - 1 : t[j] = IF j <= i THEN D[l][j] ELSE D[l][j + 1]
  <2>1. D[l] \in Seq(T) /\ i \in 0 .. Len(D[l]) - 1
    BY <1>2
  <2> HIDE DEF D, T, c
  <2> QED
    BY <1>2, <2>1, SinUnElemento DEF T
<1> HIDE DEF s, W2, D, D2, t
<1>7. D2[l] = t
  <2>1. ASSUME NEW j \in 1 .. c - 1 PROVE D2[l][j] = t[j]
    <3>1. j \in Nat /\ j \in 1 .. c /\ j + 1 \in 1 .. c
      BY <1>2
    <3>2. j \in 1 .. ec2[l] /\ W2[l][j] = s[j]
      BY <1>4
    <3>3. D2[l][j] = nd2[s[j]].data /\ s[j] \in DOMAIN nd2
      BY <1>3, <3>2
    <3>4. D2[l][j] = nd[s[j]].data
      BY <1>4, <3>3
    <3> QED
      BY <1>2, <1>5, <1>6, <3>1, <3>4
  <2>2. D2[l] \in Seq(T) /\ Len(D2[l]) = c - 1
    BY <1>3, <1>4
  <2> HIDE DEF c, T
  <2> QED
    BY <1>6, <2>1, <2>2, SeqEqual
<1>8. ASSUME NEW k \in Listas, k # l PROVE D2[k] = D[k]
  <2>1. ASSUME NEW j \in 1 .. ec[k] PROVE D2[k][j] = D[k][j]
    <3>1. D2[k][j] = nd2[W[k][j]].data /\ D[k][j] = nd[W[k][j]].data /\ W[k][j] \in DOMAIN nd2
      <4>1. ec2[k] = ec[k] /\ W2[k] = W[k]
        BY <1>4, <1>8
      <4>2. D2[k][j] = nd2[W2[k][j]].data /\ W2[k][j] \in DOMAIN nd2
        BY <1>3, <4>1
      <4> QED
        BY <1>2, <4>1, <4>2
    <3> QED
      BY <1>4, <3>1
  <2>2. D[k] \in Seq(T) /\ D2[k] \in Seq(T) /\ Len(D[k]) = ec[k] /\ Len(D2[k]) = ec[k]
    BY <1>2, <1>3, <1>4, <1>8
  <2> HIDE DEF T
  <2> QED
    BY <2>1, <2>2, SeqEqual
<1>9. /\ D2 = [k \in Listas |-> D2[k]]
      /\ [D EXCEPT ![l] = t] = [k \in Listas |-> IF k = l THEN t ELSE D[k]]
  BY <1>2, <1>3
<1>10. D2 = [D EXCEPT ![l] = t]
  BY <1>7, <1>8, <1>9
<1> QED
  BY <1>10 DEF D, D2, t, W2, s

\* Append is an insertion after the last.
LEMMA AlFinalEsAppend ==
  ASSUME NEW S, NEW s \in Seq(S), NEW d \in S
  PROVE  Secuencias!InsertAt(s, Len(s) + 1, d) = Append(s, d)
<1> DEFINE t == Secuencias!InsertAt(s, Len(s) + 1, d)
           u == Append(s, d)
<1>1. Len(s) \in Nat /\ Len(s) \in 0 .. Len(s)
  BY LenProperties
<1>2. ConDato(t, S, s, Len(s), d)
  BY <1>1, ConUnElemento
<1>3. /\ u \in Seq(S) /\ Len(u) = Len(s) + 1
      /\ \A i \in 1 .. Len(s) : u[i] = s[i]
      /\ u[Len(s) + 1] = d
  BY AppendProperties
<1> HIDE DEF t, u
<1>4. t \in Seq(S) /\ Len(t) = Len(s) + 1
  BY <1>2 DEF ConDato
<1>5. ASSUME NEW j \in 1 .. Len(s) + 1 PROVE t[j] = u[j]
  <2>1. t[j] = IF j <= Len(s) THEN s[j] ELSE IF j = Len(s) + 1 THEN d ELSE s[j - 1]
    BY <1>2 DEF ConDato
  <2>2. CASE j <= Len(s)
    BY <1>1, <1>3, <2>1, <2>2
  <2>3. CASE ~(j <= Len(s))
    <3>1. j = Len(s) + 1
      BY <1>1, <2>3
    <3> QED
      BY <1>3, <2>1, <2>3, <3>1
  <2> QED
    BY <2>2, <2>3
<1>6. t = u
  BY <1>3, <1>4, <1>5, SeqEqual
<1> QED
  BY <1>6 DEF t, u

-----------------------------------------------------------------------------
(* The sequences a walk reads                                              *)

Cadenas == [l \in Listas |-> Cadena(l)]

\* The walk of list_get_element reads the data of the nodes of the list, in order.
LeenLosDatos ==
  \A W : Heap(nodos, head, elements_count, W) => Cadenas = Vista(nodos, elements_count, W)

LEMMA SeLeenLosDatos == LeenLosDatos
<1> SUFFICES ASSUME NEW W, Heap(nodos, head, elements_count, W), NEW l \in Listas
             PROVE  Cadena(l) = [i \in 1 .. elements_count[l] |-> nodos[W[l][i]].data]
  BY DEF LeenLosDatos, Cadenas, Vista
<1>1. elements_count[l] \in Nat /\ \A i \in 1 .. elements_count[l] : W[l][i] \in DOMAIN nodos
  BY NodosVivos
<1>2. ASSUME NEW i \in 1 .. elements_count[l]
      PROVE  Dato(Nodo(l, i - 1)) = nodos[W[l][i]].data
  <2>1. i - 1 \in Nat /\ i - 1 < elements_count[l] /\ i - 1 + 1 = i
    BY <1>1
  <2>2. Nodo(l, i - 1) = W[l][i]
    BY <2>1, ElNodo
  <2> QED
    BY <1>1, <2>2 DEF Dato
<1> QED
  BY <1>2 DEF Cadena

LEMMA SeLeenDespues == LeenLosDatos'
  BY SeLeenLosDatos, PTL

LEMMA LoQueSeLee ==
  ASSUME NEW W, Heap(nodos, head, elements_count, W)
  PROVE  /\ SonDatos(Cadenas, elements_count)
         /\ \A l \in Listas :
              /\ head[l] = NULL <=> elements_count[l] = 0
              /\ \A i \in Nat : i < elements_count[l] =>
                   /\ Nodo(l, i) = W[l][i + 1] /\ list_get_element(l, i) = W[l][i + 1]
                   /\ W[l][i + 1] \in DOMAIN nodos
                   /\ Dato(W[l][i + 1]) = Cadenas[l][i + 1]
<1>1. Cadenas = Vista(nodos, elements_count, W)
  BY SeLeenLosDatos DEF LeenLosDatos
<1>2. SonDatos(Cadenas, elements_count)
  BY <1>1, VistaTipo
<1>3. ASSUME NEW l \in Listas PROVE head[l] = NULL <=> elements_count[l] = 0
  <2>1. head[l] = (IF elements_count[l] = 0 THEN NULL ELSE W[l][1]) /\ DOMAIN nodos \subseteq Nodos
    BY DEF Heap, Enlazadas
  <2>2. elements_count[l] # 0 => W[l][1] \in DOMAIN nodos
    BY NodosVivos
  <2> QED
    BY <2>1, <2>2, ConstantesOK
<1>4. ASSUME NEW l \in Listas, NEW i \in Nat, i < elements_count[l]
      PROVE  /\ Nodo(l, i) = W[l][i + 1] /\ list_get_element(l, i) = W[l][i + 1]
             /\ W[l][i + 1] \in DOMAIN nodos
             /\ Dato(W[l][i + 1]) = Cadenas[l][i + 1]
  <2>1. i + 1 \in 1 .. elements_count[l]
    BY <1>4, NodosVivos
  <2>2. W[l][i + 1] \in DOMAIN nodos
    BY <2>1, NodosVivos
  <2>3. Cadenas[l][i + 1] = nodos[W[l][i + 1]].data
    BY <1>1, <2>1, VistaTipo
  <2> QED
    BY <1>4, <2>2, <2>3, ElNodo DEF Dato
<1> QED
  BY <1>2, <1>3, <1>4

-----------------------------------------------------------------------------
(* What each step does to the sequences that are read                      *)

LEMMA LeidasMas ==
  ASSUME NEW W, Heap(nodos, head, elements_count, W), NEW l \in Listas,
         NEW i \in 0 .. elements_count[l], NEW n, NEW d \in Datos \cup {NULL},
         SumaNodo(nodos, head, elements_count, W, l, i, n, d, nodos', head', elements_count')
  PROVE  Cadenas' = [Cadenas EXCEPT ![l] = Secuencias!InsertAt(@, i + 1, d)]
<1> DEFINE V == Con(W, l, Insertada(W[l], elements_count[l], i, n))
<1>1. Heap(nodos', head', elements_count', V)
  BY HeapConUnoMas
<1>2. Vista(nodos', elements_count', V) =
        [Vista(nodos, elements_count, W) EXCEPT ![l] = Secuencias!InsertAt(@, i + 1, d)]
  BY VistaMas
<1> HIDE DEF V
<1>3. Cadenas' = Vista(nodos', elements_count', V)
  BY <1>1, SeLeenDespues DEF LeenLosDatos
<1>4. Cadenas = Vista(nodos, elements_count, W)
  BY SeLeenLosDatos DEF LeenLosDatos
<1> QED
  BY <1>2, <1>3, <1>4, Zenon

LEMMA LeidasMenos ==
  ASSUME NEW W, Heap(nodos, head, elements_count, W), NEW l \in Listas,
         NEW i \in 0 .. elements_count[l] - 1,
         RestaNodo(nodos, head, elements_count, W, l, i, nodos', head', elements_count')
  PROVE  Cadenas' = [Cadenas EXCEPT ![l] = Secuencias!RemoveAt(@, i + 1)]
<1> DEFINE V == Con(W, l, Extraida(W[l], elements_count[l], i))
<1>1. Heap(nodos', head', elements_count', V)
  BY HeapConUnoMenos
<1>2. Vista(nodos', elements_count', V) =
        [Vista(nodos, elements_count, W) EXCEPT ![l] = Secuencias!RemoveAt(@, i + 1)]
  BY VistaMenos
<1> HIDE DEF V
<1>3. Cadenas' = Vista(nodos', elements_count', V)
  BY <1>1, SeLeenDespues DEF LeenLosDatos
<1>4. Cadenas = Vista(nodos, elements_count, W)
  BY SeLeenLosDatos DEF LeenLosDatos
<1> QED
  BY <1>2, <1>3, <1>4, Zenon

LEMMA LeidasConOtraAlFinal ==
  ASSUME NEW W, Heap(nodos, head, elements_count, W), NEW l \in Listas,
         NEW n, NEW d \in Datos \cup {NULL},
         SumaNodo(nodos, head, elements_count, W, l, elements_count[l], n, d,
                  nodos', head', elements_count')
  PROVE  Cadenas' = [Cadenas EXCEPT ![l] = Append(@, d)]
<1>1. elements_count[l] \in Nat /\ elements_count[l] \in 0 .. elements_count[l]
  BY NodosVivos
<1>2. Cadenas' = [Cadenas EXCEPT ![l] = Secuencias!InsertAt(@, elements_count[l] + 1, d)]
  BY <1>1, LeidasMas
<1>3. Cadenas[l] \in Seq(Datos \cup {NULL}) /\ Len(Cadenas[l]) = elements_count[l]
  BY LoQueSeLee DEF SonDatos
<1>4. Secuencias!InsertAt(Cadenas[l], elements_count[l] + 1, d) = Append(Cadenas[l], d)
  BY <1>3, AlFinalEsAppend, Zenon
<1> QED
  BY <1>2, <1>4, Zenon

LEMMA LeidasIguales ==
  ASSUME NEW W, Heap(nodos, head, elements_count, W), UNCHANGED lista
  PROVE  Cadenas' = Cadenas
<1>1. nodos' = nodos /\ elements_count' = elements_count /\ Heap(nodos', head', elements_count', W)
  BY DEF lista
<1>2. Cadenas' = Vista(nodos', elements_count', W)
  BY <1>1, SeLeenDespues DEF LeenLosDatos
<1>3. Cadenas = Vista(nodos, elements_count, W)
  BY SeLeenLosDatos DEF LeenLosDatos
<1> QED
  BY <1>1, <1>2, <1>3

LEMMA LeidasSinNada ==
  ASSUME NEW W, Heap(nodos, head, elements_count, W), NEW l \in Listas, list_clean(l)
  PROVE  Cadenas' = [Cadenas EXCEPT ![l] = << >>]
<1> DEFINE V == Con(W, l, << >>)
<1>1. Heap(nodos', head', elements_count', V)
  BY HeapVaciado
<1>2. Cadenas' = Vista(nodos', elements_count', V) /\ SonDatos(Cadenas', elements_count')
  BY <1>1, SeLeenDespues, VistaTipo DEF LeenLosDatos
<1>3. Cadenas = Vista(nodos, elements_count, W) /\ SonDatos(Cadenas, elements_count)
  BY SeLeenLosDatos, VistaTipo DEF LeenLosDatos
<1>4. /\ V[l] = << >> /\ \A k \in Listas : k # l => V[k] = W[k]
      /\ elements_count'[l] = 0 /\ \A k \in Listas : k # l => elements_count'[k] = elements_count[k]
      /\ \A x \in DOMAIN nodos' : nodos'[x] = nodos[x]
  BY <1>3 DEF Con, list_clean, Heap
<1> HIDE DEF V
<1>5. Cadenas'[l] = << >>
  <2>1. Cadenas'[l] \in Seq(Datos \cup {NULL}) /\ Len(Cadenas'[l]) = 0
    BY <1>2, <1>4 DEF SonDatos
  <2> QED
    BY <2>1, EmptySeq
<1>6. ASSUME NEW k \in Listas, k # l PROVE Cadenas'[k] = Cadenas[k]
  <2>1. elements_count'[k] = elements_count[k] /\ V[k] = W[k]
    BY <1>4, <1>6
  <2>2. \A i \in 1 .. elements_count[k] : W[k][i] \in DOMAIN nodos'
    BY <1>1, <2>1, NodosVivos
  <2>3. /\ Cadenas'[k] = [i \in 1 .. elements_count[k] |-> nodos'[W[k][i]].data]
        /\ Cadenas[k] = [i \in 1 .. elements_count[k] |-> nodos[W[k][i]].data]
    BY <1>2, <1>3, <2>1 DEF Vista
  <2> QED
    BY <1>4, <2>2, <2>3
<1> QED
  BY <1>2, <1>3, <1>5, <1>6 DEF SonDatos

LEMMA LeidasConReemplazo ==
  ASSUME NEW W, Heap(nodos, head, elements_count, W), NEW l \in Listas, NEW i \in Nat,
         NEW d \in Datos, list_replace(l, i, d)
  PROVE  Cadenas' = [Cadenas EXCEPT ![l][i + 1] = d]
<1> DEFINE x == W[l][i + 1]
<1>1. Heap(nodos', head', elements_count', W)
  BY HeapReemplazado
<1>2. i + 1 \in 1 .. elements_count[l] /\ list_get_element(l, i) = x /\ x \in DOMAIN nodos
  <2>1. i < elements_count[l] /\ elements_count[l] \in Nat
    BY NodosVivos DEF list_replace, EnRango
  <2> QED
    BY <2>1, LoQueSeLee
<1>3. elements_count' = elements_count /\ nodos' = [nodos EXCEPT ![x].data = d]
  BY <1>2 DEF list_replace
<1>4. \A y \in DOMAIN nodos : nodos'[y].data = IF y = x THEN d ELSE nodos[y].data
  <2>1. nodos[x] \in [data : Datos \cup {NULL}, next : Nodos \cup {NULL}]
    BY <1>2 DEF Heap
  <2> HIDE DEF x
  <2> QED
    BY <1>2, <1>3, <2>1
<1>5. \A k \in Listas : \A j \in 1 .. elements_count[k] :
        W[k][j] \in DOMAIN nodos /\ (W[k][j] = x <=> k = l /\ j = i + 1)
  <2>1. \A k, m \in Listas : \A p \in 1 .. elements_count[k], q \in 1 .. elements_count[m] :
          W[k][p] = W[m][q] => k = m /\ p = q
    BY DEF Heap, Enlazadas
  <2> QED
    BY <1>2, <2>1, NodosVivos
<1>6. /\ Cadenas' = [k \in Listas |-> [j \in 1 .. elements_count[k] |-> nodos'[W[k][j]].data]]
      /\ Cadenas = [k \in Listas |-> [j \in 1 .. elements_count[k] |-> nodos[W[k][j]].data]]
  <2>1. Cadenas' = Vista(nodos', elements_count', W) /\ Cadenas = Vista(nodos, elements_count, W)
    BY <1>1, SeLeenDespues, SeLeenLosDatos DEF LeenLosDatos
  <2>2. Vista(nodos', elements_count', W) = Vista(nodos', elements_count, W)
    BY <1>3
  <2> QED
    BY <2>1, <2>2 DEF Vista
<1> HIDE DEF x
<1>7. ASSUME NEW k \in Listas
      PROVE  [j \in 1 .. elements_count[k] |-> nodos'[W[k][j]].data] =
               IF k = l THEN [Cadenas[l] EXCEPT ![i + 1] = d] ELSE Cadenas[k]
  <2>1. CASE k = l
    <3>1. Cadenas[l] = [j \in 1 .. elements_count[l] |-> nodos[W[l][j]].data]
      BY <1>6
    <3>2. \A j \in 1 .. elements_count[l] :
            nodos'[W[l][j]].data = IF j = i + 1 THEN d ELSE nodos[W[l][j]].data
      BY <1>4, <1>5
    <3> QED
      BY <2>1, <3>1, <3>2
  <2>2. CASE k # l
    <3>1. \A j \in 1 .. elements_count[k] : nodos'[W[k][j]].data = nodos[W[k][j]].data
      BY <1>4, <1>5, <2>2
    <3> QED
      BY <1>6, <2>2, <3>1
  <2> QED
    BY <2>1, <2>2
<1>8. Cadenas' = [k \in Listas |-> IF k = l THEN [Cadenas[l] EXCEPT ![i + 1] = d] ELSE Cadenas[k]]
  BY <1>6, <1>7, Zenon
<1>9. Cadenas = [k \in Listas |-> Cadenas[k]]
  BY DEF Cadenas
<1> HIDE DEF Cadenas
<1> QED
  BY <1>8, <1>9

\* The first of origen goes to the end of destino.
LEMMA LeidasAlMover ==
  ASSUME NEW W, Heap(nodos, head, elements_count, W), origen \in Listas, destino \in Listas,
         origen # destino, Tomar, elements_count[origen] # 0
  PROVE  Cadenas' = [Cadenas EXCEPT ![origen] = Secuencias!RemoveAt(@, 1),
                                    ![destino] = Append(@, Cadenas[origen][1])]
<1> DEFINE c == elements_count[destino]
           W1 == Con(W, origen, Extraida(W[origen], elements_count[origen], 0))
           d == nodos[W[origen][1]].data
<1>1. PICK n, q, hq, eq :
        /\ RestaNodo(nodos, head, elements_count, W, origen, 0, q, hq, eq)
        /\ SumaNodo(q, hq, eq, W1, destino, c, n, d, nodos', head', elements_count')
  BY TomarMueve
<1>2. /\ elements_count[origen] \in Nat /\ 0 \in 0 .. elements_count[origen] - 1
      /\ 1 \in 1 .. elements_count[origen] /\ c \in Nat /\ c \in 0 .. c
      /\ d \in Datos \cup {NULL}
  BY NodosVivos
<1>3. Heap(q, hq, eq, W1)
  BY <1>1, <1>2, HeapConUnoMenos
<1>4. Vista(q, eq, W1) =
        [Vista(nodos, elements_count, W) EXCEPT ![origen] = Secuencias!RemoveAt(@, 0 + 1)]
  BY <1>1, <1>2, VistaMenos
<1> DEFINE W2 == Con(W1, destino, Insertada(W1[destino], eq[destino], c, n))
<1>5. eq[destino] = c /\ c \in 0 .. eq[destino]
  BY <1>1, <1>2 DEF RestaNodo
<1> HIDE DEF W1, d, c
<1>6. /\ Heap(nodos', head', elements_count', W2)
      /\ Vista(nodos', elements_count', W2) =
           [Vista(q, eq, W1) EXCEPT ![destino] = Secuencias!InsertAt(@, c + 1, d)]
  <2>1. Heap(nodos', head', elements_count', W2)
    BY <1>1, <1>2, <1>3, <1>5, HeapConUnoMas
  <2>2. Vista(nodos', elements_count', W2) =
           [Vista(q, eq, W1) EXCEPT ![destino] = Secuencias!InsertAt(@, c + 1, d)]
    BY <1>1, <1>2, <1>3, <1>5, VistaMas
  <2> QED
    BY <2>1, <2>2
<1> HIDE DEF W2
<1>7. /\ Cadenas = Vista(nodos, elements_count, W)
      /\ Cadenas' = Vista(nodos', elements_count', W2)
  BY <1>6, SeLeenLosDatos, SeLeenDespues DEF LeenLosDatos
<1>8. /\ Cadenas \in [Listas -> Seq(Datos \cup {NULL})] /\ Len(Cadenas[destino]) = c
      /\ d = Cadenas[origen][1]
  <2>1. SonDatos(Cadenas, elements_count)
    BY <1>7, VistaTipo
  <2>2. Cadenas[origen][1] = d
    BY <1>2, <1>7, VistaTipo DEF d
  <2> QED
    BY <2>1, <2>2 DEF SonDatos, c
<1>9. Secuencias!InsertAt(Cadenas[destino], c + 1, d) = Append(Cadenas[destino], d)
  <2>1. Cadenas[destino] \in Seq(Datos \cup {NULL})
    BY <1>8
  <2> QED
    BY <1>2, <1>8, <2>1, AlFinalEsAppend, Zenon
<1>10. Vista(q, eq, W1) = [Cadenas EXCEPT ![origen] = Secuencias!RemoveAt(@, 1)]
  BY <1>4, <1>7
<1>11. Vista(q, eq, W1)[destino] = Cadenas[destino] /\ DOMAIN Vista(q, eq, W1) = Listas
  BY <1>8, <1>10
<1>12. Cadenas' = [Vista(q, eq, W1) EXCEPT ![destino] = Append(Cadenas[destino], d)]
  BY <1>6, <1>7, <1>9, <1>11
<1> QED
  BY <1>8, <1>10, <1>11, <1>12

-----------------------------------------------------------------------------
(* The sequences with the loop under way done                              *)

\* What an iteration of o has to add to dst, with k nodes left to visit.
Iteradas(D, o, dst, C, k) == [D EXCEPT ![dst] = @ \o UltimosQue(D[o], C, k)]

\* What list_take_and_remove leaves in dst and in o, with n elements left to take.
Tomadas(D, o, dst, n) ==
  [l \in Listas |-> IF l = dst THEN D[l] \o Secuencias!Primeros(D[o], n)
                    ELSE IF l = o THEN SubSeq(D[l], n + 1, Len(D[l])) ELSE D[l]]

\* What comes after x in a sequence comes after it at the end of t.
Corrido(t, x, u) == Append(t, x) \o u = t \o (<<x>> \o u)

LEMMA AgregadoAntes ==
  ASSUME NEW T, NEW t \in Seq(T), NEW u \in Seq(T), NEW x \in T
  PROVE  Corrido(t, x, u)
<1> DEFINE v == <<x>>
<1>1. v \in Seq(T)
  OBVIOUS
<1>2. Append(t, x) = t \o v
  BY AppendIsConcat
<1> HIDE DEF v
<1>3. (t \o v) \o u = t \o (v \o u)
  BY <1>1, ConcatAssociative
<1> QED
  BY <1>2, <1>3 DEF v, Corrido

\* The sequences D with d at the end of l, and with the first of o moved to the end of dst.
ConAlFinal(D, l, d) == [D EXCEPT ![l] = Append(@, d)]
ConMovido(D, o, dst) ==
  [D EXCEPT ![o] = Secuencias!RemoveAt(@, 1), ![dst] = Append(@, D[o][1])]
SiCumple(D, dst, C, x) == IF x \in C THEN ConAlFinal(D, dst, x) ELSE D

LEMMA IteradasNada ==
  ASSUME NEW T, NEW D \in [Listas -> Seq(T)], NEW o \in Listas, NEW dst \in Listas, NEW C
  PROVE  Iteradas(D, o, dst, C, 0) = D
<1>1. UltimosQue(D[o], C, 0) = << >>
  BY UltimosQueEs
<1>2. D[dst] \o << >> = D[dst]
  BY ConcatEmptySeq
<1> QED
  BY <1>1, <1>2 DEF Iteradas

\* One turn of the iteration, at the k-th node from the end.
LEMMA IteradasUna ==
  ASSUME NEW T, NEW D \in [Listas -> Seq(T)], NEW o \in Listas, NEW dst \in Listas, o # dst, NEW C,
         NEW k \in 1 .. Len(D[o]), NEW x, x = D[o][Len(D[o]) - k + 1]
  PROVE  Iteradas(D, o, dst, C, k) =
           Iteradas(SiCumple(D, dst, C, x), o, dst, C, k - 1)
<1> DEFINE s == D[o]
           t == D[dst]
           u == UltimosQue(s, C, k - 1)
<1>1. s \in Seq(T) /\ t \in Seq(T) /\ Len(s) \in Nat /\ x \in T
  <2>1. s \in Seq(T) /\ t \in Seq(T)
    OBVIOUS
  <2> HIDE DEF s, t
  <2>2. Len(s) \in Nat
    BY <2>1, LenProperties
  <2>3. Len(s) - k + 1 \in 1 .. Len(s)
    BY <2>2 DEF s
  <2>4. s[Len(s) - k + 1] \in T
    BY <2>1, <2>3, ElementOfSeq
  <2> QED
    BY <2>1, <2>2, <2>4 DEF s
<1>2. k \in Nat \ {0} /\ k - 1 \in 0 .. Len(s)
  BY <1>1
<1>3. UltimosQue(s, C, k) = Elegido(s, C, k) \o u
  BY <1>2, UltimosQueEs
<1>4. u \in Seq(T)
  BY <1>1, <1>2, TipoUltimos
<1>5. Elegido(s, C, k) = IF x \in C THEN <<x>> ELSE << >>
  BY DEF Elegido
<1> HIDE DEF u
<1>6. CASE x \in C
  <2> DEFINE E == [D EXCEPT ![dst] = Append(@, x)]
  <2>1. E[o] = s /\ E[dst] = Append(t, x)
    OBVIOUS
  <2>4. Append(t, x) \o u = t \o UltimosQue(s, C, k)
    <3>1. Corrido(t, x, u)
      BY <1>1, <1>4, AgregadoAntes
    <3>2. UltimosQue(s, C, k) = <<x>> \o u
      BY <1>3, <1>5, <1>6
    <3> QED
      BY <3>1, <3>2, Zenon DEF Corrido
  <2>5. Iteradas(E, o, dst, C, k - 1) = [D EXCEPT ![dst] = E[dst] \o UltimosQue(E[o], C, k - 1)]
    BY DEF Iteradas
  <2> HIDE DEF E
  <2>6. Iteradas(E, o, dst, C, k - 1) = [D EXCEPT ![dst] = t \o UltimosQue(s, C, k)]
    BY <2>1, <2>4, <2>5 DEF u
  <2>7. Iteradas(D, o, dst, C, k) = [D EXCEPT ![dst] = t \o UltimosQue(s, C, k)]
    BY DEF Iteradas
  <2> QED
    BY <1>6, <2>6, <2>7 DEF E, SiCumple, ConAlFinal
<1>7. CASE x \notin C
  <2>1. << >> \o u = u
    BY <1>4, ConcatEmptySeq
  <2>2. UltimosQue(s, C, k) = u
    BY <1>3, <1>5, <1>7, <2>1
  <2> QED
    BY <1>7, <2>2 DEF Iteradas, u, SiCumple
<1> QED
  BY <1>6, <1>7

\* q is x followed by what p holds.
UnaMas(x, p, q) == Len(q) = Len(p) + 1 /\ q[1] = x /\ \A i \in 1 .. Len(p) : q[i + 1] = p[i]

LEMMA UnaYElResto ==
  ASSUME NEW T, NEW p \in Seq(T), NEW q \in Seq(T), NEW x \in T, UnaMas(x, p, q)
  PROVE  q = <<x>> \o p
<1>0. Len(q) = Len(p) + 1 /\ q[1] = x /\ \A i \in 1 .. Len(p) : q[i + 1] = p[i]
  BY DEF UnaMas
<1> DEFINE v == <<x>>
           w == v \o p
<1>1. v \in Seq(T) /\ Len(v) = 1 /\ v[1] = x /\ Len(p) \in Nat
  BY LenProperties
<1> HIDE DEF v
<1>2. /\ w \in Seq(T) /\ Len(w) = 1 + Len(p)
      /\ \A i \in 1 .. 1 + Len(p) : w[i] = IF i <= 1 THEN v[i] ELSE p[i - 1]
  <2>1. /\ w \in Seq(T) /\ Len(w) = Len(v) + Len(p)
        /\ \A i \in 1 .. Len(v) + Len(p) :
             w[i] = IF i <= Len(v) THEN v[i] ELSE p[i - Len(v)]
    BY <1>1, ConcatProperties
  <2> HIDE DEF w
  <2> QED
    BY <1>1, <2>1
<1> HIDE DEF w
<1>3. ASSUME NEW i \in 1 .. Len(q) PROVE q[i] = w[i]
  <2>1. CASE i = 1
    BY <1>0, <1>1, <1>2, <2>1
  <2>2. CASE i # 1
    <3>1. i - 1 \in 1 .. Len(p) /\ i - 1 + 1 = i /\ ~(i <= 1)
      BY <1>0, <1>1, <2>2
    <3>2. q[i - 1 + 1] = p[i - 1]
      BY <1>0, <3>1
    <3>3. i \in 1 .. 1 + Len(p)
      BY <1>0, <1>1
    <3> QED
      BY <1>2, <3>1, <3>2, <3>3
  <2> QED
    BY <2>1, <2>2
<1>4. q = w
  BY <1>0, <1>1, <1>2, <1>3, SeqEqual
<1> QED
  BY <1>4 DEF w, v

LEMMA TipoPrimeros ==
  ASSUME NEW T, NULL \in T, NEW s \in Seq(T), NEW n \in Nat
  PROVE  /\ Secuencias!Primeros(s, n) \in Seq(T) /\ Len(Secuencias!Primeros(s, n)) = n
         /\ \A i \in 1 .. n : Secuencias!Primeros(s, n)[i] = IF i <= Len(s) THEN s[i] ELSE NULL
<1> DEFINE p == [i \in 1 .. n |-> IF i <= Len(s) THEN s[i] ELSE NULL]
<1>1. \A i \in 1 .. n : i <= Len(s) => s[i] \in T
  <2>1. Len(s) \in Nat
    BY LenProperties
  <2>2. ASSUME NEW i \in 1 .. n, i <= Len(s) PROVE s[i] \in T
    <3>1. i \in 1 .. Len(s)
      BY <2>1, <2>2
    <3> QED
      BY <3>1, ElementOfSeq
  <2> QED
    BY <2>2
<1>2. p \in [1 .. n -> T] /\ \A i \in 1 .. n : p[i] = IF i <= Len(s) THEN s[i] ELSE NULL
  BY <1>1
<1>3. Secuencias!Primeros(s, n) = p
  BY DEF Secuencias!Primeros
<1> HIDE DEF p
<1> QED
  BY <1>2, <1>3

LEMMA TomadasCero ==
  ASSUME NEW T, NULL \in T, NEW D \in [Listas -> Seq(T)], NEW o \in Listas, NEW dst \in Listas
  PROVE  Tomadas(D, o, dst, 0) = D
<1>1. D[dst] \in Seq(T) /\ D[o] \in Seq(T)
  OBVIOUS
<1>2. Secuencias!Primeros(D[o], 0) = << >>
  <2>1. Secuencias!Primeros(D[o], 0) \in Seq(T) /\ Len(Secuencias!Primeros(D[o], 0)) = 0
    BY <1>1, TipoPrimeros
  <2> QED
    BY <2>1, EmptySeq
<1>3. D[dst] \o << >> = D[dst]
  BY <1>1, ConcatEmptySeq
<1>4. SubSeq(D[o], 0 + 1, Len(D[o])) = D[o]
  BY <1>1, SubSeqFull
<1>5. ASSUME NEW l \in Listas
      PROVE  D[l] = IF l = dst THEN D[l] \o Secuencias!Primeros(D[o], 0)
                    ELSE IF l = o THEN SubSeq(D[l], 0 + 1, Len(D[l])) ELSE D[l]
  BY <1>2, <1>3, <1>4
<1>6. D = [l \in Listas |-> D[l]]
  OBVIOUS
<1> QED
  BY <1>5, <1>6, Zenon DEF Tomadas

\* One turn of list_take_and_remove, of a list that has run out.
LEMMA TomadasSinOrigen ==
  ASSUME NEW T, NULL \in T, NEW D \in [Listas -> Seq(T)], NEW o \in Listas, NEW dst \in Listas,
         o # dst, NEW n \in Nat \ {0}, Len(D[o]) = 0
  PROVE  Tomadas(ConAlFinal(D, dst, NULL), o, dst, n - 1) = Tomadas(D, o, dst, n)
<1> DEFINE s == D[o]
           t == D[dst]
           E == [D EXCEPT ![dst] = Append(@, NULL)]
           p == Secuencias!Primeros(s, n - 1)
           q == Secuencias!Primeros(s, n)
<1>1. s \in Seq(T) /\ t \in Seq(T) /\ n \in Nat /\ n - 1 \in Nat /\ Len(s) = 0
  OBVIOUS
<1>2. E[o] = s /\ E[dst] = Append(t, NULL) /\ \A l \in Listas : l # dst => E[l] = D[l]
  OBVIOUS
<1> HIDE DEF s, t, E
<1>3. /\ p \in Seq(T) /\ Len(p) = n - 1 /\ q \in Seq(T) /\ Len(q) = n
      /\ \A i \in 1 .. n - 1 : p[i] = IF i <= Len(s) THEN s[i] ELSE NULL
      /\ \A i \in 1 .. n : q[i] = IF i <= Len(s) THEN s[i] ELSE NULL
  BY <1>1, TipoPrimeros
<1> HIDE DEF p, q
<1>4. q = <<NULL>> \o p
  <2>1. q[1] = NULL
    <3>1. 1 \in 1 .. n /\ ~(1 <= Len(s))
      BY <1>1
    <3> QED
      BY <1>3, <3>1
  <2>2. ASSUME NEW i \in 1 .. n - 1 PROVE q[i + 1] = p[i]
    <3>1. i + 1 \in 1 .. n /\ ~(i <= Len(s)) /\ ~(i + 1 <= Len(s))
      BY <1>1
    <3> QED
      BY <1>3, <3>1
  <2>3. UnaMas(NULL, p, q)
    BY <1>1, <1>3, <2>1, <2>2 DEF UnaMas
  <2>4. p \in Seq(T) /\ q \in Seq(T) /\ NULL \in T
    BY <1>3
  <2> QED
    BY <2>3, <2>4, UnaYElResto, Zenon
<1>5. Append(t, NULL) \o p = t \o q
  <2>1. Corrido(t, NULL, p)
    BY <1>1, <1>3, AgregadoAntes
  <2> QED
    BY <1>4, <2>1, Zenon DEF Corrido
<1>6. SubSeq(s, n - 1 + 1, Len(s)) = SubSeq(s, n + 1, Len(s))
  <2>1. n + 1 \in Int /\ n - 1 + 1 \in Int /\ 0 < n + 1 /\ 0 < n - 1 + 1 /\ 0 \in Int
    BY <1>1
  <2>2. SubSeq(s, n - 1 + 1, 0) = << >>
    BY <2>1, SubSeqEmpty
  <2>3. SubSeq(s, n + 1, 0) = << >>
    BY <2>1, SubSeqEmpty
  <2> QED
    BY <1>1, <2>2, <2>3
<1>7. ASSUME NEW l \in Listas
      PROVE  (IF l = dst THEN E[l] \o Secuencias!Primeros(E[o], n - 1)
              ELSE IF l = o THEN SubSeq(E[l], n - 1 + 1, Len(E[l])) ELSE E[l]) =
             (IF l = dst THEN D[l] \o Secuencias!Primeros(D[o], n)
              ELSE IF l = o THEN SubSeq(D[l], n + 1, Len(D[l])) ELSE D[l])
  <2>1. CASE l = dst
    BY <1>2, <1>5, <2>1 DEF p, q, s, t
  <2>2. CASE l # dst /\ l = o
    <3>1. E[l] = s /\ D[l] = s
      BY <1>2, <2>2 DEF s
    <3> QED
      BY <1>6, <2>2, <3>1
  <2>3. CASE l # dst /\ l # o
    BY <1>2, <2>3
  <2> QED
    BY <2>1, <2>2, <2>3
<1>8. Tomadas(E, o, dst, n - 1) = Tomadas(D, o, dst, n)
  BY <1>7, Zenon DEF Tomadas
<1> QED
  BY <1>8 DEF E, ConAlFinal

\* One turn of list_take_and_remove, of a list that has elements.
LEMMA TomadasUna ==
  ASSUME NEW T, NULL \in T, NEW D \in [Listas -> Seq(T)], NEW o \in Listas, NEW dst \in Listas,
         o # dst, NEW n \in Nat \ {0}, Len(D[o]) # 0
  PROVE  Tomadas(ConMovido(D, o, dst), o, dst, n - 1) = Tomadas(D, o, dst, n)
<1> DEFINE s == D[o]
           t == D[dst]
           r == Secuencias!RemoveAt(s, 1)
           E == [D EXCEPT ![o] = Secuencias!RemoveAt(@, 1), ![dst] = Append(@, D[o][1])]
           p == Secuencias!Primeros(r, n - 1)
           q == Secuencias!Primeros(s, n)
           x == s[1]
<1>1. s \in Seq(T) /\ t \in Seq(T) /\ n \in Nat /\ n - 1 \in Nat /\ n # 0 /\ Len(s) # 0
  OBVIOUS
<1>2. E[o] = r /\ E[dst] = Append(t, x) /\ \A l \in Listas : l # dst /\ l # o => E[l] = D[l]
  OBVIOUS
<1> HIDE DEF s, t, E
<1>3. Len(s) \in Nat \ {0} /\ x \in T
  <2>1. Len(s) \in Nat \ {0}
    BY <1>1, LenProperties
  <2>2. 1 \in 1 .. Len(s)
    BY <2>1
  <2> QED
    BY <1>1, <2>1, <2>2, ElementOfSeq
<1>4. r \in Seq(T) /\ Len(r) = Len(s) - 1 /\ \A j \in 1 .. Len(s) - 1 : r[j] = s[j + 1]
  <2>1. 0 \in 0 .. Len(s) - 1
    BY <1>3
  <2>2. /\ Secuencias!RemoveAt(s, 0 + 1) \in Seq(T)
        /\ Len(Secuencias!RemoveAt(s, 0 + 1)) = Len(s) - 1
        /\ \A j \in 1 .. Len(s) - 1 :
              Secuencias!RemoveAt(s, 0 + 1)[j] = IF j <= 0 THEN s[j] ELSE s[j + 1]
    BY <1>1, <2>1, SinUnElemento
  <2>3. 0 + 1 = 1
    OBVIOUS
  <2>4. r = Secuencias!RemoveAt(s, 0 + 1)
    BY <2>3
  <2> HIDE DEF r
  <2> QED
    BY <1>3, <2>2, <2>4
<1> HIDE DEF r, x
<1>5. /\ p \in Seq(T) /\ Len(p) = n - 1 /\ q \in Seq(T) /\ Len(q) = n
      /\ \A i \in 1 .. n - 1 : p[i] = IF i <= Len(r) THEN r[i] ELSE NULL
      /\ \A i \in 1 .. n : q[i] = IF i <= Len(s) THEN s[i] ELSE NULL
  BY <1>1, <1>4, TipoPrimeros
<1> HIDE DEF p, q
<1>6. q = <<x>> \o p
  <2>1. q[1] = x
    <3>1. 1 \in 1 .. n /\ 1 <= Len(s)
      BY <1>1, <1>3
    <3> QED
      BY <1>5, <3>1 DEF x
  <2>2. ASSUME NEW i \in 1 .. n - 1 PROVE q[i + 1] = p[i]
    <3>1. q[i + 1] = IF i + 1 <= Len(s) THEN s[i + 1] ELSE NULL
      BY <1>1, <1>5
    <3>2. i + 1 <= Len(s) <=> i <= Len(r)
      BY <1>1, <1>3, <1>4
    <3>3. i <= Len(r) => r[i] = s[i + 1]
      BY <1>1, <1>3, <1>4
    <3> QED
      BY <1>5, <3>1, <3>2, <3>3
  <2>3. UnaMas(x, p, q)
    BY <1>1, <1>5, <2>1, <2>2 DEF UnaMas
  <2>4. p \in Seq(T) /\ q \in Seq(T) /\ x \in T
    BY <1>3, <1>5
  <2> QED
    BY <2>3, <2>4, UnaYElResto, Zenon
<1>7. Append(t, x) \o p = t \o q
  <2>1. Corrido(t, x, p)
    BY <1>1, <1>3, <1>5, AgregadoAntes
  <2> QED
    BY <1>6, <2>1, Zenon DEF Corrido
<1>8. SubSeq(r, n - 1 + 1, Len(r)) = SubSeq(s, n + 1, Len(s))
  <2> DEFINE a == SubSeq(r, n - 1 + 1, Len(r))
             b == SubSeq(s, n + 1, Len(s))
  <2>1. /\ n - 1 + 1 \in Int /\ n + 1 \in Int /\ Len(r) \in Int /\ Len(s) \in Int
    BY <1>1, <1>3, <1>4
  <2>2. \A i \in n - 1 + 1 .. Len(r) : r[i] \in T
    <3>1. \A i \in n - 1 + 1 .. Len(r) : i \in 1 .. Len(r)
      BY <1>1, <2>1
    <3> QED
      BY <1>4, <3>1, ElementOfSeq
  <2>3. \A i \in n + 1 .. Len(s) : s[i] \in T
    <3>1. \A i \in n + 1 .. Len(s) : i \in 1 .. Len(s)
      BY <1>1, <2>1
    <3> QED
      BY <1>1, <3>1, ElementOfSeq
  <2>4. /\ a \in Seq(T) /\ Len(a) = IF n - 1 + 1 <= Len(r) THEN Len(r) - (n - 1 + 1) + 1 ELSE 0
        /\ \A i \in 1 .. Len(r) - (n - 1 + 1) + 1 : a[i] = r[n - 1 + 1 + i - 1]
    BY <2>1, <2>2, SubSeqProperties
  <2>5. /\ b \in Seq(T) /\ Len(b) = IF n + 1 <= Len(s) THEN Len(s) - (n + 1) + 1 ELSE 0
        /\ \A i \in 1 .. Len(s) - (n + 1) + 1 : b[i] = s[n + 1 + i - 1]
    BY <2>1, <2>3, SubSeqProperties
  <2> HIDE DEF a, b
  <2>6. Len(a) = Len(b)
    BY <1>1, <1>3, <1>4, <2>4, <2>5
  <2>7. ASSUME NEW i \in 1 .. Len(a) PROVE a[i] = b[i]
    <3>1. /\ i \in Nat /\ i # 0 /\ i \in 1 .. Len(r) - (n - 1 + 1) + 1
          /\ i \in 1 .. Len(s) - (n + 1) + 1
      BY <1>1, <1>3, <1>4, <2>4, <2>6
    <3>2. a[i] = r[n + i - 1] /\ b[i] = s[n + i]
      <4>1. n - 1 + 1 + i - 1 = n + i - 1 /\ n + 1 + i - 1 = n + i
        BY <1>1, <3>1
      <4> QED
        BY <2>4, <2>5, <3>1, <4>1
    <3>3. n + i - 1 \in 1 .. Len(s) - 1 /\ n + i - 1 + 1 = n + i
      BY <1>1, <1>3, <3>1
    <3> QED
      BY <1>4, <3>2, <3>3
  <2>8. a = b
    BY <2>4, <2>5, <2>6, <2>7, SeqEqual
  <2> QED
    BY <2>8 DEF a, b
<1>9. ASSUME NEW l \in Listas
      PROVE  (IF l = dst THEN E[l] \o Secuencias!Primeros(E[o], n - 1)
              ELSE IF l = o THEN SubSeq(E[l], n - 1 + 1, Len(E[l])) ELSE E[l]) =
             (IF l = dst THEN D[l] \o Secuencias!Primeros(D[o], n)
              ELSE IF l = o THEN SubSeq(D[l], n + 1, Len(D[l])) ELSE D[l])
  <2>1. CASE l = dst
    BY <1>2, <1>7, <2>1 DEF p, q, s, t
  <2>2. CASE l # dst /\ l = o
    <3>1. E[l] = r /\ D[l] = s
      BY <1>2, <2>2 DEF s
    <3> QED
      BY <1>8, <2>2, <3>1
  <2>3. CASE l # dst /\ l # o
    BY <1>2, <2>3
  <2> QED
    BY <2>1, <2>2, <2>3
<1>10. Tomadas(E, o, dst, n - 1) = Tomadas(D, o, dst, n)
  BY <1>9, Zenon DEF Tomadas
<1> QED
  BY <1>10 DEF E, ConMovido

\* What the iteration under way has still to visit.
Resto == Faltan(origen, element)

\* What contenido is, at rest and in each loop.
ElContenido ==
  /\ pc = "libre" => contenido = Cadenas
  /\ pc = "iterar" /\ origen \in Listas /\ destino \in Listas =>
       contenido = Iteradas(Cadenas, origen, destino, condition, Resto)
  /\ pc = "tomar" /\ origen \in Listas /\ destino \in Listas /\ origen # destino
       /\ SonDatos(Cadenas, elements_count) =>
       contenido = Tomadas(Cadenas, origen, destino, count)

LEMMA ElContenidoEs == ElContenido
<1>1. ASSUME pc = "libre" PROVE contenido = Cadenas
  BY <1>1 DEF contenido, Cadenas
<1>2. ASSUME pc = "iterar", origen \in Listas, destino \in Listas
      PROVE  contenido = Iteradas(Cadenas, origen, destino, condition, Resto)
  <2>1. contenido = [l \in Listas |->
          IF l = destino THEN Cadena(l) \o UltimosQue(Cadena(origen), condition, Resto)
          ELSE Cadena(l)]
    BY <1>2 DEF contenido, Resto
  <2> QED
    BY <1>2, <2>1 DEF Iteradas, Cadenas
<1>3. ASSUME pc = "tomar", origen \in Listas, destino \in Listas, origen # destino,
             SonDatos(Cadenas, elements_count)
      PROVE  contenido = Tomadas(Cadenas, origen, destino, count)
  <2>1. contenido = [l \in Listas |->
          IF l = destino
            THEN Cadena(l) \o [i \in 1 .. count |->
                   IF i <= elements_count[origen] THEN Cadena(origen)[i] ELSE NULL]
          ELSE IF l = origen THEN SubSeq(Cadena(l), count + 1, elements_count[l])
          ELSE Cadena(l)]
    BY <1>3 DEF contenido
  <2>2. /\ \A l \in Listas : Cadena(l) = Cadenas[l]
        /\ \A l \in Listas : elements_count[l] = Len(Cadenas[l])
    BY <1>3 DEF Cadenas, SonDatos
  <2>3. Secuencias!Primeros(Cadenas[origen], count) =
          [i \in 1 .. count |-> IF i <= elements_count[origen] THEN Cadena(origen)[i] ELSE NULL]
    BY <1>3, <2>2 DEF Secuencias!Primeros
  <2> QED
    BY <2>1, <2>2, <2>3 DEF Tomadas
<1> QED
  BY <1>1, <1>2, <1>3 DEF ElContenido

LEMMA ElContenidoDespues == ElContenido'
  BY ElContenidoEs, PTL

\* From the i-th node on there are elements_count - i + 1 nodes.
ElResto ==
  \A W : Heap(nodos, head, elements_count, W) /\ origen \in Listas =>
    /\ element = NULL => Resto = 0
    /\ \A i \in 1 .. elements_count[origen] :
         element = W[origen][i] => Resto = elements_count[origen] - i + 1

LEMMA ElRestoEs == ElResto
<1> SUFFICES ASSUME NEW W, Heap(nodos, head, elements_count, W), origen \in Listas
             PROVE  /\ element = NULL => Resto = 0
                    /\ \A i \in 1 .. elements_count[origen] :
                         element = W[origen][i] => Resto = elements_count[origen] - i + 1
  BY DEF ElResto
<1> DEFINE c == elements_count[origen]
           p == {i \in 0 .. c - 1 : Nodo(origen, i) = element}
<1>1. Resto = IF p = {} THEN 0 ELSE c - (CHOOSE i \in p : TRUE)
  BY DEF Resto, Faltan
<1>2. c \in Nat /\ \A i \in 1 .. c : W[origen][i] \in DOMAIN nodos
  BY NodosVivos
<1>3. \A i \in 0 .. c - 1 : Nodo(origen, i) = W[origen][i + 1] /\ i + 1 \in 1 .. c
  <2>1. \A i \in 0 .. c - 1 : i \in Nat /\ i < c /\ i + 1 \in 1 .. c
    BY <1>2
  <2> QED
    BY <2>1, LoQueSeLee
<1>4. NULL \notin DOMAIN nodos
  BY ConstantesOK DEF Heap
<1>5. \A i, j \in 1 .. c : W[origen][i] = W[origen][j] => i = j
  BY DEF Heap, Enlazadas
<1> HIDE DEF c
<1>6. ASSUME element = NULL PROVE Resto = 0
  <2>1. p = {}
    BY <1>2, <1>3, <1>4, <1>6
  <2> QED
    BY <1>1, <2>1
<1>7. ASSUME NEW i \in 1 .. c, element = W[origen][i] PROVE Resto = c - i + 1
  <2>1. i - 1 \in 0 .. c - 1 /\ i - 1 + 1 = i
    BY <1>2
  <2>2. i - 1 \in p
    <3>1. Nodo(origen, i - 1) = W[origen][i]
      BY <1>3, <2>1
    <3> QED
      BY <1>7, <2>1, <3>1
  <2>3. \A j \in p : j = i - 1
    <3>1. ASSUME NEW j \in 0 .. c - 1, Nodo(origen, j) = element PROVE j = i - 1
      <4>1. W[origen][j + 1] = W[origen][i] /\ j + 1 \in 1 .. c
        BY <1>3, <1>7, <3>1
      <4>2. j + 1 = i
        BY <1>5, <4>1
      <4> QED
        BY <2>1, <4>2
    <3> QED
      BY <3>1
  <2> HIDE DEF p
  <2>4. (CHOOSE j \in p : TRUE) = i - 1
    BY <2>2, <2>3
  <2>5. Resto = c - (i - 1)
    BY <1>1, <2>2, <2>4
  <2> QED
    BY <1>2, <2>1, <2>5
<1> QED
  BY <1>6, <1>7 DEF c

LEMMA ElRestoDespues == ElResto'
  BY ElRestoEs, PTL

-----------------------------------------------------------------------------
(* Each step is one of the sequences, or none                              *)

LEMMA LosQueEs ==
  ASSUME NEW s, NEW C
  PROVE  Secuencias!LosQue(s, C) = UltimosQue(s, C, Len(s))
  BY DEF Secuencias!LosQue, Secuencias!UltimosQue, UltimosQue

LEMMA LlamadaImplementa ==
  ASSUME Tipos, NEW W, Heap(nodos, head, elements_count, W), pc = "libre", vivo,
         NEW l \in Listas, Llamada(l)
  PROVE  Secuencias!Next
<1> DEFINE T == Datos \cup {NULL}
<1>1. contenido = Cadenas
  BY ElContenidoEs DEF ElContenido
<1>2. /\ Cadenas \in [Listas -> Seq(T)]
      /\ \A m \in Listas : Len(Cadenas[m]) = elements_count[m] /\ elements_count[m] \in Nat
      /\ \A m \in Listas : Secuencias!Largo(m) = elements_count[m]
  <2>1. SonDatos(Cadenas, elements_count)
    BY LoQueSeLee
  <2> QED
    BY <1>1, <2>1 DEF SonDatos, Secuencias!Largo
<1>3. /\ \A m \in Listas, i \in Nat : Secuencias!EnRango(m, i) <=> EnRango(m, i)
      /\ \A m \in Listas, i \in Nat : EnRango(m, i) <=> i \in 0 .. elements_count[m] - 1
  BY <1>2 DEF Secuencias!EnRango, EnRango
<1>4. ASSUME UNCHANGED lista, pc' = "libre" PROVE contenido' = contenido
  <2>1. contenido' = Cadenas'
    BY <1>4, ElContenidoDespues DEF ElContenido
  <2> QED
    BY <1>1, <1>4, <2>1, LeidasIguales
<1>5. ASSUME UNCHANGED bucle PROVE contenido' = Cadenas'
  <2>1. pc' = "libre"
    BY <1>5 DEF bucle
  <2> QED
    BY <2>1, ElContenidoDespues DEF ElContenido
\* The answer of a call at the position i is the datum that is there.
<1>6. ASSUME NEW i \in Nat, EnRango(l, i)
      PROVE  Dato(list_get_element(l, i)) = contenido[l][i + 1]
  <2>1. i < elements_count[l]
    BY <1>6 DEF EnRango
  <2> QED
    BY <1>1, <2>1, LoQueSeLee
<1>7. 0 .. elements_count[l] \subseteq Nat
  BY <1>2
<1> HIDE DEF T
<1>8. ASSUME NEW d \in Datos, list_add(l, d) PROVE Secuencias!Agregar(l, d)
  <2>1. AlFinal(l, d) /\ ret' = elements_count[l] /\ UNCHANGED bucle /\ vivo' = vivo
    BY <1>8 DEF list_add
  <2>2. PICK n : SumaNodo(nodos, head, elements_count, W, l, elements_count[l], n, d,
                          nodos', head', elements_count')
    BY <2>1, AlFinalSuma
  <2>3. contenido' = [contenido EXCEPT ![l] = Append(@, d)]
    <3>1. d \in Datos \cup {NULL}
      OBVIOUS
    <3>2. Cadenas' = [Cadenas EXCEPT ![l] = Append(@, d)]
      BY <2>2, <3>1, LeidasConOtraAlFinal
    <3> QED
      BY <1>1, <1>5, <2>1, <3>2
  <2> QED
    BY <1>2, <2>1, <2>3 DEF Secuencias!Agregar
<1>9. ASSUME NEW i \in 0 .. elements_count[l], NEW d \in Datos, list_add_in_index(l, i, d)
      PROVE  Secuencias!Insertar(l, i, d)
  <2>1. UNCHANGED bucle /\ ret' = ret /\ vivo' = vivo
    BY <1>9 DEF list_add_in_index
  <2>2. PICK n : SumaNodo(nodos, head, elements_count, W, l, i, n, d,
                          nodos', head', elements_count')
    BY <1>9, EnElMedioSuma
  <2>3. contenido' = [contenido EXCEPT ![l] = Secuencias!InsertAt(@, i + 1, d)]
    BY <1>1, <1>5, <2>1, <2>2, LeidasMas
  <2> QED
    BY <1>2, <2>1, <2>3 DEF Secuencias!Insertar
<1>10. ASSUME NEW i \in 0 .. elements_count[l], NEW d \in Datos, list_replace(l, i, d)
       PROVE  Secuencias!Reemplazar(l, i, d)
  <2>1. i \in Nat /\ EnRango(l, i)
    BY <1>7, <1>10 DEF list_replace
  <2>2. UNCHANGED bucle /\ ret' = Dato(list_get_element(l, i)) /\ vivo' = vivo
    BY <1>10 DEF list_replace
  <2>3. contenido' = [contenido EXCEPT ![l][i + 1] = d]
    BY <1>1, <1>5, <1>10, <2>1, <2>2, LeidasConReemplazo
  <2> QED
    BY <1>3, <1>6, <2>1, <2>2, <2>3 DEF Secuencias!Reemplazar
<1>11. ASSUME NEW i \in 0 .. elements_count[l], list_get(l, i) PROVE Secuencias!Obtener(l, i)
  <2>1. i \in Nat
    BY <1>7
  <2>2. /\ ret' = (IF EnRango(l, i) THEN Dato(list_get_element(l, i)) ELSE NULL)
        /\ UNCHANGED lista /\ pc' = "libre" /\ vivo' = vivo
    BY <1>11 DEF list_get, bucle
  <2>3. ret' = IF Secuencias!EnRango(l, i) THEN contenido[l][i + 1] ELSE NULL
    BY <1>3, <1>6, <2>1, <2>2
  <2> QED
    BY <1>4, <2>2, <2>3 DEF Secuencias!Obtener, Secuencias!Consultar
<1>12. ASSUME NEW i \in Nat, list_remove(l, i)
       PROVE  Secuencias!Quitar(l, i) /\ i \in 0 .. Secuencias!Largo(l) - 1
  <2>1. Sacar(l, i) /\ ret' = Dato(list_get_element(l, i)) /\ UNCHANGED bucle /\ vivo' = vivo
    BY <1>12 DEF list_remove
  <2>2. EnRango(l, i)
    BY <2>1 DEF Sacar
  <2>3. /\ i \in 0 .. elements_count[l] - 1
        /\ RestaNodo(nodos, head, elements_count, W, l, i, nodos', head', elements_count')
    BY <2>1, SacarResta
  <2>4. contenido' = [contenido EXCEPT ![l] = Secuencias!RemoveAt(@, i + 1)]
    BY <1>1, <1>5, <2>1, <2>3, LeidasMenos
  <2> QED
    BY <1>2, <1>3, <1>6, <2>1, <2>2, <2>3, <2>4 DEF Secuencias!Quitar
<1>13. ASSUME NEW i \in 0 .. elements_count[l], list_remove_fuera(l, i)
       PROVE  Secuencias!QuitarFuera(l, i)
  <2>1. /\ head[l] # NULL /\ ~EnRango(l, i) /\ vivo' = FALSE /\ ret' = ret
        /\ UNCHANGED lista /\ pc' = "libre"
    BY <1>13 DEF list_remove_fuera, bucle
  <2>2. Secuencias!Largo(l) > 0
    BY <1>2, <2>1, LoQueSeLee
  <2>3. ~Secuencias!EnRango(l, i)
    BY <1>3, <1>7, <2>1
  <2> QED
    BY <1>4, <2>1, <2>2, <2>3 DEF Secuencias!QuitarFuera
<1>14. CASE list_remove_vacia(l)
  <2>1. ret' = NULL /\ UNCHANGED lista /\ pc' = "libre" /\ vivo' = vivo
    BY <1>14 DEF list_remove_vacia, bucle
  <2>2. Secuencias!Consultar(NULL)
    BY <1>4, <2>1 DEF Secuencias!Consultar
  <2> QED
    BY <2>2 DEF Secuencias!Next
<1>15. ASSUME NEW C, list_remove_by_condition(l, C) PROVE Secuencias!QuitarPrimero(l, C)
  <2>1. PICK i \in 0 .. Cardinality(Nodos) : Encuentra(l, C, i) /\ list_remove(l, i)
    BY <1>15 DEF list_remove_by_condition
  <2>2. i \in Nat
    BY Tamanio
  <2>3. Secuencias!Quitar(l, i) /\ i \in 0 .. Secuencias!Largo(l) - 1 /\ i < elements_count[l]
    BY <1>2, <1>12, <2>1, <2>2
  <2>4. ASSUME NEW j \in Nat, j < elements_count[l]
        PROVE  Dato(Nodo(l, j)) = contenido[l][j + 1]
    BY <1>1, <2>4, LoQueSeLee
  <2>5. contenido[l][i + 1] \in C
    BY <2>1, <2>2, <2>3, <2>4 DEF Encuentra
  <2>6. ASSUME NEW j \in 0 .. i - 1 PROVE contenido[l][j + 1] \notin C
    <3>1. j \in Nat /\ j < elements_count[l]
      BY <1>2, <2>2, <2>3
    <3>2. Dato(Nodo(l, j)) \notin C
      BY <2>1 DEF Encuentra
    <3> QED
      BY <2>4, <3>1, <3>2
  <2> QED
    BY <2>3, <2>5, <2>6 DEF Secuencias!QuitarPrimero
<1>16. CASE list_clean(l)
  <2>1. UNCHANGED bucle /\ ret' = ret /\ vivo' = vivo
    BY <1>16 DEF list_clean
  <2>2. contenido' = [contenido EXCEPT ![l] = << >>]
    BY <1>1, <1>5, <1>16, <2>1, LeidasSinNada
  <2>3. Secuencias!Vaciar(l)
    BY <2>1, <2>2 DEF Secuencias!Vaciar
  <2> QED
    BY <2>3 DEF Secuencias!Next
<1>17. ASSUME NEW m \in Listas \ {l}, NEW C, EmpezarIteracion(l, m, C)
       PROVE  Secuencias!AgregarTodos(l, m, C)
  <2>1. /\ pc' = "iterar" /\ destino' = l /\ origen' = m /\ element' = head[m]
        /\ condition' = C /\ ret' = ret /\ vivo' = vivo /\ UNCHANGED lista
    BY <1>17 DEF EmpezarIteracion
  <2>2. contenido' = Iteradas(Cadenas', origen', destino', condition', Resto')
    BY <2>1, ElContenidoDespues DEF ElContenido
  <2>3. Cadenas' = Cadenas
    BY <2>1, LeidasIguales
  <2>4. Resto' = elements_count[m]
    <3>1. Heap(nodos', head', elements_count', W) /\ elements_count' = elements_count
      BY <2>1 DEF lista
    <3>2. /\ element' = NULL => Resto' = 0
          /\ \A i \in 1 .. elements_count[m] :
               element' = W[m][i] => Resto' = elements_count[m] - i + 1
      BY <2>1, <3>1, ElRestoDespues DEF ElResto
    <3>3. head[m] = (IF elements_count[m] = 0 THEN NULL ELSE W[m][1]) /\ elements_count[m] \in Nat
      BY DEF Heap, Enlazadas
    <3>4. CASE elements_count[m] = 0
      BY <2>1, <3>2, <3>3, <3>4
    <3>5. CASE elements_count[m] # 0
      <4>1. 1 \in 1 .. elements_count[m]
        BY <3>3, <3>5
      <4>2. Resto' = elements_count[m] - 1 + 1
        BY <2>1, <3>2, <3>3, <3>5, <4>1
      <4> QED
        BY <3>3, <4>2
    <3> QED
      BY <3>4, <3>5
  <2>5. contenido' = Iteradas(contenido, m, l, C, elements_count[m])
    BY <1>1, <2>1, <2>2, <2>3, <2>4
  <2>6. Secuencias!LosQue(contenido[m], C) = UltimosQue(contenido[m], C, elements_count[m])
    BY <1>1, <1>2, LosQueEs
  <2> QED
    BY <2>1, <2>5, <2>6 DEF Secuencias!AgregarTodos, Iteradas
<1>18. ASSUME NEW m \in Listas \ {l}, NEW n, EmpezarTomar(l, m, n)
       PROVE  Secuencias!Mover(l, m, n)
  <2>1. /\ pc' = "tomar" /\ destino' = l /\ origen' = m /\ count' = n
        /\ ret' = ret /\ vivo' = vivo /\ UNCHANGED lista
    BY <1>18 DEF EmpezarTomar
  <2>2. Cadenas' = Cadenas /\ elements_count' = elements_count
    BY <2>1, LeidasIguales DEF lista
  <2>3. SonDatos(Cadenas', elements_count')
    BY <2>2, LoQueSeLee
  <2>4. contenido' = Tomadas(Cadenas', origen', destino', count')
    BY <2>1, <2>3, ElContenidoDespues DEF ElContenido
  <2>5. contenido' = Tomadas(contenido, m, l, n)
    BY <1>1, <2>1, <2>2, <2>4
  <2>6. Tomadas(contenido, m, l, n) =
          [contenido EXCEPT ![l] = @ \o Secuencias!Primeros(contenido[m], n),
                            ![m] = SubSeq(@, n + 1, Len(@))]
    BY <1>1, <1>2 DEF Tomadas
  <2> QED
    BY <2>1, <2>5, <2>6 DEF Secuencias!Mover
<1>19. Secuencias!Largo(l) = elements_count[l]
  BY <1>2
<1>20. CASE \E d \in Datos : list_add(l, d)
  BY <1>8, <1>20, Zenon DEF Secuencias!Next
<1>21. CASE \E i \in 0 .. elements_count[l], d \in Datos :
              list_add_in_index(l, i, d) \/ list_replace(l, i, d)
  <2>1. PICK i \in 0 .. Secuencias!Largo(l), d \in Datos :
          Secuencias!Insertar(l, i, d) \/ Secuencias!Reemplazar(l, i, d)
    BY <1>9, <1>10, <1>19, <1>21, Zenon
  <2> QED
    BY <2>1, Zenon DEF Secuencias!Next
<1>22. CASE \E i \in 0 .. elements_count[l] :
              list_get(l, i) \/ list_remove(l, i) \/ list_remove_fuera(l, i)
  <2>1. PICK i \in 0 .. Secuencias!Largo(l) :
          Secuencias!Quitar(l, i) \/ Secuencias!Obtener(l, i) \/ Secuencias!QuitarFuera(l, i)
    <3>1. PICK i \in 0 .. elements_count[l] :
            list_get(l, i) \/ list_remove(l, i) \/ list_remove_fuera(l, i)
      BY <1>22
    <3>2. i \in Nat /\ i \in 0 .. Secuencias!Largo(l)
      BY <1>7, <1>19
    <3>3. Secuencias!Quitar(l, i) \/ Secuencias!Obtener(l, i) \/ Secuencias!QuitarFuera(l, i)
      BY <1>11, <1>12, <1>13, <3>1, <3>2, Zenon
    <3> QED
      BY <3>2, <3>3, Zenon
  <2> QED
    BY <2>1, Zenon DEF Secuencias!Next
<1>23. CASE \E C \in SUBSET Datos : list_remove_by_condition(l, C)
  BY <1>15, <1>23, Zenon DEF Secuencias!Next
<1>24. CASE \E m \in Listas \ {l} : \E C \in (SUBSET Datos) \cup {Datos \cup {NULL}} :
              EmpezarIteracion(l, m, C)
  <2>1. PICK m \in Listas \ {l}, C \in (SUBSET Datos) \cup {Datos \cup {NULL}} :
          EmpezarIteracion(l, m, C)
    BY <1>24
  <2>2. C \in SUBSET (Datos \cup {NULL})
    OBVIOUS
  <2>3. Secuencias!AgregarTodos(l, m, C)
    BY <1>17, <2>1
  <2> QED
    BY <2>2, <2>3, Zenon DEF Secuencias!Next
<1>25. CASE \E m \in Listas \ {l} : \E n \in 0 .. elements_count[m] + 1 : EmpezarTomar(l, m, n)
  <2>1. PICK m \in Listas \ {l} : \E n \in 0 .. elements_count[m] + 1 : EmpezarTomar(l, m, n)
    BY <1>25
  <2>2. PICK n \in 0 .. elements_count[m] + 1 : EmpezarTomar(l, m, n)
    BY <2>1
  <2>3. n \in 0 .. Secuencias!Largo(m) + 1
    BY <1>2
  <2>4. Secuencias!Mover(l, m, n)
    BY <1>18, <2>2
  <2> QED
    BY <2>3, <2>4, Zenon DEF Secuencias!Next
<1> QED
  BY <1>14, <1>16, <1>20, <1>21, <1>22, <1>23, <1>24, <1>25, Zenon DEF Llamada

\* The loops were counted as done when they began: their turns change nothing that a caller sees.
LEMMA BucleImplementa ==
  ASSUME Tipos, NEW W, Heap(nodos, head, elements_count, W),
         EnBucle(pc, origen, destino, element, elements_count, W), PasoDelBucle
  PROVE  UNCHANGED <<contenido, ret, vivo>>
<1> DEFINE T == Datos \cup {NULL}
<1>1. /\ SonDatos(Cadenas, elements_count) /\ origen \in Listas /\ destino \in Listas
      /\ Cadenas \in [Listas -> Seq(T)] /\ NULL \in T
      /\ \A m \in Listas : Len(Cadenas[m]) = elements_count[m] /\ elements_count[m] \in Nat
  BY LoQueSeLee DEF SonDatos, Tipos
<1> HIDE DEF T
<1>2. CASE Iterar
  <2>1. /\ pc = "iterar" /\ element # NULL /\ element' = Siguiente(element) /\ origen # destino
        /\ IF Dato(element) \in condition
             THEN AlFinal(destino, Dato(element)) ELSE UNCHANGED lista
        /\ pc' = pc /\ origen' = origen /\ destino' = destino /\ condition' = condition
        /\ ret' = ret /\ vivo' = vivo
    BY <1>2 DEF Iterar, EnBucle
  <2> DEFINE c == elements_count[origen]
             x == Dato(element)
  <2>2. PICK i \in 1 .. c : element = W[origen][i]
    BY <2>1 DEF EnBucle
  <2>3. /\ element \in DOMAIN nodos /\ Siguiente(element) = nodos[element].next
        /\ x \in Datos \cup {NULL} /\ x = Cadenas[origen][i]
    <3>1. W[origen][i] \in DOMAIN nodos /\ nodos[W[origen][i]].data \in Datos \cup {NULL}
      BY <1>1, <2>2, NodosVivos
    <3>2. i - 1 \in Nat /\ i - 1 < c /\ i - 1 + 1 = i
      BY <1>1, <2>2
    <3>3. Dato(W[origen][i - 1 + 1]) = Cadenas[origen][i - 1 + 1]
      BY <1>1, <3>2, LoQueSeLee
    <3> QED
      BY <2>2, <3>1, <3>2, <3>3 DEF Dato, Siguiente
  <2>4. nodos[element].next = IF i = c THEN NULL ELSE W[origen][i + 1]
    BY <1>1, <2>2 DEF Heap, Enlazadas
  <2>5. Resto = c - i + 1
    BY <1>1, <2>2, ElRestoEs DEF ElResto
\* Whether or not the node is added, the lists are what they were and the iteration is at the
\* next node.
  <2>6. /\ Cadenas' = SiCumple(Cadenas, destino, condition, x)
        /\ \E V : /\ Heap(nodos', head', elements_count', V)
                  /\ V[origen] = W[origen] /\ elements_count'[origen] = c
    <3>1. CASE x \in condition
      <4> DEFINE e == elements_count[destino]
      <4>1. PICK n : SumaNodo(nodos, head, elements_count, W, destino, e, n, x,
                              nodos', head', elements_count')
        BY <1>1, <2>1, <2>3, <3>1, AlFinalSuma
      <4> DEFINE V == Con(W, destino, Insertada(W[destino], e, e, n))
      <4>2. Heap(nodos', head', elements_count', V)
        <5>1. e \in 0 .. e
          BY <1>1
        <5> QED
          BY <1>1, <2>3, <4>1, <5>1, HeapConUnoMas
      <4>3. V[origen] = W[origen] /\ elements_count'[origen] = c
        BY <1>1, <2>1, <4>1 DEF Con, SumaNodo
      <4>4. Cadenas' = [Cadenas EXCEPT ![destino] = Append(@, x)]
        <5>1. x \in Datos \cup {NULL} /\ destino \in Listas
          BY <1>1, <2>3
        <5> HIDE DEF x
        <5> QED
          BY <4>1, <5>1, LeidasConOtraAlFinal
      <4> HIDE DEF V, x
      <4> QED
        BY <3>1, <4>2, <4>3, <4>4 DEF SiCumple, ConAlFinal
    <3>2. CASE x \notin condition
      <4>1. UNCHANGED lista
        BY <2>1, <3>2
      <4>2. Heap(nodos', head', elements_count', W) /\ elements_count' = elements_count
        BY <4>1 DEF lista
      <4>3. Cadenas' = Cadenas
        BY <4>1, LeidasIguales
      <4> HIDE DEF x
      <4> QED
        BY <3>2, <4>2, <4>3 DEF SiCumple
    <3> QED
      BY <3>1, <3>2
  <2> HIDE DEF x
  <2>7. Resto' = c - i
    <3>1. PICK V : /\ Heap(nodos', head', elements_count', V)
                   /\ V[origen] = W[origen] /\ elements_count'[origen] = c
      BY <2>6
    <3>2. /\ element' = NULL => Resto' = 0
          /\ \A j \in 1 .. c : element' = W[origen][j] => Resto' = c - j + 1
      BY <1>1, <2>1, <3>1, ElRestoDespues DEF ElResto
    <3>3. CASE i = c
      BY <1>1, <2>1, <2>3, <2>4, <3>2, <3>3
    <3>4. CASE i # c
      <4>1. i + 1 \in 1 .. c /\ c - (i + 1) + 1 = c - i
        BY <1>1, <2>2, <3>4
      <4> QED
        BY <2>1, <2>3, <2>4, <3>2, <3>4, <4>1
    <3> QED
      BY <3>3, <3>4
  <2>8. /\ contenido = Iteradas(Cadenas, origen, destino, condition, c - i + 1)
        /\ contenido' = Iteradas(Cadenas', origen, destino, condition, c - i)
    <3>1. contenido = Iteradas(Cadenas, origen, destino, condition, Resto)
      BY <1>1, <2>1, ElContenidoEs DEF ElContenido
    <3>2. contenido' = Iteradas(Cadenas', origen', destino', condition', Resto')
      BY <1>1, <2>1, ElContenidoDespues DEF ElContenido
    <3> QED
      BY <2>1, <2>5, <2>7, <3>1, <3>2
  <2>9. Iteradas(Cadenas, origen, destino, condition, c - i + 1) =
          Iteradas(Cadenas', origen, destino, condition, c - i)
    <3>1. /\ c - i + 1 \in 1 .. Len(Cadenas[origen]) /\ c - i + 1 - 1 = c - i
          /\ Len(Cadenas[origen]) - (c - i + 1) + 1 = i
      <4>1. Len(Cadenas[origen]) = c /\ c \in Nat
        BY <1>1
      <4> HIDE DEF c
      <4>2. i \in 1 .. c
        OBVIOUS
      <4> QED
        BY <4>1, <4>2
    <3> DEFINE k == c - i + 1
    <3>2. k \in 1 .. Len(Cadenas[origen]) /\ x = Cadenas[origen][Len(Cadenas[origen]) - k + 1]
      BY <2>3, <3>1
    <3>3. k - 1 = c - i
      BY <1>1, <2>2
    <3>4. /\ Cadenas \in [Listas -> Seq(T)]
          /\ origen \in Listas /\ destino \in Listas /\ origen # destino
      BY <1>1, <2>1
    <3> HIDE DEF k
    <3>5. Iteradas(Cadenas, origen, destino, condition, k) =
            Iteradas(SiCumple(Cadenas, destino, condition, x), origen, destino, condition, k - 1)
      BY <3>2, <3>4, IteradasUna
    <3>6. Iteradas(Cadenas, origen, destino, condition, k) =
            Iteradas(Cadenas', origen, destino, condition, k - 1)
      BY <2>6, <3>5
    <3> QED
      BY <3>3, <3>6 DEF k
  <2> QED
    BY <2>1, <2>8, <2>9
<1>3. CASE FinDeIteracion
  <2>1. /\ pc = "iterar" /\ element = NULL /\ pc' = "libre" /\ UNCHANGED lista
        /\ ret' = ret /\ vivo' = vivo
    BY <1>3 DEF FinDeIteracion
  <2>2. contenido' = Cadenas
    <3>1. contenido' = Cadenas'
      BY <2>1, ElContenidoDespues DEF ElContenido
    <3> QED
      BY <2>1, <3>1, LeidasIguales
  <2>3. contenido = Iteradas(Cadenas, origen, destino, condition, Resto)
    BY <1>1, <2>1, ElContenidoEs DEF ElContenido
  <2>4. Resto = 0
    BY <1>1, <2>1, ElRestoEs DEF ElResto
  <2>5. contenido = Cadenas
    BY <1>1, <2>3, <2>4, IteradasNada
  <2> QED
    BY <2>1, <2>2, <2>5
<1>4. CASE FinDeTomar
  <2>1. /\ pc = "tomar" /\ count = 0 /\ pc' = "libre" /\ UNCHANGED lista /\ origen # destino
        /\ ret' = ret /\ vivo' = vivo
    BY <1>4 DEF FinDeTomar, EnBucle
  <2>2. contenido' = Cadenas
    <3>1. contenido' = Cadenas'
      BY <2>1, ElContenidoDespues DEF ElContenido
    <3> QED
      BY <2>1, <3>1, LeidasIguales
  <2>3. contenido = Tomadas(Cadenas, origen, destino, 0)
    BY <1>1, <2>1, ElContenidoEs DEF ElContenido
  <2>4. contenido = Cadenas
    BY <1>1, <2>3, TomadasCero
  <2> QED
    BY <2>1, <2>2, <2>4
<1>5. CASE Tomar
  <2>1. /\ pc = "tomar" /\ count > 0 /\ count' = count - 1 /\ origen # destino
        /\ pc' = pc /\ origen' = origen /\ destino' = destino /\ ret' = ret /\ vivo' = vivo
    BY <1>5 DEF Tomar, EnBucle
  <2>2. count \in Nat \ {0}
    BY <2>1, Tamanio DEF Tipos
  <2>3. SonDatos(Cadenas', elements_count')
    <3>1. Tipos /\ pc # "libre"
      BY <2>1
    <3>2. PICK V : Heap(nodos', head', elements_count', V)
      BY BucleCoherente DEF IInv
    <3>3. Cadenas' = Vista(nodos', elements_count', V)
      BY <3>2, SeLeenDespues DEF LeenLosDatos
    <3> QED
      BY <3>2, <3>3, VistaTipo
  <2>4. /\ contenido = Tomadas(Cadenas, origen, destino, count)
        /\ contenido' = Tomadas(Cadenas', origen, destino, count - 1)
    <3>1. contenido = Tomadas(Cadenas, origen, destino, count)
      BY <1>1, <2>1, ElContenidoEs DEF ElContenido
    <3>2. contenido' = Tomadas(Cadenas', origen', destino', count')
      BY <1>1, <2>1, <2>3, ElContenidoDespues DEF ElContenido
    <3> QED
      BY <2>1, <3>1, <3>2
  <2>5. CASE elements_count[origen] = 0
    <3>1. PICK n : SumaNodo(nodos, head, elements_count, W, destino, elements_count[destino], n,
                            NULL, nodos', head', elements_count')
      BY <1>1, <1>5, <2>1, <2>5, TomarNada
    <3>2. Cadenas' = ConAlFinal(Cadenas, destino, NULL)
      <4>1. NULL \in Datos \cup {NULL}
        OBVIOUS
      <4> QED
        BY <1>1, <3>1, <4>1, LeidasConOtraAlFinal DEF ConAlFinal
    <3>3. Tomadas(ConAlFinal(Cadenas, destino, NULL), origen, destino, count - 1) =
            Tomadas(Cadenas, origen, destino, count)
      <4>1. /\ Len(Cadenas[origen]) = 0 /\ Cadenas \in [Listas -> Seq(T)] /\ NULL \in T
            /\ origen \in Listas /\ destino \in Listas /\ origen # destino
        BY <1>1, <2>1, <2>5
      <4> QED
        BY <2>2, <4>1, TomadasSinOrigen
    <3> QED
      BY <2>1, <2>4, <3>2, <3>3
  <2>6. CASE elements_count[origen] # 0
    <3>1. Cadenas' = ConMovido(Cadenas, origen, destino)
      BY <1>1, <1>5, <2>1, <2>6, LeidasAlMover DEF ConMovido
    <3>2. Tomadas(ConMovido(Cadenas, origen, destino), origen, destino, count - 1) =
            Tomadas(Cadenas, origen, destino, count)
      <4>1. /\ Len(Cadenas[origen]) # 0 /\ Cadenas \in [Listas -> Seq(T)] /\ NULL \in T
            /\ origen \in Listas /\ destino \in Listas /\ origen # destino
        BY <1>1, <2>1, <2>6
      <4> QED
        BY <2>2, <4>1, TomadasUna
    <3> QED
      BY <2>1, <2>4, <3>1, <3>2
  <2> QED
    BY <2>5, <2>6
<1> QED
  BY <1>2, <1>3, <1>4, <1>5 DEF PasoDelBucle

LEMMA AlEmpezarImplementa == Init => Secuencias!Init
<1> SUFFICES ASSUME Init PROVE Secuencias!Init
  OBVIOUS
<1>1. PICK W : Heap(nodos, head, elements_count, W)
  BY AlEmpezar DEF IInv
<1>2. contenido = Cadenas
  BY ElContenidoEs DEF ElContenido, Init
<1>3. ASSUME NEW l \in Listas PROVE Cadenas[l] = << >>
  <2>1. Cadenas[l] \in Seq(Datos \cup {NULL}) /\ Len(Cadenas[l]) = 0
    BY <1>1, LoQueSeLee DEF SonDatos, Init
  <2> QED
    BY <2>1, EmptySeq
<1>4. Cadenas = [l \in Listas |-> Cadenas[l]]
  BY DEF Cadenas
<1>5. contenido = [l \in Listas |-> << >>]
  BY <1>2, <1>3, <1>4
<1> QED
  BY <1>5 DEF Secuencias!Init, Init

LEMMA CadaPasoImplementa == IInv /\ [Next]_vars => [Secuencias!Next]_<<contenido, ret, vivo>>
<1> SUFFICES ASSUME IInv, [Next]_vars PROVE [Secuencias!Next]_<<contenido, ret, vivo>>
  OBVIOUS
<1>1. PICK W : /\ Heap(nodos, head, elements_count, W)
               /\ EnBucle(pc, origen, destino, element, elements_count, W)
  BY DEF IInv
<1>2. Tipos
  BY DEF IInv
<1>3. CASE vivo /\ pc = "libre" /\ \E l \in Listas : Llamada(l)
  BY <1>1, <1>2, <1>3, LlamadaImplementa
<1>4. CASE PasoDelBucle
  BY <1>1, <1>2, <1>4, BucleImplementa
<1>5. CASE UNCHANGED vars
  BY <1>5 DEF vars, lista, bucle, contenido, Cadena, Faltan, Nodo, Dato, Siguiente
<1> QED
  BY <1>3, <1>4, <1>5 DEF Next

\* Whoever calls the linked lists sees sequences: no relink of a node, no loop over two lists and
\* no node freed and allocated again in between shows in the answers or in what a list holds.
THEOREM ListaImplementaSecuencia == Spec => ImplementaSecuencia
<1>1. IInv /\ [Next]_vars => [Secuencias!Next]_Secuencias!svars
  BY CadaPasoImplementa DEF Secuencias!svars
<1>2. Spec => []IInv
  BY AlEmpezar, CadaPaso, PTL DEF Spec
<1> QED
  BY <1>1, <1>2, AlEmpezarImplementa, PTL DEF Spec, ImplementaSecuencia, Secuencias!Spec

-----------------------------------------------------------------------------
(* list_sort: it sorts, for every length, every set of data and every      *)
(* comparator that stands for a total order, strict or not.                *)

\* The data at two positions are in order.
EnSuLugar(p, q) == <<datos[p], datos[q]>> \in MenorOIgual

\* Past the end of the pass everything is in its place for good.
FinalOrdenado ==
  \A p, q \in Posiciones : p < q /\ q >= unsorted_elements + 2 => EnSuLugar(p, q)

\* The datum under previous_element is the greatest of those passed, and since
\* the last exchange of this pass they are in order.
Pasada ==
  fase = "pasada" =>
    /\ Cantidad >= 2 /\ index + 1 <= Cantidad /\ index <= unsorted_elements
    /\ \A p \in Posiciones : p <= index => EnSuLugar(p, index + 1)
    /\ \A p, q \in Posiciones :
         p < q /\ q <= index + 1 /\ (sorted \/ q >= last_changed + 2) => EnSuLugar(p, q)
    /\ IF sorted THEN last_changed = unsorted_elements ELSE last_changed < index

\* Nothing has been compared before the first pass.
AntesDePasar ==
  fase = "llamada" =>
    index = 0 /\ unsorted_elements = Cantidad /\ last_changed = Cantidad /\ sorted

OrdenarInv == OrdenarTypeOK /\ AntesDePasar /\ FinalOrdenado /\ Pasada /\ Ordenada

-----------------------------------------------------------------------------

\* The facts about the comparator: what it calls in order is in order, what it
\* does not is in the other order, and order is transitive and reflexive.
LEMMA OrdenDeDatos ==
  ASSUME NEW a \in Valores, NEW b \in Valores, NEW c \in Valores
  PROVE  /\ <<a, b>> \in Comparador => <<a, b>> \in MenorOIgual
         /\ <<a, b>> \notin Comparador => <<b, a>> \in MenorOIgual
         /\ <<a, b>> \in MenorOIgual /\ <<b, c>> \in MenorOIgual => <<a, c>> \in MenorOIgual
         /\ <<a, a>> \in MenorOIgual
BY OrdenarConstantesOK

\* What an exchange does to the data and to their origin.
LEMMA Intercambio ==
  ASSUME NEW S, NEW f \in [Posiciones -> S], index \in 0 .. Cantidad, index + 2 <= Cantidad
  PROVE  /\ Intercambiar(f) \in [Posiciones -> S]
         /\ Intercambiar(f)[index + 1] = f[index + 2]
         /\ Intercambiar(f)[index + 2] = f[index + 1]
         /\ \A p \in Posiciones \ {index + 1, index + 2} : Intercambiar(f)[p] = f[p]
BY OrdenarConstantesOK DEF Intercambiar, Posiciones

LEMMA OrdenarInicial == OrdenarInit => OrdenarInv
BY OrdenarConstantesOK
   DEF OrdenarInit, OrdenarInv, OrdenarTypeOK, AntesDePasar, FinalOrdenado, Pasada, Ordenada,
       Posiciones

\* The variables keep their types in every step.
LEMMA OrdenarTipado == OrdenarInv /\ [OrdenarNext]_ordenarVars => OrdenarTypeOK'
<1> SUFFICES ASSUME OrdenarInv, [OrdenarNext]_ordenarVars PROVE OrdenarTypeOK'
  OBVIOUS
<1>1. CASE Entrar
  BY <1>1 DEF OrdenarInv, OrdenarTypeOK, Entrar
<1>2. CASE Comparar
  <2>1. index + 1 \in 0 .. Cantidad /\ index \in 0 .. Cantidad /\ index + 2 <= Cantidad
    BY <1>2, OrdenarConstantesOK DEF OrdenarInv, OrdenarTypeOK, Comparar, EnPasada
  <2>2. datos' \in [Posiciones -> Valores] /\ puesto' \in [Posiciones -> Posiciones]
    BY <1>2, <2>1, Intercambio DEF OrdenarInv, OrdenarTypeOK, Comparar, Cambiar
  <2> QED
    BY <1>2, <2>1, <2>2 DEF OrdenarInv, OrdenarTypeOK, Comparar, Cambiar
<1>3. CASE FinDePasada
  <2>1. 0 \in 0 .. Cantidad
    BY OrdenarConstantesOK
  <2>2. CASE sorted
    BY <1>3, <2>2 DEF OrdenarInv, OrdenarTypeOK, FinDePasada, Limite, OtraPasada
  <2>3. CASE ~sorted
    BY <1>3, <2>1, <2>3 DEF OrdenarInv, OrdenarTypeOK, FinDePasada, Limite, OtraPasada
  <2> QED
    BY <2>2, <2>3
<1>4. CASE UNCHANGED ordenarVars
  BY <1>4 DEF OrdenarInv, OrdenarTypeOK, ordenarVars
<1> QED
  BY <1>1, <1>2, <1>3, <1>4 DEF OrdenarNext

\* A comparison that finds the data in order, which then need no exchange.
LEMMA CompararEnOrden ==
  ASSUME OrdenarInv, Comparar, EnOrden
  PROVE  FinalOrdenado' /\ Pasada' /\ Ordenada'
<1>1. /\ fase = "pasada" /\ fase' = "pasada" /\ index' = index + 1
      /\ index < unsorted_elements /\ index + 2 <= Cantidad
      /\ UNCHANGED <<datos, last_changed, sorted, unsorted_elements>>
  BY DEF Comparar, EnPasada
<1>2. /\ index \in 0 .. Cantidad /\ last_changed \in 0 .. Cantidad
      /\ unsorted_elements \in 0 .. Cantidad
      /\ Cantidad \in Nat /\ index + 1 \in Posiciones /\ index + 2 \in Posiciones
      /\ datos \in [Posiciones -> Valores]
  BY <1>1, OrdenarConstantesOK DEF OrdenarInv, OrdenarTypeOK, Posiciones
<1>3. FinalOrdenado'
  BY <1>1 DEF OrdenarInv, FinalOrdenado, EnSuLugar, Posiciones
<1>4. EnSuLugar(index + 1, index + 2)
  <2>1. datos[index + 1] \in Valores /\ datos[index + 2] \in Valores
    BY <1>2
  <2>2. <<datos[index + 1], datos[index + 2]>> \in Comparador
    BY DEF EnOrden
  <2> QED
    BY <2>1, <2>2, OrdenDeDatos, Zenon DEF EnSuLugar
<1>5. ASSUME NEW p \in Posiciones, p <= index + 1
      PROVE  EnSuLugar(p, index + 2)
  <2>1. EnSuLugar(p, index + 1)
    <3>1. CASE p = index + 1
      BY <3>1, <1>2, OrdenDeDatos DEF EnSuLugar
    <3>2. CASE p <= index
      BY <3>2, <1>1 DEF OrdenarInv, Pasada
    <3> QED
      BY <1>5, <1>2, <3>1, <3>2 DEF Posiciones
  <2> QED
    BY <2>1, <1>2, <1>4, OrdenDeDatos DEF EnSuLugar
<1>6. Pasada'
  <2>1. (\A p \in Posiciones : p <= index => EnSuLugar(p, index + 1))'
    BY <1>1, <1>2, <1>5 DEF EnSuLugar, Posiciones
  <2>2. ASSUME NEW p \in Posiciones, NEW q \in Posiciones,
               p < q, q <= index' + 1, sorted' \/ q >= last_changed' + 2
        PROVE  EnSuLugar(p, q)'
    <3>1. CASE q <= index + 1
      BY <3>1, <2>2, <1>1 DEF OrdenarInv, Pasada, EnSuLugar
    <3>2. CASE q = index + 2
      BY <3>2, <2>2, <1>1, <1>2, <1>5 DEF EnSuLugar, Posiciones
    <3> QED
      BY <2>2, <1>1, <1>2, <3>1, <3>2 DEF Posiciones
  <2>3. IF sorted' THEN last_changed' = unsorted_elements' ELSE last_changed' < index'
    BY <1>1, <1>2 DEF OrdenarInv, Pasada
  <2> QED
    BY <2>1, <2>2, <2>3, <1>1, <1>2 DEF Pasada, Posiciones
<1>7. Ordenada'
  BY <1>1 DEF Ordenada
<1> QED
  BY <1>3, <1>6, <1>7

\* A comparison that exchanges the data.
LEMMA CompararCambiando ==
  ASSUME OrdenarInv, Comparar, ~EnOrden
  PROVE  FinalOrdenado' /\ Pasada' /\ Ordenada'
<1>1. /\ fase = "pasada" /\ fase' = "pasada" /\ index' = index + 1
      /\ index < unsorted_elements /\ index + 2 <= Cantidad
      /\ datos' = Intercambiar(datos)
      /\ last_changed' = index /\ sorted' = FALSE
      /\ UNCHANGED unsorted_elements
  BY DEF Comparar, EnPasada, Cambiar
<1>2. /\ index \in 0 .. Cantidad /\ unsorted_elements \in 0 .. Cantidad
      /\ Cantidad \in Nat /\ index + 1 \in Posiciones /\ index + 2 \in Posiciones
      /\ datos \in [Posiciones -> Valores]
  BY <1>1, OrdenarConstantesOK DEF OrdenarInv, OrdenarTypeOK, Posiciones
<1>3. /\ datos'[index + 1] = datos[index + 2]
      /\ datos'[index + 2] = datos[index + 1]
      /\ \A p \in Posiciones \ {index + 1, index + 2} : datos'[p] = datos[p]
  BY <1>1, <1>2, Intercambio
<1>4. FinalOrdenado'
  <2> SUFFICES ASSUME NEW p \in Posiciones, NEW q \in Posiciones,
                      p < q, q >= unsorted_elements + 2
               PROVE  EnSuLugar(p, q)'
    BY <1>1 DEF FinalOrdenado
  <2>1. datos'[q] = datos[q]
    BY <1>1, <1>2, <1>3 DEF Posiciones
  <2>2. \A r \in Posiciones : r < q => EnSuLugar(r, q)
    BY DEF OrdenarInv, FinalOrdenado
  <2>3. index + 1 < q /\ index + 2 < q
    BY <1>1, <1>2 DEF Posiciones
  <2>4. EnSuLugar(p, q) /\ EnSuLugar(index + 1, q) /\ EnSuLugar(index + 2, q)
    BY <2>2, <2>3, <1>2
  <2> QED
    BY <1>3, <2>1, <2>4 DEF EnSuLugar
<1>5. EnSuLugar(index + 2, index + 1)
  <2>1. datos[index + 1] \in Valores /\ datos[index + 2] \in Valores
    BY <1>2
  <2>2. <<datos[index + 1], datos[index + 2]>> \notin Comparador
    BY Zenon DEF EnOrden
  <2>3. <<datos[index + 2], datos[index + 1]>> \in MenorOIgual
    <3>1. \A a, b \in Valores : <<a, b>> \notin Comparador => <<b, a>> \in MenorOIgual
      BY OrdenarConstantesOK
    <3> QED
      BY <2>1, <2>2, <3>1, Zenon
  <2> QED
    BY <2>3 DEF EnSuLugar
<1>6. ASSUME NEW p \in Posiciones, p <= index + 1
      PROVE  <<datos'[p], datos'[index + 2]>> \in MenorOIgual
  <2>1. CASE p = index + 1
    BY <2>1, <1>3, <1>5 DEF EnSuLugar
  <2>2. CASE p <= index
    <3>1. EnSuLugar(p, index + 1)
      BY <2>2, <1>1 DEF OrdenarInv, Pasada
    <3> QED
      BY <3>1, <2>2, <1>2, <1>3 DEF EnSuLugar, Posiciones
  <2> QED
    BY <1>6, <2>1, <2>2, <1>2 DEF Posiciones
<1>7. Pasada'
  <2>1. (\A p \in Posiciones : p <= index => EnSuLugar(p, index + 1))'
    BY <1>1, <1>2, <1>6 DEF EnSuLugar, Posiciones
  <2>2. ASSUME NEW p \in Posiciones, NEW q \in Posiciones,
               p < q, q <= index' + 1, sorted' \/ q >= last_changed' + 2
        PROVE  EnSuLugar(p, q)'
    <3>1. q = index + 2 /\ p <= index + 1
      BY <2>2, <1>1, <1>2 DEF Posiciones
    <3> QED
      BY <3>1, <1>6, <1>1 DEF EnSuLugar
  <2> QED
    BY <2>1, <2>2, <1>1, <1>2 DEF Pasada, Posiciones
<1>8. Ordenada'
  BY <1>1 DEF Ordenada
<1> QED
  BY <1>4, <1>7, <1>8

\* The end of a pass: what is past the new end is in its place, and after a
\* pass without exchanges everything is.
LEMMA FinDePasadaInv ==
  ASSUME OrdenarInv, FinDePasada
  PROVE  FinalOrdenado' /\ Pasada' /\ Ordenada'
<1>1. /\ fase = "pasada" /\ UNCHANGED datos
      /\ index >= unsorted_elements \/ index + 2 > Cantidad
      /\ unsorted_elements' = last_changed
      /\ index \in 0 .. Cantidad /\ last_changed \in 0 .. Cantidad
      /\ unsorted_elements \in 0 .. Cantidad
      /\ Cantidad \in Nat /\ datos \in [Posiciones -> Valores]
  BY OrdenarConstantesOK DEF FinDePasada, EnPasada, Limite, OrdenarInv, OrdenarTypeOK
<1>2. index + 1 = Cantidad \/ index = unsorted_elements
  BY <1>1 DEF OrdenarInv, Pasada
<1>3. ASSUME NEW p \in Posiciones, NEW q \in Posiciones,
             p < q, sorted \/ q >= last_changed + 2
      PROVE  EnSuLugar(p, q)
  <2>1. CASE q <= index + 1
    BY <2>1, <1>3, <1>1 DEF OrdenarInv, Pasada
  <2>2. CASE q >= unsorted_elements + 2
    BY <2>2, <1>3 DEF OrdenarInv, FinalOrdenado
  <2> QED
    BY <2>1, <2>2, <1>1, <1>2 DEF Posiciones
<1>4. FinalOrdenado'
  BY <1>1, <1>3 DEF FinalOrdenado, EnSuLugar, Posiciones
<1>5. CASE sorted
  <2>1. fase' = "listo"
    BY <1>5 DEF FinDePasada, OtraPasada
  <2> QED
    BY <2>1, <1>1, <1>3, <1>4, <1>5 DEF Pasada, Ordenada, EnSuLugar, Posiciones
<1>6. CASE ~sorted
  <2>1. fase' = "pasada" /\ sorted' = TRUE /\ index' = 0 /\ last_changed' = last_changed
    BY <1>6, <1>1 DEF FinDePasada, OtraPasada, Limite
  <2>2. Cantidad >= 2
    BY <1>1 DEF OrdenarInv, Pasada
  <2> QED
    BY <2>1, <2>2, <1>1, <1>4 DEF Pasada, Ordenada, EnSuLugar, Posiciones
<1> QED
  BY <1>5, <1>6, <1>1 DEF OrdenarInv, OrdenarTypeOK

LEMMA OrdenarPaso == OrdenarInv /\ [OrdenarNext]_ordenarVars => OrdenarInv'
<1> SUFFICES ASSUME OrdenarInv, [OrdenarNext]_ordenarVars PROVE OrdenarInv'
  OBVIOUS
<1>1. OrdenarTypeOK'
  BY OrdenarTipado
<1>2. CASE Entrar
  <2>1. /\ Cantidad \in Nat /\ index' = 0 /\ sorted'
        /\ unsorted_elements' = Cantidad /\ last_changed' = Cantidad
        /\ UNCHANGED datos
        /\ fase' = IF Cantidad < 2 THEN "listo" ELSE "pasada"
    BY <1>2, OrdenarConstantesOK DEF Entrar, OrdenarInv, AntesDePasar
  <2>2. FinalOrdenado'
    BY <2>1 DEF FinalOrdenado, Posiciones
  <2>3. Pasada'
    BY <2>1 DEF Pasada, Posiciones
  <2>4. Ordenada'
    BY <2>1 DEF Ordenada, Posiciones
  <2> QED
    BY <1>1, <2>1, <2>2, <2>3, <2>4 DEF OrdenarInv, AntesDePasar
<1>3. CASE Comparar
  <2>1. AntesDePasar'
    BY <1>3 DEF Comparar, AntesDePasar
  <2> QED
    BY <1>1, <1>3, <2>1, CompararEnOrden, CompararCambiando DEF OrdenarInv
<1>4. CASE FinDePasada
  <2>1. AntesDePasar'
    BY <1>4 DEF FinDePasada, AntesDePasar
  <2> QED
    BY <1>1, <1>4, <2>1, FinDePasadaInv DEF OrdenarInv
<1>5. CASE UNCHANGED ordenarVars
  BY <1>1, <1>5 DEF OrdenarInv, AntesDePasar, FinalOrdenado, Pasada, Ordenada, EnSuLugar,
                    ordenarVars
<1> QED
  BY <1>2, <1>3, <1>4, <1>5 DEF OrdenarNext

\* The variables keep their types (list_sort).
THEOREM OrdenarTipos == OrdenarSpec => []OrdenarTypeOK
<1>1. OrdenarInv => OrdenarTypeOK
  BY DEF OrdenarInv
<1> QED
  BY OrdenarInicial, OrdenarPaso, <1>1, PTL DEF OrdenarSpec

\* list_sort returns the list in order.
THEOREM SiempreOrdenada == OrdenarSpec => []Ordenada
<1>1. OrdenarInv => Ordenada
  BY DEF OrdenarInv
<1> QED
  BY OrdenarInicial, OrdenarPaso, <1>1, PTL DEF OrdenarSpec

-----------------------------------------------------------------------------
(* What becomes of the data needs no more than the types. *)

LEMMA MismosDatosPaso ==
  OrdenarTypeOK /\ MismosDatos /\ [OrdenarNext]_ordenarVars => MismosDatos'
<1> SUFFICES ASSUME OrdenarTypeOK, MismosDatos, [OrdenarNext]_ordenarVars PROVE MismosDatos'
  OBVIOUS
<1>1. CASE Comparar /\ ~EnOrden
  <2>1. /\ index \in 0 .. Cantidad /\ index + 2 <= Cantidad /\ Cantidad \in Nat
        /\ index + 1 \in Posiciones /\ index + 2 \in Posiciones
        /\ datos' = Intercambiar(datos) /\ puesto' = Intercambiar(puesto) /\ UNCHANGED original
    BY <1>1, OrdenarConstantesOK DEF Comparar, EnPasada, Cambiar, OrdenarTypeOK, Posiciones
  <2>2. /\ datos'[index + 1] = datos[index + 2] /\ datos'[index + 2] = datos[index + 1]
        /\ \A p \in Posiciones \ {index + 1, index + 2} : datos'[p] = datos[p]
    BY <2>1, Intercambio DEF OrdenarTypeOK
  <2>3. /\ puesto'[index + 1] = puesto[index + 2] /\ puesto'[index + 2] = puesto[index + 1]
        /\ \A p \in Posiciones \ {index + 1, index + 2} : puesto'[p] = puesto[p]
    BY <2>1, Intercambio DEF OrdenarTypeOK
  <2>4. ASSUME NEW p \in Posiciones PROVE datos'[p] = original'[puesto'[p]]
    BY <2>1, <2>2, <2>3 DEF MismosDatos
  <2>5. ASSUME NEW p \in Posiciones, NEW q \in Posiciones, puesto'[p] = puesto'[q]
        PROVE  p = q
    BY <2>1, <2>3, <2>5 DEF MismosDatos, Posiciones
  <2> QED
    BY <2>4, <2>5 DEF MismosDatos
<1>2. UNCHANGED <<datos, original, puesto>> => MismosDatos'
  BY DEF MismosDatos
<1> QED
  BY <1>1, <1>2 DEF OrdenarNext, Entrar, Comparar, FinDePasada, ordenarVars

LEMMA IgualesEnOrdenPaso ==
  OrdenarTypeOK /\ IgualesEnOrden /\ [OrdenarNext]_ordenarVars => IgualesEnOrden'
<1> SUFFICES ASSUME OrdenarTypeOK, IgualesEnOrden, [OrdenarNext]_ordenarVars,
                    MenorOIgual \subseteq Comparador,
                    NEW p \in Posiciones, NEW q \in Posiciones, p < q,
                    <<datos'[q], datos'[p]>> \in MenorOIgual,
                    <<datos'[p], datos'[q]>> \in MenorOIgual
             PROVE  puesto'[p] < puesto'[q]
  BY DEF IgualesEnOrden
<1>1. CASE Comparar /\ ~EnOrden
  <2>1. /\ index \in 0 .. Cantidad /\ index + 2 <= Cantidad /\ Cantidad \in Nat
        /\ index + 1 \in Posiciones /\ index + 2 \in Posiciones
        /\ datos' = Intercambiar(datos) /\ puesto' = Intercambiar(puesto)
    BY <1>1, OrdenarConstantesOK DEF Comparar, EnPasada, Cambiar, OrdenarTypeOK, Posiciones
  <2>2. /\ datos'[index + 1] = datos[index + 2] /\ datos'[index + 2] = datos[index + 1]
        /\ \A r \in Posiciones \ {index + 1, index + 2} : datos'[r] = datos[r]
    BY <2>1, Intercambio DEF OrdenarTypeOK
  <2>3. /\ puesto'[index + 1] = puesto[index + 2] /\ puesto'[index + 2] = puesto[index + 1]
        /\ \A r \in Posiciones \ {index + 1, index + 2} : puesto'[r] = puesto[r]
    BY <2>1, Intercambio DEF OrdenarTypeOK
  <2>4. ~(p = index + 1 /\ q = index + 2)
    BY <1>1, <2>2 DEF EnOrden
  <2> DEFINE antes(r) == IF r = index + 1 THEN index + 2
                         ELSE IF r = index + 2 THEN index + 1 ELSE r
  <2>5. /\ antes(p) \in Posiciones /\ antes(q) \in Posiciones /\ antes(p) < antes(q)
    BY <2>1, <2>4 DEF Posiciones
  <2>6. /\ datos'[p] = datos[antes(p)] /\ datos'[q] = datos[antes(q)]
        /\ puesto'[p] = puesto[antes(p)] /\ puesto'[q] = puesto[antes(q)]
    BY <2>2, <2>3
  <2> HIDE DEF antes
  <2> QED
    BY <2>5, <2>6 DEF IgualesEnOrden
<1>2. UNCHANGED <<datos, puesto>> => puesto'[p] < puesto'[q]
  BY DEF IgualesEnOrden
<1> QED
  BY <1>1, <1>2 DEF OrdenarNext, Entrar, Comparar, FinDePasada, ordenarVars

\* list_sort keeps the order of equal data and permutes the list.
THEOREM SiempreEstable == OrdenarSpec => []Estable
<1>1. OrdenarInit => MismosDatos /\ IgualesEnOrden
  BY DEF OrdenarInit, MismosDatos, IgualesEnOrden, Posiciones
<1>2. Estable <=> MismosDatos /\ IgualesEnOrden
  BY DEF Estable
<1> QED
  BY <1>1, <1>2, OrdenarTipos, MismosDatosPaso, IgualesEnOrdenPaso, PTL DEF OrdenarSpec
=============================================================================

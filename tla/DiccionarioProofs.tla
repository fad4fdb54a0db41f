-------------------------- MODULE DiccionarioProofs -------------------------
(* The inductive invariant of Diccionario, the proof of its safety         *)
(* properties and that it implements Mapa, for every hash function.        *)
EXTENDS Diccionario, FiniteSetTheorems, SequenceTheorems, TLAPS

ElementosDe(t) == {En(t, l) : l \in Lugares(t)}

\* Each element is in the chain of its hash code, and no chain has two of one code.
Puesta(t, n) == \A j \in DOMAIN t : \A p \in DOMAIN t[j] : t[j][p].hashcode % n = j

SinRepetir(t) ==
  \A j \in DOMAIN t : \A p, q \in DOMAIN t[j] : t[j][p].hashcode = t[j][q].hashcode => p = q

Ajenas(t, u) == \A e \in ElementosDe(t), f \in ElementosDe(u) : e.hashcode # f.hashcode

-----------------------------------------------------------------------------
(* The parts of the invariant                                              *)

BienPuestas ==
  /\ Puesta(elements, table_max_size) /\ Puesta(new_table, 2 * table_max_size)
  /\ SinRepetir(elements) /\ SinRepetir(new_table)
  /\ Ajenas(elements, new_table)

EnUso ==
  table_current_size = Cardinality(Usadas(IF pc = "resize" THEN new_table ELSE elements))

\* elements_amount counts the elements and, besides, those with a NULL that were removed.
Cantidad == elements_amount + (IF pc = "resize" THEN 1 ELSE 0)

Cuantos ==
  /\ IsFiniteSet(Lugares(elements)) /\ IsFiniteSet(Lugares(new_table))
  /\ Cantidad = Cardinality(Lugares(elements)) + Cardinality(Lugares(new_table)) + nulos

\* The element that started the resize is alone in its chain j, hence one of the two chains
\* that j becomes stays empty.
Solitaria(j) ==
  /\ new_table[j] = << >> \/ new_table[j + table_max_size] = << >>
  /\ elements[j] # << >> =>
       /\ Len(elements[j]) = 1
       /\ new_table[j] = << >> /\ new_table[j + table_max_size] = << >>

UnoLibre ==
  IF pc = "resize"
    THEN \E j \in 0 .. table_max_size - 1 : Solitaria(j)
    ELSE table_current_size < table_max_size

Recorrido ==
  /\ pc = "libre" => table_index = 0
  /\ \A j \in 0 .. table_index - 1 : elements[j] = << >>

IInv == TypeOK /\ BienPuestas /\ EnUso /\ Cuantos /\ UnoLibre /\ Recorrido

-----------------------------------------------------------------------------
(* Places and elements of a table                                          *)

LEMMA LugaresDe ==
  ASSUME NEW t, NEW l
  PROVE  l \in Lugares(t) <=> \E j \in DOMAIN t : \E p \in DOMAIN t[j] : l = <<j, p>>
BY DEF Lugares

LEMMA Dentro ==
  ASSUME NEW t, NEW e
  PROVE  e \in ElementosDe(t) <=> \E j \in DOMAIN t : \E p \in DOMAIN t[j] : e = t[j][p]
<1>1. ASSUME NEW j, NEW p
      PROVE  En(t, <<j, p>>) = t[j][p]
  BY DEF En
<1>2. ASSUME NEW j \in DOMAIN t, NEW p \in DOMAIN t[j], e = t[j][p]
      PROVE  e \in ElementosDe(t)
  <2>1. <<j, p>> \in Lugares(t)
    BY LugaresDe
  <2> QED
    BY <1>1, <1>2, <2>1 DEF ElementosDe
<1>3. ASSUME e \in ElementosDe(t)
      PROVE  \E j \in DOMAIN t : \E p \in DOMAIN t[j] : e = t[j][p]
  <2>1. PICK l \in Lugares(t) : e = En(t, l)
    BY <1>3 DEF ElementosDe
  <2>2. PICK j \in DOMAIN t : \E p \in DOMAIN t[j] : l = <<j, p>>
    BY LugaresDe
  <2> QED
    BY <1>1, <2>1, <2>2
<1> QED
  BY <1>2, <1>3

\* A table with no element.
LEMMA TablaSinElementos ==
  ASSUME NEW t, \A j \in DOMAIN t : t[j] = << >>
  PROVE  /\ Lugares(t) = {} /\ ElementosDe(t) = {} /\ Usadas(t) = {}
         /\ IsFiniteSet(Lugares(t)) /\ Cardinality(Lugares(t)) = 0
         /\ Cardinality(Usadas(t)) = 0
         /\ SinRepetir(t) /\ \A n : Puesta(t, n)
<1>1. \A j \in DOMAIN t : DOMAIN t[j] = {}
  OBVIOUS
<1>2. Lugares(t) = {} /\ ElementosDe(t) = {} /\ Usadas(t) = {}
  BY <1>1, LugaresDe, Dentro DEF Usadas
<1> QED
  BY <1>1, <1>2, FS_EmptySet DEF SinRepetir, Puesta

LEMMA VaciaSinElementos ==
  ASSUME NEW n \in Nat
  PROVE  EsTabla(TablaVacia(n), n) /\ \A j \in DOMAIN TablaVacia(n) : TablaVacia(n)[j] = << >>
BY EmptySeq DEF EsTabla, TablaVacia

\* What BienUbicados and CuentasExactas say place by place.
LEMMA UbicadosPorCadena ==
  ASSUME TypeOK, BienPuestas
  PROVE  BienUbicados
<1>1. ASSUME NEW t, NEW n, Puesta(t, n)
      PROVE  \A l \in Lugares(t) : En(t, l).hashcode % n = l[1]
  BY <1>1, LugaresDe DEF Puesta, En
<1>2. ASSUME NEW t, NEW n, Puesta(t, n), SinRepetir(t)
      PROVE  \A l, m \in Lugares(t) : En(t, l).hashcode = En(t, m).hashcode => l = m
  <2> SUFFICES ASSUME NEW l \in Lugares(t), NEW m \in Lugares(t),
                      En(t, l).hashcode = En(t, m).hashcode
               PROVE  l = m
    OBVIOUS
  <2>1. PICK j \in DOMAIN t : \E p \in DOMAIN t[j] : l = <<j, p>>
    BY LugaresDe
  <2>2. PICK p \in DOMAIN t[j] : l = <<j, p>>
    BY <2>1
  <2>3. PICK i \in DOMAIN t : \E q \in DOMAIN t[i] : m = <<i, q>>
    BY LugaresDe
  <2>4. PICK q \in DOMAIN t[i] : m = <<i, q>>
    BY <2>3
  <2>5. t[j][p].hashcode = t[i][q].hashcode
    BY <2>2, <2>4 DEF En
  <2>6. j = i
    BY <1>2, <2>5 DEF Puesta
  <2> QED
    BY <1>2, <2>2, <2>4, <2>5, <2>6 DEF SinRepetir
<1>3. ASSUME NEW l \in Lugares(elements), NEW m \in Lugares(new_table)
      PROVE  En(elements, l).hashcode # En(new_table, m).hashcode
  BY DEF BienPuestas, Ajenas, ElementosDe
<1> QED
  BY <1>1, <1>2, <1>3 DEF BienPuestas, BienUbicados

LEMMA UsadasFinito ==
  ASSUME NEW t, NEW n \in Nat, EsTabla(t, n)
  PROVE  /\ IsFiniteSet(Usadas(t)) /\ Usadas(t) \subseteq 0 .. n - 1
         /\ Cardinality(Usadas(t)) \in Nat /\ Cardinality(Usadas(t)) <= n
         /\ \A j \in 0 .. n - 1 : j \notin Usadas(t) => Cardinality(Usadas(t)) < n
<1>1. IsFiniteSet(0 .. n - 1) /\ Cardinality(0 .. n - 1) = n
  <2>1. 0 \in Int /\ n - 1 \in Int
    OBVIOUS
  <2>2. Cardinality(0 .. n - 1) = IF 0 > n - 1 THEN 0 ELSE n - 1 - 0 + 1
    BY <2>1, FS_Interval
  <2> QED
    BY <2>1, <2>2, FS_Interval
<1>2. Usadas(t) \subseteq 0 .. n - 1
  BY DEF EsTabla, Usadas
<1>3. /\ IsFiniteSet(Usadas(t)) /\ Cardinality(Usadas(t)) <= n
      /\ Cardinality(Usadas(t)) \in Nat
  BY <1>1, <1>2, FS_Subset, FS_CardinalityType
<1>4. ASSUME NEW j \in 0 .. n - 1, j \notin Usadas(t)
      PROVE  Cardinality(Usadas(t)) < n
  <2>1. Usadas(t) # 0 .. n - 1
    BY <1>4
  <2>2. Cardinality(Usadas(t)) # n
    BY <1>1, <1>2, <2>1, FS_Subset
  <2> QED
    BY <1>3, <2>2
<1> QED
  BY <1>2, <1>3, <1>4

-----------------------------------------------------------------------------
(* One element more, one less, one with another datum                      *)

LEMMA Agregado ==
  ASSUME NEW t, NEW n \in Nat, EsTabla(t, n), NEW j \in 0 .. n - 1, NEW e \in Elementos,
         NEW u, DOMAIN u = DOMAIN t, u[j] = Append(t[j], e),
         \A i \in DOMAIN t : i # j => u[i] = t[i]
  PROVE  /\ EsTabla(u, n)
         /\ ElementosDe(u) = ElementosDe(t) \union {e}
         /\ IsFiniteSet(Lugares(t)) =>
              /\ IsFiniteSet(Lugares(u))
              /\ Cardinality(Lugares(u)) = Cardinality(Lugares(t)) + 1
         /\ Cardinality(Usadas(u)) =
              Cardinality(Usadas(t)) + (IF t[j] = << >> THEN 1 ELSE 0)
         /\ \A m : Puesta(t, m) /\ e.hashcode % m = j => Puesta(u, m)
         /\ SinRepetir(t) /\ (\A x \in ElementosDe(t) : x.hashcode # e.hashcode) => SinRepetir(u)
<1>1. /\ DOMAIN t = 0 .. n - 1 /\ DOMAIN u = 0 .. n - 1
      /\ t[j] \in Seq(Elementos) /\ u[j] = Append(t[j], e)
      /\ \A i \in 0 .. n - 1 : i # j => u[i] = t[i]
  BY DEF EsTabla
<1> DEFINE l == Len(t[j])
<1>2. /\ l \in Nat /\ DOMAIN t[j] = 1 .. l /\ DOMAIN u[j] = 1 .. l + 1 /\ u[j] # << >>
      /\ u[j][l + 1] = e /\ \A p \in 1 .. l : u[j][p] = t[j][p]
      /\ u[j] \in Seq(Elementos)
  BY <1>1, AppendProperties
<1>3. EsTabla(u, n)
  BY <1>1, <1>2 DEF EsTabla
<1> HIDE DEF l
<1>4. /\ DOMAIN u[j] = DOMAIN t[j] \union {l + 1} /\ l + 1 \notin DOMAIN t[j]
      /\ u[j][l + 1] = e /\ \A p \in DOMAIN t[j] : u[j][p] = t[j][p]
  BY <1>2
<1>5. Lugares(u) = Lugares(t) \union {<<j, l + 1>>} /\ <<j, l + 1>> \notin Lugares(t)
  <2>1. <<j, l + 1>> \notin Lugares(t)
    BY <1>1, <1>4, LugaresDe
  <2>2. ASSUME NEW x
        PROVE  x \in Lugares(u) <=> x \in Lugares(t) \/ x = <<j, l + 1>>
    <3>1. ASSUME x \in Lugares(u) PROVE x \in Lugares(t) \/ x = <<j, l + 1>>
      <4>1. PICK i \in DOMAIN u : \E p \in DOMAIN u[i] : x = <<i, p>>
        BY <3>1, LugaresDe
      <4>2. PICK p \in DOMAIN u[i] : x = <<i, p>>
        BY <4>1
      <4>3. CASE i = j /\ p = l + 1
        BY <4>2, <4>3
      <4>4. CASE ~(i = j /\ p = l + 1)
        <5>1. i \in DOMAIN t /\ p \in DOMAIN t[i]
          BY <1>1, <1>4, <4>2, <4>4
        <5> QED
          BY <4>2, <5>1, LugaresDe
      <4> QED
        BY <4>3, <4>4
    <3>2. ASSUME x \in Lugares(t) PROVE x \in Lugares(u)
      <4>1. PICK i \in DOMAIN t : \E p \in DOMAIN t[i] : x = <<i, p>>
        BY <3>2, LugaresDe
      <4>2. PICK p \in DOMAIN t[i] : x = <<i, p>>
        BY <4>1
      <4>3. i \in DOMAIN u /\ p \in DOMAIN u[i]
        BY <1>1, <1>4, <4>2
      <4> QED
        BY <4>2, <4>3, LugaresDe
    <3>3. <<j, l + 1>> \in Lugares(u)
      <4>1. j \in DOMAIN u /\ l + 1 \in DOMAIN u[j]
        BY <1>1, <1>4
      <4> QED
        BY <4>1, LugaresDe
    <3> QED
      BY <3>1, <3>2, <3>3
  <2> QED
    BY <2>1, <2>2
<1>6. ElementosDe(u) = ElementosDe(t) \union {e}
  <2>1. ASSUME NEW x
        PROVE  x \in ElementosDe(u) <=> x \in ElementosDe(t) \/ x = e
    <3>1. ASSUME x \in ElementosDe(u) PROVE x \in ElementosDe(t) \/ x = e
      <4>1. PICK i \in DOMAIN u : \E p \in DOMAIN u[i] : x = u[i][p]
        BY <3>1, Dentro
      <4>2. PICK p \in DOMAIN u[i] : x = u[i][p]
        BY <4>1
      <4>3. CASE i = j /\ p = l + 1
        BY <1>4, <4>2, <4>3
      <4>4. CASE ~(i = j /\ p = l + 1)
        <5>1. i \in DOMAIN t /\ p \in DOMAIN t[i] /\ x = t[i][p]
          BY <1>1, <1>4, <4>2, <4>4
        <5> QED
          BY <5>1, Dentro
      <4> QED
        BY <4>3, <4>4
    <3>2. ASSUME x \in ElementosDe(t) PROVE x \in ElementosDe(u)
      <4>1. PICK i \in DOMAIN t : \E p \in DOMAIN t[i] : x = t[i][p]
        BY <3>2, Dentro
      <4>2. PICK p \in DOMAIN t[i] : x = t[i][p]
        BY <4>1
      <4>3. i \in DOMAIN u /\ p \in DOMAIN u[i] /\ x = u[i][p]
        BY <1>1, <1>4, <4>2
      <4> QED
        BY <4>3, Dentro
    <3>3. e \in ElementosDe(u)
      BY <1>1, <1>4, Dentro
    <3> QED
      BY <3>1, <3>2, <3>3
  <2> QED
    BY <2>1
<1>7. IsFiniteSet(Lugares(t)) =>
        /\ IsFiniteSet(Lugares(u))
        /\ Cardinality(Lugares(u)) = Cardinality(Lugares(t)) + 1
  BY <1>5, FS_AddElement
<1>8. Cardinality(Usadas(u)) = Cardinality(Usadas(t)) + (IF t[j] = << >> THEN 1 ELSE 0)
  <2>1. Usadas(u) = Usadas(t) \union {j}
    BY <1>1, <1>2 DEF Usadas
  <2>2. j \in Usadas(t) <=> t[j] # << >>
    BY <1>1 DEF Usadas
  <2>3. IsFiniteSet(Usadas(t)) /\ Cardinality(Usadas(t)) \in Nat
    BY UsadasFinito
  <2>4. CASE t[j] = << >>
    BY <2>1, <2>2, <2>3, <2>4, FS_AddElement
  <2>5. CASE t[j] # << >>
    <3>1. Usadas(u) = Usadas(t)
      BY <2>1, <2>2, <2>5
    <3> QED
      BY <2>3, <2>5, <3>1
  <2> QED
    BY <2>4, <2>5
<1>9. ASSUME NEW m, Puesta(t, m), e.hashcode % m = j
      PROVE  Puesta(u, m)
  BY <1>1, <1>4, <1>9 DEF Puesta
<1>10. ASSUME SinRepetir(t), \A x \in ElementosDe(t) : x.hashcode # e.hashcode
      PROVE  SinRepetir(u)
  <2> SUFFICES ASSUME NEW i \in DOMAIN u, NEW p \in DOMAIN u[i], NEW q \in DOMAIN u[i],
                      u[i][p].hashcode = u[i][q].hashcode
               PROVE  p = q
    BY DEF SinRepetir
  <2>1. CASE i # j
    BY <1>1, <1>10, <2>1 DEF SinRepetir
  <2>2. CASE i = j
    <3>1. \A r \in DOMAIN t[j] : t[j][r].hashcode # e.hashcode
      BY <1>1, <1>10, Dentro
    <3>2. CASE p = l + 1 \/ q = l + 1
      BY <1>4, <2>2, <3>1, <3>2
    <3>3. CASE p # l + 1 /\ q # l + 1
      BY <1>1, <1>4, <1>10, <2>2, <3>3 DEF SinRepetir
    <3> QED
      BY <3>2, <3>3
  <2> QED
    BY <2>1, <2>2
<1> QED
  BY <1>1, <1>3, <1>6, <1>7, <1>8, <1>9, <1>10

\* The chain r is s without its element p.
SinUno(s, p, r) ==
  /\ r \in Seq(Elementos) /\ Len(r) = Len(s) - 1
  /\ \A i \in 1 .. Len(s) - 1 : r[i] = IF i < p THEN s[i] ELSE s[i + 1]

LEMMA TailEsSinUno ==
  ASSUME NEW s \in Seq(Elementos), s # << >>
  PROVE  SinUno(s, 1, Tail(s)) /\ 1 \in DOMAIN s /\ Head(s) = s[1]
BY HeadTailProperties, EmptySeq DEF SinUno

LEMMA SinEsSinUno ==
  ASSUME NEW s \in Seq(Elementos), NEW p \in DOMAIN s
  PROVE  SinUno(s, p, Sin(s, p))
<1> DEFINE a == SubSeq(s, 1, p - 1)
           b == SubSeq(s, p + 1, Len(s))
<1>1. Len(s) \in Nat /\ p \in 1 .. Len(s)
  OBVIOUS
<1>2. /\ a \in Seq(Elementos) /\ Len(a) = p - 1
      /\ \A i \in 1 .. p - 1 : a[i] = s[i]
  <2>1. \A i \in 1 .. p - 1 : s[i] \in Elementos
    BY <1>1, ElementOfSeq
  <2>2. 1 \in Int /\ p - 1 \in Int /\ 1 <= p
    BY <1>1
  <2> QED
    BY <1>1, <2>1, <2>2, SubSeqProperties
<1>3. /\ b \in Seq(Elementos) /\ Len(b) = Len(s) - p
      /\ \A i \in 1 .. Len(s) - p : b[i] = s[p + i]
  BY <1>1, SubSeqProperties
<1> HIDE DEF a, b
<1>4. /\ a \o b \in Seq(Elementos) /\ Len(a \o b) = Len(a) + Len(b)
      /\ \A i \in 1 .. Len(a) + Len(b) : (a \o b)[i] = IF i <= Len(a) THEN a[i] ELSE b[i - Len(a)]
  BY <1>2, <1>3, ConcatProperties
<1>5. Len(a \o b) = Len(s) - 1
  BY <1>1, <1>2, <1>3, <1>4
<1>6. ASSUME NEW i \in 1 .. Len(s) - 1
      PROVE  (a \o b)[i] = IF i < p THEN s[i] ELSE s[i + 1]
  <2>1. i \in 1 .. Len(a) + Len(b)
    BY <1>1, <1>2, <1>3
  <2>2. (a \o b)[i] = IF i <= p - 1 THEN a[i] ELSE b[i - (p - 1)]
    BY <1>2, <1>4, <2>1
  <2>3. CASE i < p
    BY <1>1, <1>2, <2>2, <2>3
  <2>4. CASE ~(i < p)
    <3>1. i - (p - 1) \in 1 .. Len(s) - p /\ p + (i - (p - 1)) = i + 1 /\ ~(i <= p - 1)
      BY <1>1, <2>4
    <3> QED
      BY <1>3, <2>2, <2>4, <3>1
  <2> QED
    BY <2>3, <2>4
<1> QED
  BY <1>4, <1>5, <1>6 DEF SinUno, Sin, a, b

LEMMA Sacado ==
  ASSUME NEW t, NEW n \in Nat, EsTabla(t, n), NEW j \in 0 .. n - 1, NEW p \in DOMAIN t[j],
         NEW u, DOMAIN u = DOMAIN t, SinUno(t[j], p, u[j]),
         \A i \in DOMAIN t : i # j => u[i] = t[i]
  PROVE  /\ EsTabla(u, n)
         /\ ElementosDe(t) = ElementosDe(u) \union {t[j][p]}
         /\ IsFiniteSet(Lugares(t)) =>
              /\ IsFiniteSet(Lugares(u))
              /\ Cardinality(Lugares(u)) = Cardinality(Lugares(t)) - 1
         /\ Cardinality(Usadas(u)) =
              Cardinality(Usadas(t)) - (IF Len(t[j]) = 1 THEN 1 ELSE 0)
         /\ \A m : Puesta(t, m) => Puesta(u, m)
         /\ SinRepetir(t) => SinRepetir(u)
         /\ SinRepetir(t) /\ (\E m : Puesta(t, m)) =>
              \A x \in ElementosDe(u) : x.hashcode # t[j][p].hashcode
<1>1. /\ DOMAIN t = 0 .. n - 1 /\ DOMAIN u = 0 .. n - 1
      /\ t[j] \in Seq(Elementos)
  BY DEF EsTabla
<1> DEFINE l == Len(t[j])
           D == DOMAIN u[j]
           A(i) == IF i < p THEN i ELSE i + 1
           B(i) == IF i < p THEN i ELSE i - 1
<1>2. /\ l \in Nat \ {0} /\ DOMAIN t[j] = 1 .. l /\ p \in 1 .. l
      /\ u[j] \in Seq(Elementos) /\ Len(u[j]) = l - 1 /\ D = 1 .. l - 1
      /\ \A i \in 1 .. l - 1 : u[j][i] = IF i < p THEN t[j][i] ELSE t[j][i + 1]
  BY <1>1 DEF SinUno
<1>3. EsTabla(u, n)
  BY <1>1, <1>2 DEF EsTabla
<1> HIDE DEF l
<1>4. \A i \in D : A(i) \in DOMAIN t[j] /\ A(i) # p /\ u[j][i] = t[j][A(i)] /\ B(A(i)) = i
  BY <1>2, SMTT(30)
<1>5. \A i \in DOMAIN t[j] : i # p => B(i) \in D /\ A(B(i)) = i
  BY <1>2
<1>6. l \in DOMAIN t[j] /\ D = DOMAIN t[j] \ {l}
  <2>1. \A k \in Nat \ {0} : k \in 1 .. k /\ 1 .. k - 1 = (1 .. k) \ {k}
    OBVIOUS
  <2> QED
    BY <1>2, <2>1
<1>7. \A i, k \in D : A(i) = A(k) => i = k
  BY <1>4
<1> HIDE DEF D, A, B
<1>8. Lugares(u) = Lugares(t) \ {<<j, l>>} /\ <<j, l>> \in Lugares(t)
  <2>1. <<j, l>> \in Lugares(t)
    BY <1>1, <1>6, LugaresDe
  <2>2. ASSUME NEW x \in Lugares(u)
        PROVE  x \in Lugares(t) /\ x # <<j, l>>
    <3>1. PICK i \in DOMAIN u : \E q \in DOMAIN u[i] : x = <<i, q>>
      BY LugaresDe
    <3>2. PICK q \in DOMAIN u[i] : x = <<i, q>>
      BY <3>1
    <3>3. i \in DOMAIN t /\ q \in DOMAIN t[i] /\ ~(i = j /\ q = l)
      BY <1>1, <1>6, <3>2 DEF D
    <3> QED
      BY <3>2, <3>3, LugaresDe
  <2>3. ASSUME NEW x \in Lugares(t), x # <<j, l>>
        PROVE  x \in Lugares(u)
    <3>1. PICK i \in DOMAIN t : \E q \in DOMAIN t[i] : x = <<i, q>>
      BY LugaresDe
    <3>2. PICK q \in DOMAIN t[i] : x = <<i, q>>
      BY <3>1
    <3>3. i \in DOMAIN u /\ q \in DOMAIN u[i]
      BY <1>1, <1>6, <2>3, <3>2 DEF D
    <3> QED
      BY <3>2, <3>3, LugaresDe
  <2> QED
    BY <2>1, <2>2, <2>3
<1>9. IsFiniteSet(Lugares(t)) =>
        /\ IsFiniteSet(Lugares(u))
        /\ Cardinality(Lugares(u)) = Cardinality(Lugares(t)) - 1
  BY <1>8, FS_RemoveElement
<1>10. ASSUME NEW x \in ElementosDe(u)
       PROVE  \E i \in DOMAIN t : \E q \in DOMAIN t[i] : x = t[i][q] /\ ~(i = j /\ q = p)
  <2>1. PICK i \in DOMAIN u : \E q \in DOMAIN u[i] : x = u[i][q]
    BY Dentro
  <2>2. PICK q \in DOMAIN u[i] : x = u[i][q]
    BY <2>1
  <2>3. CASE i = j
    <3>1. A(q) \in DOMAIN t[j] /\ A(q) # p /\ x = t[j][A(q)]
      BY <1>4, <2>2, <2>3 DEF D
    <3> QED
      BY <1>1, <2>3, <3>1
  <2>4. CASE i # j
    <3>1. i \in DOMAIN t /\ q \in DOMAIN t[i] /\ x = t[i][q]
      BY <1>1, <2>2, <2>4
    <3> QED
      BY <2>4, <3>1
  <2> QED
    BY <2>3, <2>4
<1>11. ElementosDe(t) = ElementosDe(u) \union {t[j][p]}
  <2>1. \A x \in ElementosDe(u) : x \in ElementosDe(t)
    BY <1>10, Dentro
  <2>2. t[j][p] \in ElementosDe(t)
    BY <1>1, Dentro
  <2>3. ASSUME NEW x \in ElementosDe(t), x # t[j][p]
        PROVE  x \in ElementosDe(u)
    <3>1. PICK i \in DOMAIN t : \E q \in DOMAIN t[i] : x = t[i][q]
      BY Dentro
    <3>2. PICK q \in DOMAIN t[i] : x = t[i][q]
      BY <3>1
    <3>3. CASE i = j
      <4>1. B(q) \in D /\ A(B(q)) = q
        BY <1>5, <2>3, <3>2, <3>3
      <4>2. u[j][B(q)] = x
        BY <1>4, <3>2, <3>3, <4>1
      <4> QED
        BY <1>1, <4>1, <4>2, Dentro DEF D
    <3>4. CASE i # j
      <4>1. i \in DOMAIN u /\ q \in DOMAIN u[i] /\ x = u[i][q]
        BY <1>1, <3>2, <3>4
      <4> QED
        BY <4>1, Dentro
    <3> QED
      BY <3>3, <3>4
  <2> QED
    BY <2>1, <2>2, <2>3
<1>12. Cardinality(Usadas(u)) = Cardinality(Usadas(t)) - (IF Len(t[j]) = 1 THEN 1 ELSE 0)
  <2>1. j \in Usadas(t)
    BY <1>1, <1>6 DEF Usadas
  <2>2. u[j] = << >> <=> l = 1
    BY <1>2, EmptySeq
  <2>3. IsFiniteSet(Usadas(t)) /\ Cardinality(Usadas(t)) \in Nat
    BY UsadasFinito
  <2>4. CASE l = 1
    <3>1. Usadas(u) = Usadas(t) \ {j}
      BY <1>1, <2>2, <2>4 DEF Usadas
    <3> QED
      BY <2>1, <2>3, <2>4, <3>1, FS_RemoveElement DEF l
  <2>5. CASE l # 1
    <3>1. Usadas(u) = Usadas(t)
      BY <1>1, <2>1, <2>2, <2>5 DEF Usadas
    <3> QED
      BY <2>3, <2>5, <3>1 DEF l
  <2> QED
    BY <2>4, <2>5
<1>13. ASSUME NEW m, Puesta(t, m)
       PROVE  Puesta(u, m)
  <2> SUFFICES ASSUME NEW i \in DOMAIN u, NEW q \in DOMAIN u[i]
               PROVE  u[i][q].hashcode % m = i
    BY DEF Puesta
  <2>1. CASE i = j
    BY <1>1, <1>4, <1>13, <2>1 DEF Puesta, D
  <2>2. CASE i # j
    BY <1>1, <1>13, <2>2 DEF Puesta
  <2> QED
    BY <2>1, <2>2
<1>14. ASSUME SinRepetir(t)
       PROVE  SinRepetir(u)
  <2> SUFFICES ASSUME NEW i \in DOMAIN u, NEW q \in DOMAIN u[i], NEW r \in DOMAIN u[i],
                      u[i][q].hashcode = u[i][r].hashcode
               PROVE  q = r
    BY DEF SinRepetir
  <2>1. CASE i = j
    <3>1. /\ A(q) \in DOMAIN t[j] /\ A(r) \in DOMAIN t[j]
          /\ t[j][A(q)].hashcode = t[j][A(r)].hashcode
      BY <1>4, <2>1 DEF D
    <3>2. A(q) = A(r)
      BY <1>1, <1>14, <3>1 DEF SinRepetir
    <3> QED
      BY <1>7, <2>1, <3>2 DEF D
  <2>2. CASE i # j
    BY <1>1, <1>14, <2>2 DEF SinRepetir
  <2> QED
    BY <2>1, <2>2
<1>15. ASSUME SinRepetir(t), NEW m, Puesta(t, m), NEW x \in ElementosDe(u)
       PROVE  x.hashcode # t[j][p].hashcode
  <2>1. PICK i \in DOMAIN t : \E q \in DOMAIN t[i] : x = t[i][q] /\ ~(i = j /\ q = p)
    BY <1>10
  <2>2. PICK q \in DOMAIN t[i] : x = t[i][q] /\ ~(i = j /\ q = p)
    BY <2>1
  <2>3. x.hashcode = t[j][p].hashcode => i = j
    BY <1>1, <1>15, <2>2 DEF Puesta
  <2> QED
    BY <1>1, <1>15, <2>2, <2>3 DEF SinRepetir
<1> QED
  BY <1>3, <1>9, <1>11, <1>12, <1>13, <1>14, <1>15

LEMMA UnoPorCodigo ==
  ASSUME NEW t, NEW m, Puesta(t, m), SinRepetir(t),
         NEW x \in ElementosDe(t), NEW y \in ElementosDe(t), x.hashcode = y.hashcode
  PROVE  x = y
<1>1. PICK i \in DOMAIN t : \E q \in DOMAIN t[i] : x = t[i][q]
  BY Dentro
<1>2. PICK q \in DOMAIN t[i] : x = t[i][q]
  BY <1>1
<1>3. PICK j \in DOMAIN t : \E p \in DOMAIN t[j] : y = t[j][p]
  BY Dentro
<1>4. PICK p \in DOMAIN t[j] : y = t[j][p]
  BY <1>3
<1>5. i = j
  BY <1>2, <1>4 DEF Puesta
<1> QED
  BY <1>2, <1>4, <1>5 DEF SinRepetir

LEMMA Cambiado ==
  ASSUME NEW t, NEW n \in Nat, EsTabla(t, n), NEW j \in 0 .. n - 1, NEW p \in DOMAIN t[j],
         NEW e \in Elementos, e.hashcode = t[j][p].hashcode,
         NEW u, DOMAIN u = DOMAIN t, u[j] = [t[j] EXCEPT ![p] = e],
         \A i \in DOMAIN t : i # j => u[i] = t[i]
  PROVE  /\ EsTabla(u, n) /\ Lugares(u) = Lugares(t) /\ Usadas(u) = Usadas(t)
         /\ ElementosDe(u) \union {t[j][p]} = ElementosDe(t) \union {e}
         /\ e \in ElementosDe(u)
         /\ \A m : Puesta(t, m) => Puesta(u, m)
         /\ SinRepetir(t) => SinRepetir(u)
<1>1. /\ DOMAIN t = 0 .. n - 1 /\ DOMAIN u = 0 .. n - 1 /\ t[j] \in Seq(Elementos)
  BY DEF EsTabla
<1>2. /\ DOMAIN u[j] = DOMAIN t[j] /\ u[j][p] = e
      /\ \A q \in DOMAIN t[j] : q # p => u[j][q] = t[j][q]
  OBVIOUS
<1>3. u[j] \in Seq(Elementos)
  BY <1>1
<1>4. EsTabla(u, n)
  BY <1>1, <1>3 DEF EsTabla
<1>5. \A i \in DOMAIN t : DOMAIN u[i] = DOMAIN t[i]
  BY <1>2
<1>6. Lugares(u) = Lugares(t)
  <2>1. \A l : l \in Lugares(u) <=> l \in Lugares(t)
    BY <1>5, LugaresDe
  <2> QED
    BY <2>1
<1>7. Usadas(u) = Usadas(t)
  <2>1. u[j] # << >> /\ t[j] # << >>
    BY <1>1, <1>2, <1>3, EmptySeq
  <2> QED
    BY <2>1 DEF Usadas
<1>8. \A i \in DOMAIN t : \A q \in DOMAIN t[i] :
        /\ u[i][q].hashcode = t[i][q].hashcode
        /\ i # j \/ q # p => u[i][q] = t[i][q]
  BY <1>2
<1>9. e \in ElementosDe(u) /\ t[j][p] \in ElementosDe(t)
  BY <1>1, <1>2, Dentro
<1>10. ASSUME NEW x \in ElementosDe(u), x # e
       PROVE  x \in ElementosDe(t)
  <2>1. PICK i \in DOMAIN u : \E q \in DOMAIN u[i] : x = u[i][q]
    BY Dentro
  <2>2. PICK q \in DOMAIN u[i] : x = u[i][q]
    BY <2>1
  <2>3. i \in DOMAIN t /\ q \in DOMAIN t[i] /\ x = t[i][q]
    BY <1>1, <1>2, <1>5, <1>8, <1>10, <2>2
  <2> QED
    BY <2>3, Dentro
<1>11. ASSUME NEW x \in ElementosDe(t), x # t[j][p]
       PROVE  x \in ElementosDe(u)
  <2>1. PICK i \in DOMAIN t : \E q \in DOMAIN t[i] : x = t[i][q]
    BY Dentro
  <2>2. PICK q \in DOMAIN t[i] : x = t[i][q]
    BY <2>1
  <2>3. i \in DOMAIN u /\ q \in DOMAIN u[i] /\ x = u[i][q]
    BY <1>1, <1>2, <1>5, <1>8, <1>11, <2>2
  <2> QED
    BY <2>3, Dentro
<1>12. ElementosDe(u) \union {t[j][p]} = ElementosDe(t) \union {e}
  BY <1>9, <1>10, <1>11
<1>13. \A m : Puesta(t, m) => Puesta(u, m)
  BY <1>1, <1>5, <1>8 DEF Puesta
<1>14. SinRepetir(t) => SinRepetir(u)
  BY <1>1, <1>5, <1>8 DEF SinRepetir
<1> QED
  BY <1>4, <1>6, <1>7, <1>9, <1>12, <1>13, <1>14

-----------------------------------------------------------------------------
(* The position of a code in a table and in one twice as large             *)

LEMMA Posicion ==
  ASSUME NEW h \in Nat, NEW n \in Nat \ {0}
  PROVE  h % n \in 0 .. n - 1 /\ h \div n \in Int /\ h = n * (h \div n) + (h % n)
OBVIOUS

\* A multiple of n smaller than n is 0.
LEMMA MultiploChico ==
  ASSUME NEW a \in Int, NEW n \in Nat \ {0}, n * a < n, 0 - n < n * a
  PROVE  a = 0
<1>1. \A x, y \in Nat : x * y >= 0
  OBVIOUS
<1>2. CASE a >= 1
  <2>1. n * a = n * (a - 1) + n
    OBVIOUS
  <2>2. n * (a - 1) >= 0
    BY <1>1, <1>2
  <2> QED
    BY <2>1, <2>2
<1>3. CASE a <= -1
  <2>1. n * a = 0 - n * (-1 - a) - n
    OBVIOUS
  <2>2. n * (-1 - a) >= 0
    BY <1>1, <1>3
  <2> QED
    BY <2>1, <2>2
<1> QED
  BY <1>2, <1>3

LEMMA RestoUnico ==
  ASSUME NEW h \in Nat, NEW n \in Nat \ {0}, NEW q \in Int, NEW r \in 0 .. n - 1,
         h = n * q + r
  PROVE  h % n = r
<1> DEFINE p == h \div n
           s == h % n
<1>1. h = n * p + s /\ p \in Int /\ s \in 0 .. n - 1
  BY Posicion
<1> HIDE DEF p, s
<1>2. n * (p - q) = r - s
  BY <1>1
<1>3. p - q = 0
  BY <1>1, <1>2, MultiploChico
<1> QED
  BY <1>1, <1>3 DEF s

LEMMA PosicionDoble ==
  ASSUME NEW h \in Nat, NEW n \in Nat \ {0}
  PROVE  \/ h % (2 * n) = h % n
         \/ h % (2 * n) = (h % n) + n
<1> DEFINE q == h \div (2 * n)
           r == h % (2 * n)
<1>1. q \in Int /\ r \in 0 .. 2 * n - 1 /\ h = (2 * n) * q + r
  BY Posicion, 2 * n \in Nat \ {0}
<1> HIDE DEF q, r
<1>2. CASE r < n
  <2>1. h = n * (2 * q) + r /\ 2 * q \in Int /\ r \in 0 .. n - 1
    BY <1>1, <1>2
  <2>2. h % n = r
    BY <2>1, RestoUnico
  <2> QED
    BY <2>2 DEF r
<1>3. CASE ~(r < n)
  <2>1. h = n * (2 * q + 1) + (r - n) /\ 2 * q + 1 \in Int /\ r - n \in 0 .. n - 1
    BY <1>1, <1>3
  <2>2. h % n = r - n
    BY <2>1, RestoUnico
  <2>3. r = (h % n) + n
    BY <1>1, <2>2
  <2> QED
    BY <2>3 DEF r
<1> QED
  BY <1>2, <1>3

-----------------------------------------------------------------------------
(* What the calls find                                                     *)

LEMMA LaPosicion ==
  ASSUME TypeOK, NEW k \in Claves
  PROVE  /\ Hash[k] \in Nat /\ table_max_size \in Nat \ {0}
         /\ Indice(k) \in 0 .. table_max_size - 1 /\ Indice(k) = Hash[k] % table_max_size
         /\ elements[Indice(k)] \in Seq(Elementos)
<1>1. Hash[k] \in Nat /\ table_max_size \in Nat \ {0}
  BY ConstantesOK DEF TypeOK
<1>2. Indice(k) \in 0 .. table_max_size - 1
  BY <1>1, Posicion DEF Indice
<1> QED
  BY <1>1, <1>2 DEF TypeOK, EsTabla, Indice

LEMMA LosElementos ==
  ASSUME NEW t, NEW n, EsTabla(t, n), NEW x \in ElementosDe(t)
  PROVE  /\ x \in Elementos /\ x.hashcode \in Nat /\ x.data \in Datos
         /\ x.key \in Claves /\ x.hashcode = Hash[x.key]
<1>1. PICK j \in DOMAIN t : \E p \in DOMAIN t[j] : x = t[j][p]
  BY Dentro
<1>2. PICK p \in DOMAIN t[j] : x = t[j][p]
  BY <1>1
<1>3. x \in Elementos
  BY <1>2, ElementOfSeq DEF EsTabla
<1> QED
  BY <1>3, ConstantesOK DEF Elementos, Nuevo

\* The search of dictionary_get_element: its chain has the element of the code if the table
\* has it, and no other.
LEMMA LaBusqueda ==
  ASSUME TypeOK, BienPuestas, NEW k \in Claves
  PROVE  /\ Esta(k) <=> \E x \in ElementosDe(elements) : x.hashcode = Hash[k]
         /\ \A p \in Coinciden(k) :
              /\ p \in DOMAIN elements[Indice(k)] /\ Encontrado(k, p)
              /\ elements[Indice(k)][p].hashcode = Hash[k]
              /\ \A q \in Coinciden(k) : q = p
<1>1. Puesta(elements, table_max_size) /\ SinRepetir(elements)
      /\ DOMAIN elements = 0 .. table_max_size - 1
  BY DEF BienPuestas, TypeOK, EsTabla
<1>2. Indice(k) \in DOMAIN elements
  BY <1>1, LaPosicion
<1>3. ASSUME NEW x \in ElementosDe(elements), x.hashcode = Hash[k]
      PROVE  Esta(k)
  <2>1. PICK j \in DOMAIN elements : \E p \in DOMAIN elements[j] : x = elements[j][p]
    BY Dentro
  <2>2. PICK p \in DOMAIN elements[j] : x = elements[j][p]
    BY <2>1
  <2>3. j = Indice(k)
    BY <1>1, <1>3, <2>2 DEF Puesta, Indice
  <2> QED
    BY <1>3, <2>2, <2>3 DEF Esta, Coinciden
<1>4. ASSUME NEW p \in Coinciden(k)
      PROVE  /\ p \in DOMAIN elements[Indice(k)] /\ elements[Indice(k)][p].hashcode = Hash[k]
             /\ \A q \in Coinciden(k) : q = p
  BY <1>1, <1>2 DEF Coinciden, SinRepetir
<1>5. ASSUME NEW p \in Coinciden(k)
      PROVE  Encontrado(k, p)
  <2>1. p \in Int
    BY <1>4, LaPosicion
  <2> QED
    BY <1>4, <2>1 DEF Encontrado
<1>6. ASSUME Esta(k)
      PROVE  \E x \in ElementosDe(elements) : x.hashcode = Hash[k]
  <2>1. PICK p : p \in Coinciden(k)
    BY <1>6 DEF Esta
  <2>2. elements[Indice(k)][p] \in ElementosDe(elements)
    BY <1>2, <1>4, <2>1, Dentro
  <2> QED
    BY <1>4, <2>1, <2>2
<1> QED
  BY <1>3, <1>4, <1>5, <1>6

LEMMA LoQueDaGet ==
  ASSUME TypeOK, BienPuestas, NEW k \in Claves
  PROVE  /\ ~Esta(k) => DatoDe(k) = NULL
         /\ \A p \in Coinciden(k) : DatoDe(k) = elements[Indice(k)][p].data
         /\ DatoDe(k) \in Datos \union {NULL}
         /\ Esta(k) => DatoDe(k) \in Datos
<1>1. ASSUME NEW p \in Coinciden(k)
      PROVE  DatoDe(k) = elements[Indice(k)][p].data /\ DatoDe(k) \in Datos
  <2>1. Esta(k)
    BY <1>1 DEF Esta
  <2> DEFINE c == CHOOSE q \in Coinciden(k) : Encontrado(k, q)
  <2>2. c \in Coinciden(k)
    BY <1>1, LaBusqueda
  <2>3. c = p
    BY <1>1, <2>2, LaBusqueda
  <2>4. DatoDe(k) = elements[Indice(k)][c].data
    BY <2>1 DEF DatoDe
  <2>5. elements[Indice(k)][p] \in Elementos
    BY <1>1, LaBusqueda, LaPosicion, ElementOfSeq
  <2>6. elements[Indice(k)][p].data \in Datos
    <3>1. \A x \in Elementos : x.data \in Datos
      BY DEF Elementos, Nuevo
    <3> QED
      BY <2>5, <3>1
  <2> QED
    BY <2>3, <2>4, <2>6
<1>2. ~Esta(k) => DatoDe(k) = NULL
  BY DEF DatoDe
<1> QED
  BY <1>1, <1>2 DEF Esta

\* Between two calls there is one table.
LEMMA EnReposo ==
  ASSUME IInv, pc = "libre"
  PROVE  /\ \A j \in DOMAIN new_table : new_table[j] = << >>
         /\ EsTabla(new_table, 0) /\ ElementosDe(new_table) = {} /\ Lugares(new_table) = {}
         /\ Cardinality(Lugares(new_table)) = 0
         /\ table_index = 0 /\ table_current_size = Cardinality(Usadas(elements))
         /\ table_current_size < table_max_size
         /\ IsFiniteSet(Lugares(elements)) /\ Cardinality(Lugares(elements)) \in Nat
         /\ nulos \in 0 .. MaxNulos /\ nulos \in Nat
         /\ elements_amount = Cardinality(Lugares(elements)) + nulos
<1>1. EsTabla(new_table, 0)
  BY DEF IInv, TypeOK
<1>2. DOMAIN new_table = {}
  BY <1>1 DEF EsTabla
<1>3. ElementosDe(new_table) = {} /\ Lugares(new_table) = {} /\ Cardinality(Lugares(new_table)) = 0
  BY <1>2, TablaSinElementos
<1>4. Cardinality(Lugares(elements)) \in Nat /\ IsFiniteSet(Lugares(elements))
  BY FS_CardinalityType DEF IInv, Cuantos
<1>5. /\ elements_amount \in Nat /\ Cantidad = elements_amount
      /\ nulos \in 0 .. MaxNulos /\ nulos \in Nat
  BY ConstantesOK DEF IInv, TypeOK, Cantidad
<1> QED
  BY <1>1, <1>2, <1>3, <1>4, <1>5 DEF IInv, Recorrido, EnUso, UnoLibre, Cuantos

-----------------------------------------------------------------------------
(* dictionary_put                                                          *)

LEMMA InsertarTabla ==
  ASSUME IInv, NEW k \in Claves, NEW d \in Datos, Insertar(k, d)
  PROVE  /\ EsTabla(elements', table_max_size)
         /\ elements'[Indice(k)] = Append(elements[Indice(k)], Nuevo(k, d))
         /\ ElementosDe(elements') = ElementosDe(elements) \union {Nuevo(k, d)}
         /\ \A x \in ElementosDe(elements) : x.hashcode # Hash[k]
         /\ IsFiniteSet(Lugares(elements'))
         /\ Cardinality(Lugares(elements')) = Cardinality(Lugares(elements)) + 1
         /\ Cardinality(Usadas(elements')) =
              table_current_size + (IF elements[Indice(k)] = << >> THEN 1 ELSE 0)
         /\ Puesta(elements', table_max_size) /\ SinRepetir(elements')
<1> DEFINE e == Nuevo(k, d)
<1>1. TypeOK /\ BienPuestas /\ pc = "libre" /\ ~Esta(k)
  BY DEF IInv, Insertar
<1>2. /\ table_max_size \in Nat \ {0} /\ EsTabla(elements, table_max_size)
      /\ Puesta(elements, table_max_size) /\ SinRepetir(elements)
      /\ Indice(k) \in 0 .. table_max_size - 1
      /\ Hash[k] % table_max_size = Indice(k)
  BY <1>1, LaPosicion DEF BienPuestas, TypeOK
<1>3. e \in Elementos /\ e.hashcode = Hash[k]
  BY DEF Elementos, Nuevo
<1>4. elements' = [elements EXCEPT ![Indice(k)] = Append(@, e)]
  BY DEF Insertar
<1> HIDE DEF e
<1>5. /\ DOMAIN elements' = DOMAIN elements
      /\ elements'[Indice(k)] = Append(elements[Indice(k)], e)
      /\ \A i \in DOMAIN elements : i # Indice(k) => elements'[i] = elements[i]
  BY <1>2, <1>4 DEF EsTabla
<1>6. \A x \in ElementosDe(elements) : x.hashcode # Hash[k]
  BY <1>1, LaBusqueda
<1>7. /\ EsTabla(elements', table_max_size)
      /\ ElementosDe(elements') = ElementosDe(elements) \union {e}
      /\ IsFiniteSet(Lugares(elements)) =>
              /\ IsFiniteSet(Lugares(elements'))
              /\ Cardinality(Lugares(elements')) = Cardinality(Lugares(elements)) + 1
      /\ Cardinality(Usadas(elements')) =
              Cardinality(Usadas(elements)) + (IF elements[Indice(k)] = << >> THEN 1 ELSE 0)
      /\ Puesta(elements', table_max_size) /\ SinRepetir(elements')
  BY <1>2, <1>3, <1>5, <1>6, Agregado
<1> QED
  BY <1>1, <1>5, <1>6, <1>7, EnReposo DEF e

LEMMA InsertarInv ==
  ASSUME IInv, NEW k \in Claves, NEW d \in Datos, Insertar(k, d)
  PROVE  IInv'
<1>1. TypeOK /\ BienPuestas /\ pc = "libre"
  BY DEF IInv, Insertar
<1>2. /\ table_max_size' = table_max_size /\ table_index' = table_index /\ ret' = ret
      /\ nulos' = nulos /\ nulos \in 0 .. MaxNulos /\ nulos \in Nat
      /\ table_index = 0 /\ table_max_size \in Nat \ {0} /\ elements_amount \in Nat
      /\ table_current_size \in Nat /\ 2 * table_max_size \in Nat
      /\ ret \in Datos \cup {NULL, "true", "false"}
      /\ Indice(k) \in 0 .. table_max_size - 1
  BY <1>1, EnReposo, LaPosicion DEF Insertar, TypeOK
<1> DEFINE libre == elements[Indice(k)] = << >>
           ocupadas == table_current_size + (IF libre THEN 1 ELSE 0)
<1>3. ocupadas \in Nat /\ ocupadas = Cardinality(Usadas(elements'))
  BY <1>2, InsertarTabla
<1>4. CASE libre /\ ocupadas >= table_max_size
  <2>1. /\ pc' = "resize" /\ table_current_size' = 0
        /\ new_table' = TablaVacia(2 * table_max_size) /\ elements_amount' = elements_amount
    BY <1>4 DEF Insertar
  <2>2. /\ EsTabla(new_table', 2 * table_max_size)
        /\ \A j \in DOMAIN new_table' : new_table'[j] = << >>
    BY <1>2, <2>1, VaciaSinElementos
  <2>3. /\ Lugares(new_table') = {} /\ ElementosDe(new_table') = {} /\ IsFiniteSet(Lugares(new_table'))
        /\ Cardinality(Lugares(new_table')) = 0 /\ Cardinality(Usadas(new_table')) = 0
        /\ SinRepetir(new_table') /\ Puesta(new_table', 2 * table_max_size)
    BY <2>2, TablaSinElementos
  <2>4. TypeOK'
    BY <1>2, <2>1, <2>2, InsertarTabla DEF TypeOK
  <2>5. BienPuestas'
    BY <1>2, <2>3, InsertarTabla DEF BienPuestas, Ajenas
  <2>6. EnUso'
    BY <2>1, <2>3 DEF EnUso
  <2>7. Cuantos'
    <3> DEFINE n == Cardinality(Lugares(elements))
               m == Cardinality(Lugares(elements'))
    <3>1. n \in Nat /\ m = n + 1 /\ elements_amount = n + nulos
      BY <1>1, InsertarTabla, EnReposo
    <3>2. Cantidad' = elements_amount + 1
      BY <2>1 DEF Cantidad
    <3> HIDE DEF n, m
    <3>3. Cantidad' = m + 0 + nulos'
      BY <1>2, <3>1, <3>2
    <3> QED
      BY <2>3, <3>3, InsertarTabla DEF Cuantos, m
  <2>8. UnoLibre'
    <3>1. elements'[Indice(k)] = Append(<< >>, Nuevo(k, d))
      BY <1>4, InsertarTabla
    <3>2. Len(elements'[Indice(k)]) = 1
      BY <3>1
    <3>3. /\ Indice(k) \in DOMAIN new_table' /\ Indice(k) + table_max_size \in DOMAIN new_table'
      BY <1>2, <2>2 DEF EsTabla
    <3>5. /\ new_table'[Indice(k)] = << >> /\ new_table'[Indice(k) + table_max_size'] = << >>
      BY <1>2, <2>2, <3>3
    <3>6. \E j \in 0 .. table_max_size' - 1 :
            /\ new_table'[j] = << >> \/ new_table'[j + table_max_size'] = << >>
            /\ elements'[j] # << >> =>
                 /\ Len(elements'[j]) = 1
                 /\ new_table'[j] = << >> /\ new_table'[j + table_max_size'] = << >>
      BY <1>2, <3>2, <3>5
    <3> QED
      BY <2>1, <3>6 DEF UnoLibre, Solitaria
  <2>9. Recorrido'
    BY <1>2, <2>1 DEF Recorrido
  <2> QED
    BY <2>4, <2>5, <2>6, <2>7, <2>8, <2>9 DEF IInv
<1>5. CASE ~(libre /\ ocupadas >= table_max_size)
  <2>1. /\ pc' = pc /\ new_table' = new_table /\ table_current_size' = ocupadas
        /\ elements_amount' = elements_amount + 1
    BY <1>5 DEF Insertar
  <2>2. TypeOK'
    <3>1. EsTabla(elements', table_max_size')
      BY <1>2, InsertarTabla
    <3>2. EsTabla(new_table', IF pc' = "resize" THEN 2 * table_max_size' ELSE 0)
      BY <1>1, <2>1, EnReposo
    <3>3. /\ table_index' \in 0 .. table_max_size' /\ pc' \in {"libre", "resize"}
          /\ elements_amount' \in Nat /\ table_current_size' \in Nat
      BY <1>1, <1>2, <1>3, <2>1
    <3> QED
      BY <1>2, <3>1, <3>2, <3>3 DEF TypeOK
  <2>3. BienPuestas'
    <3>1. Ajenas(elements', new_table')
      BY <1>1, <2>1, EnReposo DEF Ajenas
    <3> QED
      BY <1>1, <1>2, <2>1, <3>1, InsertarTabla DEF BienPuestas
  <2>4. EnUso'
    BY <1>1, <1>3, <2>1 DEF EnUso
  <2>5. Cuantos'
    <3>1. /\ Lugares(new_table') = {} /\ IsFiniteSet(Lugares(new_table'))
          /\ Cardinality(Lugares(new_table')) = 0
      BY <1>1, <2>1, EnReposo, FS_EmptySet
    <3>2. /\ Cantidad' = elements_amount + 1
      BY <1>1, <2>1, <1>2 DEF Cantidad
    <3> DEFINE n == Cardinality(Lugares(elements))
               m == Cardinality(Lugares(elements'))
    <3>3. n \in Nat /\ m = n + 1 /\ elements_amount = n + nulos
      BY <1>1, InsertarTabla, EnReposo
    <3> HIDE DEF n, m
    <3>4. Cantidad' = m + 0 + nulos'
      BY <1>2, <3>2, <3>3
    <3> QED
      BY <3>1, <3>4, InsertarTabla DEF Cuantos, m
  <2>6. UnoLibre'
    BY <1>1, <1>2, <1>5, <2>1, EnReposo DEF UnoLibre
  <2>7. Recorrido'
    BY <1>1, <1>2, <2>1 DEF Recorrido
  <2> QED
    BY <2>2, <2>3, <2>4, <2>5, <2>6, <2>7 DEF IInv
<1> QED
  BY <1>4, <1>5

LEMMA ActualizarTabla ==
  ASSUME IInv, NEW k \in Claves, NEW d \in Datos, Actualizar(k, d)
  PROVE  /\ EsTabla(elements', table_max_size)
         /\ Lugares(elements') = Lugares(elements) /\ Usadas(elements') = Usadas(elements)
         /\ Puesta(elements', table_max_size) /\ SinRepetir(elements')
         /\ \E x \in ElementosDe(elements), e \in ElementosDe(elements') :
              /\ x.hashcode = Hash[k] /\ e.hashcode = Hash[k] /\ e.data = d /\ e.key = x.key
              /\ ElementosDe(elements') \union {x} = ElementosDe(elements) \union {e}
<1>1. TypeOK /\ BienPuestas
  BY DEF IInv
<1>2. PICK p \in Coinciden(k) : elements' = [elements EXCEPT ![Indice(k)][p].data = d]
  BY DEF Actualizar
<1> DEFINE i == Indice(k)
           x == elements[i][p]
           e == [elements[i][p] EXCEPT !.data = d]
<1>3. /\ table_max_size \in Nat \ {0} /\ EsTabla(elements, table_max_size)
      /\ Puesta(elements, table_max_size) /\ SinRepetir(elements)
      /\ i \in 0 .. table_max_size - 1 /\ DOMAIN elements = 0 .. table_max_size - 1
  BY <1>1, LaPosicion DEF BienPuestas, TypeOK, EsTabla
<1>4. p \in DOMAIN elements[i] /\ x.hashcode = Hash[k] /\ x \in Elementos
  BY <1>1, LaBusqueda, LaPosicion, ElementOfSeq
<1>5. e \in Elementos /\ e.hashcode = x.hashcode /\ e.data = d /\ e.key = x.key
  <2>1. PICK j \in Claves, c \in Datos : x = Nuevo(j, c)
    BY <1>4 DEF Elementos
  <2>2. e = Nuevo(j, d)
    BY <2>1 DEF Nuevo
  <2> QED
    BY <2>1, <2>2 DEF Elementos, Nuevo
<1>6. /\ DOMAIN elements' = DOMAIN elements
      /\ elements'[i] = [elements[i] EXCEPT ![p] = e]
      /\ \A j \in DOMAIN elements : j # i => elements'[j] = elements[j]
  BY <1>2, <1>3
<1>7. x \in ElementosDe(elements)
  BY <1>3, <1>4, Dentro
<1> HIDE DEF i, x, e
<1>8. x = elements[i][p]
  BY DEF x
<1>9. /\ EsTabla(elements', table_max_size)
      /\ Lugares(elements') = Lugares(elements) /\ Usadas(elements') = Usadas(elements)
      /\ ElementosDe(elements') \union {x} = ElementosDe(elements) \union {e}
      /\ e \in ElementosDe(elements')
      /\ Puesta(elements', table_max_size) /\ SinRepetir(elements')
  BY <1>3, <1>4, <1>5, <1>6, <1>8, Cambiado
<1> QED
  BY <1>4, <1>5, <1>7, <1>9

LEMMA ActualizarInv ==
  ASSUME IInv, NEW k \in Claves, NEW d \in Datos, Actualizar(k, d)
  PROVE  IInv'
<1>1. /\ TypeOK /\ BienPuestas /\ pc = "libre"
      /\ UNCHANGED <<table_max_size, table_current_size, elements_amount, new_table,
                     table_index, pc, ret, nulos>>
  BY DEF IInv, Actualizar, resize
<1>2. TypeOK'
  BY <1>1, ActualizarTabla DEF TypeOK
<1>3. BienPuestas'
  <2>1. Ajenas(elements', new_table')
    BY <1>1, EnReposo DEF Ajenas
  <2> QED
    BY <1>1, <2>1, ActualizarTabla DEF BienPuestas
<1>4. EnUso' /\ Cuantos'
  BY <1>1, ActualizarTabla DEF IInv, EnUso, Cuantos, Cantidad
<1>5. UnoLibre' /\ Recorrido'
  BY <1>1, EnReposo DEF UnoLibre, Recorrido
<1> QED
  BY <1>2, <1>3, <1>4, <1>5 DEF IInv

-----------------------------------------------------------------------------
(* dictionary_remove and dictionary_clean                                  *)

LEMMA QuitarTabla ==
  ASSUME IInv, NEW k \in Claves, Remove(k), Esta(k)
  PROVE  /\ EsTabla(elements', table_max_size)
         /\ Puesta(elements', table_max_size) /\ SinRepetir(elements')
         /\ IsFiniteSet(Lugares(elements')) /\ Cardinality(Lugares(elements')) \in Nat
         /\ Cardinality(Lugares(elements')) = Cardinality(Lugares(elements)) - 1
         /\ table_current_size' = Cardinality(Usadas(elements'))
         /\ table_current_size' \in Nat /\ table_current_size' <= table_current_size
         /\ \E x \in ElementosDe(elements) :
              /\ x.hashcode = Hash[k]
              /\ ElementosDe(elements) = ElementosDe(elements') \union {x}
              /\ \A y \in ElementosDe(elements') : y.hashcode # Hash[k]
<1>1. TypeOK /\ BienPuestas /\ pc = "libre"
  BY DEF IInv, Remove
<1>2. Quitar(k)
  BY DEF Remove
<1>3. PICK p \in Coinciden(k) : elements' = [elements EXCEPT ![Indice(k)] = Sin(@, p)]
  BY <1>2 DEF Quitar
<1> DEFINE i == Indice(k)
           x == elements[i][p]
<1>4. /\ table_max_size \in Nat \ {0} /\ EsTabla(elements, table_max_size)
      /\ Puesta(elements, table_max_size) /\ SinRepetir(elements)
      /\ i \in 0 .. table_max_size - 1 /\ DOMAIN elements = 0 .. table_max_size - 1
      /\ elements[i] \in Seq(Elementos)
  BY <1>1, LaPosicion DEF BienPuestas, TypeOK, EsTabla
<1>5. p \in DOMAIN elements[i] /\ x.hashcode = Hash[k]
  BY <1>1, LaBusqueda
<1>6. x \in ElementosDe(elements)
  BY <1>4, <1>5, Dentro
<1>7. /\ DOMAIN elements' = DOMAIN elements
      /\ elements'[i] = Sin(elements[i], p)
      /\ \A j \in DOMAIN elements : j # i => elements'[j] = elements[j]
  BY <1>3, <1>4
<1>8. SinUno(elements[i], p, elements'[i])
  BY <1>4, <1>5, <1>7, SinEsSinUno
<1>9. table_current_size' = IF Len(elements[i]) = 1 THEN table_current_size - 1
                                                     ELSE table_current_size
  BY <1>2 DEF Quitar
<1> HIDE DEF i
<1>10. /\ EsTabla(elements', table_max_size)
       /\ ElementosDe(elements) = ElementosDe(elements') \union {x}
       /\ IsFiniteSet(Lugares(elements)) =>
              /\ IsFiniteSet(Lugares(elements'))
              /\ Cardinality(Lugares(elements')) = Cardinality(Lugares(elements)) - 1
       /\ Cardinality(Usadas(elements')) =
              Cardinality(Usadas(elements)) - (IF Len(elements[i]) = 1 THEN 1 ELSE 0)
       /\ Puesta(elements', table_max_size) /\ SinRepetir(elements')
       /\ \A y \in ElementosDe(elements') : y.hashcode # x.hashcode
  <2>1. /\ table_max_size \in Nat /\ p \in DOMAIN elements[i] /\ x = elements[i][p]
        /\ \E m : Puesta(elements, m)
    BY <1>4, <1>5
  <2> HIDE DEF x
  <2> QED
    BY <1>4, <1>7, <1>8, <2>1, Sacado, SMTT(30)
<1>11. IsFiniteSet(Lugares(elements')) /\ Cardinality(Lugares(elements')) \in Nat
  BY <1>1, <1>10, EnReposo, FS_CardinalityType
<1>12. table_current_size = Cardinality(Usadas(elements)) /\ table_current_size \in Nat
  BY <1>1, EnReposo DEF TypeOK
<1>13. Cardinality(Usadas(elements')) \in Nat
  BY <1>4, <1>10, UsadasFinito
<1>14. /\ table_current_size' = Cardinality(Usadas(elements'))
       /\ table_current_size' \in Nat /\ table_current_size' <= table_current_size
  BY <1>9, <1>10, <1>12, <1>13
<1> QED
  BY <1>1, <1>5, <1>6, <1>10, <1>11, <1>14, EnReposo

LEMMA RemoveInv ==
  ASSUME IInv, NEW k \in Claves, Remove(k)
  PROVE  IInv'
<1>1. /\ TypeOK /\ BienPuestas /\ pc = "libre"
      /\ UNCHANGED <<table_max_size, new_table, table_index, pc>>
      /\ ret' = DatoDe(k)
      /\ elements_amount' = IF DatoDe(k) # NULL THEN elements_amount - 1 ELSE elements_amount
      /\ nulos' = IF Esta(k) /\ DatoDe(k) = NULL THEN nulos + 1 ELSE nulos
      /\ Esta(k) /\ DatoDe(k) = NULL => nulos < MaxNulos
      /\ nulos \in 0 .. MaxNulos /\ nulos \in Nat
  BY EnReposo DEF IInv, Remove, resize, CantidadTrasQuitar, SinDescontar
<1>2. ret' \in Datos \union {NULL, "true", "false"}
  BY <1>1, LoQueDaGet
<1>3. Recorrido'
  BY <1>1, EnReposo DEF Recorrido
<1>4. /\ table_max_size \in Nat \ {0} /\ table_current_size \in Nat /\ elements_amount \in Nat
  BY <1>1 DEF TypeOK
<1>5. CASE ~Esta(k)
  <2>1. /\ UNCHANGED <<elements, table_current_size>> /\ elements_amount' = elements_amount
        /\ nulos' = nulos
    BY <1>1, <1>5, LoQueDaGet DEF Remove
  <2> QED
    BY <1>1, <1>2, <1>3, <2>1
       DEF IInv, TypeOK, BienPuestas, EnUso, Cuantos, Cantidad, UnoLibre
<1>6. CASE Esta(k)
  <2> DEFINE n == Cardinality(Lugares(elements))
             m == Cardinality(Lugares(elements'))
  <2>1. /\ n \in Nat /\ m \in Nat /\ m = n - 1
        /\ elements_amount = n + nulos
    BY <1>1, <1>6, QuitarTabla, EnReposo
  <2>2. \/ elements_amount' = elements_amount - 1 /\ nulos' = nulos
        \/ elements_amount' = elements_amount /\ nulos' = nulos + 1 /\ nulos < MaxNulos
    BY <1>1, <1>6
  <2> HIDE DEF n, m
  <2>3. nulos' \in 0 .. MaxNulos /\ nulos' \in Nat
    BY <1>1, <2>2, ConstantesOK
  <2>4. elements_amount' \in Nat /\ elements_amount' = m + 0 + nulos'
    BY <1>1, <1>4, <2>1, <2>2
  <2>5. TypeOK'
    BY <1>1, <1>2, <1>6, <2>3, <2>4, QuitarTabla DEF TypeOK
  <2>6. BienPuestas'
    <3>1. Ajenas(elements', new_table')
      BY <1>1, EnReposo DEF Ajenas
    <3> QED
      BY <1>1, <1>6, <3>1, QuitarTabla DEF BienPuestas
  <2>7. EnUso'
    BY <1>1, <1>6, QuitarTabla DEF EnUso
  <2>8. Cuantos'
    <3>1. /\ Lugares(new_table') = {} /\ IsFiniteSet(Lugares(new_table'))
          /\ Cardinality(Lugares(new_table')) = 0
      BY <1>1, EnReposo, FS_EmptySet
    <3>2. Cantidad' = elements_amount'
      BY <1>1, <2>4 DEF Cantidad
    <3> QED
      BY <1>6, <2>4, <3>1, <3>2, QuitarTabla DEF Cuantos, m
  <2>9. UnoLibre'
    BY <1>1, <1>4, <1>6, QuitarTabla, EnReposo DEF UnoLibre
  <2> QED
    BY <1>3, <2>5, <2>6, <2>7, <2>8, <2>9 DEF IInv
<1> QED
  BY <1>5, <1>6

LEMMA CleanInv ==
  ASSUME IInv, Clean
  PROVE  IInv' /\ ElementosDe(elements') = {} /\ ElementosDe(new_table') = {}
<1>1. /\ TypeOK /\ pc = "libre" /\ table_max_size \in Nat \ {0}
      /\ elements' = TablaVacia(table_max_size) /\ table_current_size' = 0
      /\ elements_amount' = 0 /\ nulos' = 0 /\ nulos' \in 0 .. MaxNulos
      /\ UNCHANGED <<table_max_size, new_table, table_index, pc, ret>>
  BY ConstantesOK DEF IInv, TypeOK, Clean, resize
<1>2. EsTabla(elements', table_max_size) /\ \A j \in DOMAIN elements' : elements'[j] = << >>
  BY <1>1, VaciaSinElementos
<1>3. \A j \in DOMAIN new_table' : new_table'[j] = << >>
  BY <1>1, EnReposo
<1>4. /\ Lugares(elements') = {} /\ ElementosDe(elements') = {} /\ Usadas(elements') = {}
      /\ IsFiniteSet(Lugares(elements')) /\ Cardinality(Lugares(elements')) = 0
      /\ Cardinality(Usadas(elements')) = 0
      /\ SinRepetir(elements') /\ Puesta(elements', table_max_size')
  BY <1>2, TablaSinElementos
<1>5. /\ Lugares(new_table') = {} /\ ElementosDe(new_table') = {}
      /\ IsFiniteSet(Lugares(new_table')) /\ Cardinality(Lugares(new_table')) = 0
      /\ SinRepetir(new_table') /\ Puesta(new_table', 2 * table_max_size')
  BY <1>3, TablaSinElementos
<1>6. TypeOK'
  BY <1>1, <1>2 DEF TypeOK
<1>7. BienPuestas'
  BY <1>4, <1>5 DEF BienPuestas, Ajenas
<1>8. EnUso' /\ Cuantos'
  <2>1. EnUso'
    BY <1>1, <1>4 DEF EnUso
  <2>2. Cantidad' = 0
    BY <1>1 DEF Cantidad
  <2>3. Cuantos'
    BY <1>1, <1>4, <1>5, <2>2 DEF Cuantos
  <2> QED
    BY <2>1, <2>3
<1>9. UnoLibre' /\ Recorrido'
  BY <1>1, EnReposo DEF UnoLibre, Recorrido
<1> QED
  BY <1>4, <1>5, <1>6, <1>7, <1>8, <1>9 DEF IInv

-----------------------------------------------------------------------------
(* dictionary_resize                                                       *)

LEMMA MoverTablas ==
  ASSUME IInv, MoverElemento
  PROVE  \E e \in ElementosDe(elements) :
           /\ EsTabla(elements', table_max_size) /\ EsTabla(new_table', 2 * table_max_size)
           /\ Puesta(elements', table_max_size) /\ SinRepetir(elements')
           /\ Puesta(new_table', 2 * table_max_size) /\ SinRepetir(new_table')
           /\ ElementosDe(elements) = ElementosDe(elements') \union {e}
           /\ ElementosDe(new_table') = ElementosDe(new_table) \union {e}
           /\ \A y \in ElementosDe(elements') : y.hashcode # e.hashcode
           /\ e = elements[table_index][1]
           /\ table_index = e.hashcode % table_max_size
           /\ IndiceNuevo(e) \in {table_index, table_index + table_max_size}
           /\ elements'[table_index] = Tail(elements[table_index])
           /\ \A i \in 0 .. table_max_size - 1 : i # table_index => elements'[i] = elements[i]
           /\ \A i \in 0 .. 2 * table_max_size - 1 :
                i # IndiceNuevo(e) => new_table'[i] = new_table[i]
           /\ IsFiniteSet(Lugares(elements')) /\ IsFiniteSet(Lugares(new_table'))
           /\ Cardinality(Lugares(elements')) = Cardinality(Lugares(elements)) - 1
           /\ Cardinality(Lugares(new_table')) = Cardinality(Lugares(new_table)) + 1
           /\ table_current_size' = Cardinality(Usadas(new_table'))
           /\ table_current_size' \in Nat
<1> DEFINE i == table_index
           n == table_max_size
           e == Head(elements[i])
           c == IndiceNuevo(e)
<1>1. /\ n \in Nat \ {0} /\ EsTabla(elements, n) /\ EsTabla(new_table, 2 * n)
      /\ Puesta(elements, n) /\ SinRepetir(elements)
      /\ Puesta(new_table, 2 * n) /\ SinRepetir(new_table)
      /\ Ajenas(elements, new_table)
      /\ i \in 0 .. n - 1 /\ pc = "resize" /\ elements[i] # << >>
      /\ 2 * n \in Nat \ {0}
  BY DEF IInv, TypeOK, BienPuestas, MoverElemento
<1>2. /\ DOMAIN elements = 0 .. n - 1 /\ DOMAIN new_table = 0 .. 2 * n - 1
      /\ elements[i] \in Seq(Elementos)
  BY <1>1 DEF EsTabla
<1>3. /\ SinUno(elements[i], 1, Tail(elements[i])) /\ 1 \in DOMAIN elements[i]
      /\ e = elements[i][1]
  BY <1>1, <1>2, TailEsSinUno
<1>4. /\ e \in ElementosDe(elements) /\ e \in Elementos /\ e.hashcode \in Nat
  <2>1. e \in ElementosDe(elements)
    BY <1>1, <1>2, <1>3, Dentro
  <2> QED
    BY <1>1, <2>1, LosElementos
<1>5. e.hashcode % n = i /\ c = e.hashcode % (2 * n)
  BY <1>1, <1>2, <1>3 DEF Puesta, IndiceNuevo
<1>6. c \in 0 .. 2 * n - 1 /\ (c = i \/ c = i + n)
  <2> DEFINE h == e.hashcode
  <2>1. /\ h \in Nat /\ n \in Nat \ {0} /\ 2 * n \in Nat \ {0}
        /\ h % n = i /\ c = h % (2 * n)
    BY <1>1, <1>4, <1>5
  <2> HIDE DEF h, i, n, e, c
  <2>2. c \in 0 .. 2 * n - 1
    BY <2>1, Posicion
  <2>3. \/ h % (2 * n) = h % n
        \/ h % (2 * n) = (h % n) + n
    BY <2>1, PosicionDoble
  <2>4. c = i \/ c = i + n
    BY <2>1, <2>3
  <2> QED
    BY <2>2, <2>4
<1>7. /\ new_table' = [new_table EXCEPT ![c] = Append(@, e)]
      /\ table_current_size' = table_current_size + (IF new_table[c] = << >> THEN 1 ELSE 0)
      /\ elements' = [elements EXCEPT ![i] = Tail(@)]
  BY DEF MoverElemento
<1>8. IsFiniteSet(Lugares(elements)) /\ IsFiniteSet(Lugares(new_table))
  BY DEF IInv, Cuantos
<1>9. table_current_size = Cardinality(Usadas(new_table))
  BY <1>1 DEF IInv, EnUso
<1> HIDE DEF i, n, e, c
<1>10. /\ DOMAIN elements' = DOMAIN elements /\ elements'[i] = Tail(elements[i])
       /\ \A j \in DOMAIN elements : j # i => elements'[j] = elements[j]
  BY <1>1, <1>2, <1>7
<1>11. /\ DOMAIN new_table' = DOMAIN new_table /\ new_table'[c] = Append(new_table[c], e)
       /\ \A j \in DOMAIN new_table : j # c => new_table'[j] = new_table[j]
  BY <1>2, <1>6, <1>7
<1>12. /\ EsTabla(elements', n)
       /\ ElementosDe(elements) = ElementosDe(elements') \union {e}
       /\ IsFiniteSet(Lugares(elements'))
       /\ Cardinality(Lugares(elements')) = Cardinality(Lugares(elements)) - 1
       /\ Puesta(elements', n) /\ SinRepetir(elements')
       /\ \A y \in ElementosDe(elements') : y.hashcode # e.hashcode
  <2>1. SinUno(elements[i], 1, elements'[i])
    BY <1>3, <1>10
  <2>2. e.hashcode = elements[i][1].hashcode
    BY <1>3
  <2> QED
    BY <1>1, <1>3, <1>8, <1>10, <2>1, <2>2, Sacado
<1>13. \A x \in ElementosDe(new_table) : x.hashcode # e.hashcode
  BY <1>1, <1>4 DEF Ajenas
<1>14. /\ EsTabla(new_table', 2 * n)
       /\ ElementosDe(new_table') = ElementosDe(new_table) \union {e}
       /\ IsFiniteSet(Lugares(new_table'))
       /\ Cardinality(Lugares(new_table')) = Cardinality(Lugares(new_table)) + 1
       /\ Cardinality(Usadas(new_table')) =
              Cardinality(Usadas(new_table)) + (IF new_table[c] = << >> THEN 1 ELSE 0)
       /\ Puesta(new_table', 2 * n) /\ SinRepetir(new_table')
  <2>1. 2 * n \in Nat
    BY <1>1
  <2>2. e.hashcode % (2 * n) = c
    BY <1>5
  <2> QED
    BY <1>1, <1>4, <1>6, <1>8, <1>11, <1>13, <2>1, <2>2, Agregado
<1>15. table_current_size' = Cardinality(Usadas(new_table')) /\ table_current_size' \in Nat
  <2>1. table_current_size' = Cardinality(Usadas(new_table'))
    BY <1>7, <1>9, <1>14
  <2>2. 2 * n \in Nat
    BY <1>1
  <2> QED
    BY <1>14, <2>1, <2>2, UsadasFinito
<1>16. IndiceNuevo(e) \in {i, i + n}
  BY <1>6 DEF c
<1> QED
  BY <1>2, <1>3, <1>4, <1>5, <1>10, <1>11, <1>12, <1>14, <1>15, <1>16 DEF i, n, c

LEMMA MoverInv ==
  ASSUME IInv, MoverElemento
  PROVE  IInv'
<1>1. PICK e \in ElementosDe(elements) :
         /\ EsTabla(elements', table_max_size) /\ EsTabla(new_table', 2 * table_max_size)
         /\ Puesta(elements', table_max_size) /\ SinRepetir(elements')
         /\ Puesta(new_table', 2 * table_max_size) /\ SinRepetir(new_table')
         /\ ElementosDe(elements) = ElementosDe(elements') \union {e}
         /\ ElementosDe(new_table') = ElementosDe(new_table) \union {e}
         /\ \A y \in ElementosDe(elements') : y.hashcode # e.hashcode
         /\ e = elements[table_index][1]
         /\ table_index = e.hashcode % table_max_size
         /\ IndiceNuevo(e) \in {table_index, table_index + table_max_size}
         /\ elements'[table_index] = Tail(elements[table_index])
         /\ \A i \in 0 .. table_max_size - 1 : i # table_index => elements'[i] = elements[i]
         /\ \A i \in 0 .. 2 * table_max_size - 1 :
              i # IndiceNuevo(e) => new_table'[i] = new_table[i]
         /\ IsFiniteSet(Lugares(elements')) /\ IsFiniteSet(Lugares(new_table'))
         /\ Cardinality(Lugares(elements')) = Cardinality(Lugares(elements)) - 1
         /\ Cardinality(Lugares(new_table')) = Cardinality(Lugares(new_table)) + 1
         /\ table_current_size' = Cardinality(Usadas(new_table'))
         /\ table_current_size' \in Nat
  BY MoverTablas
<1>2. /\ pc = "resize" /\ table_index \in 0 .. table_max_size - 1
      /\ table_max_size \in Nat \ {0} /\ elements_amount \in Nat
      /\ elements[table_index] # << >> /\ elements[table_index] \in Seq(Elementos)
      /\ UNCHANGED <<table_max_size, elements_amount, table_index, pc, ret, nulos>>
      /\ nulos \in 0 .. MaxNulos /\ nulos \in Nat
      /\ ret \in Datos \union {NULL, "true", "false"}
  BY ConstantesOK DEF IInv, TypeOK, EsTabla, MoverElemento
<1>3. TypeOK'
  <2>1. (IF pc' = "resize" THEN 2 * table_max_size' ELSE 0) = 2 * table_max_size
    BY <1>2
  <2>2. EsTabla(new_table', IF pc' = "resize" THEN 2 * table_max_size' ELSE 0)
    BY <1>1, <2>1
  <2>3. table_index' \in 0 .. table_max_size' /\ pc' \in {"libre", "resize"}
    BY <1>2
  <2> QED
    BY <1>1, <1>2, <2>2, <2>3 DEF TypeOK
<1>4. BienPuestas'
  <2>1. Ajenas(elements', new_table')
    BY <1>1 DEF IInv, BienPuestas, Ajenas
  <2> QED
    BY <1>1, <1>2, <2>1 DEF BienPuestas
<1>5. EnUso'
  BY <1>1, <1>2 DEF EnUso
<1>6. Cuantos'
  <2> DEFINE a == Cardinality(Lugares(elements))
             b == Cardinality(Lugares(new_table))
             v == Cardinality(Lugares(elements'))
             w == Cardinality(Lugares(new_table'))
  <2>1. a \in Nat /\ b \in Nat
    BY FS_CardinalityType DEF IInv, Cuantos
  <2>2. v = a - 1 /\ w = b + 1
    BY <1>1
  <2>3. Cantidad = a + b + nulos
    BY DEF IInv, Cuantos
  <2>4. Cantidad' = Cantidad
    BY <1>2 DEF Cantidad
  <2> HIDE DEF a, b, v, w
  <2>5. v + w = a + b
    BY <2>1, <2>2
  <2>6. Cantidad' = v + w + nulos'
    BY <1>2, <2>3, <2>4, <2>5
  <2> QED
    BY <1>1, <2>6 DEF Cuantos, v, w
<1>7. UnoLibre'
  <2>1. PICK j \in 0 .. table_max_size - 1 : Solitaria(j)
    BY <1>2 DEF IInv, UnoLibre
  <2> DEFINE n == table_max_size
  <2>2. /\ j \in 0 .. 2 * n - 1 /\ j + n \in 0 .. 2 * n - 1
    BY <1>2
  <2>3. CASE j = table_index
    <3>1. /\ Len(elements[j]) = 1 /\ new_table[j] = << >> /\ new_table[j + n] = << >>
      BY <1>2, <2>1, <2>3 DEF Solitaria
    <3>2. elements'[j] = << >>
      <4>1. elements[j] \in Seq(Elementos) /\ elements[j] # << >>
        BY <1>2, <2>3
      <4>2. Tail(elements[j]) \in Seq(Elementos) /\ Len(Tail(elements[j])) = 0
        BY <3>1, <4>1, HeadTailProperties
      <4>3. Tail(elements[j]) = << >>
        BY <4>2, EmptySeq
      <4> QED
        BY <1>1, <2>3, <4>3
    <3>3. new_table'[j] = << >> \/ new_table'[j + n] = << >>
      <4>1. IndiceNuevo(e) # j \/ IndiceNuevo(e) # j + n
        BY <1>2
      <4> QED
        BY <1>1, <2>2, <3>1, <4>1
    <3> QED
      BY <1>2, <2>1, <3>2, <3>3 DEF UnoLibre, Solitaria
  <2>4. CASE j # table_index
    <3>1. elements'[j] = elements[j]
      BY <1>1, <2>4
    <3>2. IndiceNuevo(e) # j /\ IndiceNuevo(e) # j + n
      <4>1. \A x \in {table_index, table_index + n} : x # j /\ x # j + n
        BY <1>2, <2>4
      <4> QED
        BY <1>1, <4>1
    <3>3. new_table'[j] = new_table[j] /\ new_table'[j + n] = new_table[j + n]
      BY <1>1, <2>2, <3>2
    <3> QED
      BY <1>2, <2>1, <3>1, <3>3 DEF UnoLibre, Solitaria
  <2> QED
    BY <2>3, <2>4
<1>8. Recorrido'
  <2>1. \A j \in 0 .. table_index - 1 : j \in 0 .. table_max_size - 1 /\ j # table_index
    BY <1>2
  <2> QED
    BY <1>1, <1>2, <2>1 DEF IInv, Recorrido
<1> QED
  BY <1>3, <1>4, <1>5, <1>6, <1>7, <1>8 DEF IInv

LEMMA SiguienteInv ==
  ASSUME IInv, SiguienteCadena
  PROVE  IInv'
<1>1. /\ pc = "resize" /\ table_index < table_max_size /\ elements[table_index] = << >>
      /\ table_index' = table_index + 1
      /\ UNCHANGED <<elements, table_max_size, table_current_size, elements_amount, new_table,
                     pc, ret, nulos>>
      /\ TypeOK /\ table_index \in 0 .. table_max_size /\ table_max_size \in Nat
  BY DEF IInv, TypeOK, SiguienteCadena, tabla
<1>2. TypeOK'
  <2>1. table_index' \in 0 .. table_max_size'
    BY <1>1
  <2> QED
    BY <1>1, <2>1 DEF TypeOK
<1>3. BienPuestas' /\ EnUso' /\ Cuantos' /\ UnoLibre'
  BY <1>1 DEF IInv, BienPuestas, EnUso, Cuantos, Cantidad, UnoLibre, Solitaria
<1>4. Recorrido'
  <2>1. \A j \in 0 .. table_index' - 1 : j \in 0 .. table_index - 1 \/ j = table_index
    BY <1>1
  <2> QED
    BY <1>1, <2>1 DEF IInv, Recorrido
<1> QED
  BY <1>2, <1>3, <1>4 DEF IInv

\* When the resize is over nothing is left in the old table.
LEMMA TablaRecorrida ==
  ASSUME IInv, table_index = table_max_size
  PROVE  ElementosDe(elements) = {} /\ Lugares(elements) = {} /\ Cardinality(Lugares(elements)) = 0
<1>1. \A j \in DOMAIN elements : elements[j] = << >>
  BY DEF IInv, TypeOK, EsTabla, Recorrido
<1> QED
  BY <1>1, TablaSinElementos

LEMMA FinInv ==
  ASSUME IInv, FinDelResize
  PROVE  IInv'
<1>1. /\ pc = "resize" /\ table_index = table_max_size
      /\ elements' = new_table /\ table_max_size' = 2 * table_max_size
      /\ elements_amount' = elements_amount + 1 /\ new_table' = TablaVacia(0)
      /\ table_index' = 0 /\ pc' = "libre"
      /\ UNCHANGED <<table_current_size, ret, nulos>>
      /\ nulos \in 0 .. MaxNulos /\ nulos \in Nat
      /\ table_max_size \in Nat \ {0} /\ 2 * table_max_size \in Nat \ {0}
      /\ elements_amount \in Nat /\ table_current_size \in Nat
      /\ EsTabla(new_table, 2 * table_max_size)
      /\ ret \in Datos \union {NULL, "true", "false"}
  BY ConstantesOK DEF IInv, TypeOK, FinDelResize
<1>2. EsTabla(new_table', 0) /\ \A j \in DOMAIN new_table' : new_table'[j] = << >>
  BY <1>1, VaciaSinElementos
<1>3. /\ Lugares(new_table') = {} /\ ElementosDe(new_table') = {}
      /\ IsFiniteSet(Lugares(new_table')) /\ Cardinality(Lugares(new_table')) = 0
      /\ SinRepetir(new_table') /\ \A m : Puesta(new_table', m)
  BY <1>2, TablaSinElementos
<1>4. TypeOK'
  <2>1. EsTabla(elements', table_max_size')
    BY <1>1
  <2>2. EsTabla(new_table', IF pc' = "resize" THEN 2 * table_max_size' ELSE 0)
    BY <1>1, <1>2
  <2>3. table_index' \in 0 .. table_max_size' /\ pc' \in {"libre", "resize"}
    BY <1>1
  <2> QED
    BY <1>1, <2>1, <2>2, <2>3 DEF TypeOK
<1>5. BienPuestas'
  BY <1>1, <1>3 DEF IInv, BienPuestas, Ajenas
<1>6. table_current_size = Cardinality(Usadas(new_table))
  BY <1>1 DEF IInv, EnUso
<1>7. EnUso'
  BY <1>1, <1>6 DEF EnUso
<1>8. Cuantos'
  <2> DEFINE n == Cardinality(Lugares(new_table))
  <2>1. n \in Nat /\ IsFiniteSet(Lugares(new_table))
    BY FS_CardinalityType DEF IInv, Cuantos
  <2>2. elements_amount + 1 = 0 + n + nulos
    BY <1>1, TablaRecorrida DEF IInv, Cuantos, Cantidad
  <2>3. Cantidad' = elements_amount + 1
    BY <1>1 DEF Cantidad
  <2>4. n = Cardinality(Lugares(elements'))
    BY <1>1
  <2> HIDE DEF n
  <2>5. Cantidad' = n + 0 + nulos'
    BY <1>1, <2>1, <2>2, <2>3
  <2> QED
    BY <1>1, <1>3, <2>1, <2>4, <2>5 DEF Cuantos
<1>9. UnoLibre'
  <2>1. PICK j \in 0 .. table_max_size - 1 :
          new_table[j] = << >> \/ new_table[j + table_max_size] = << >>
    BY <1>1 DEF IInv, UnoLibre, Solitaria
  <2>2. j \in 0 .. 2 * table_max_size - 1 /\ j + table_max_size \in 0 .. 2 * table_max_size - 1
    BY <1>1
  <2>3. \E i \in 0 .. 2 * table_max_size - 1 : i \notin Usadas(new_table)
    BY <2>1, <2>2 DEF Usadas
  <2>4. Cardinality(Usadas(new_table)) < 2 * table_max_size
    BY <1>1, <2>3, UsadasFinito
  <2> QED
    BY <1>1, <1>6, <2>4 DEF UnoLibre
<1>10. Recorrido'
  BY <1>1 DEF Recorrido
<1> QED
  BY <1>4, <1>5, <1>7, <1>8, <1>9, <1>10 DEF IInv

-----------------------------------------------------------------------------
(* Queries, and the invariant                                              *)

LEMMA ConsultaInv ==
  ASSUME IInv, NEW k \in Claves, Get(k) \/ HasKey(k)
  PROVE  IInv'
<1>1. UNCHANGED <<elements, table_max_size, table_current_size, elements_amount, new_table,
                  table_index, pc, nulos>>
  BY DEF Get, HasKey, tabla, resize
<1>2. ret' \in Datos \union {NULL, "true", "false"}
  BY LoQueDaGet DEF Get, HasKey, IInv
<1> QED
  BY <1>1, <1>2 DEF IInv, TypeOK, BienPuestas, EnUso, Cuantos, Cantidad, UnoLibre, Solitaria,
       Recorrido

LEMMA Empieza == Init => IInv
<1> SUFFICES ASSUME Init PROVE IInv
  OBVIOUS
<1>1. /\ TamanioInicial \in Nat \ {0} /\ table_max_size = TamanioInicial
      /\ elements = TablaVacia(TamanioInicial) /\ table_current_size = 0
      /\ elements_amount = 0 /\ new_table = TablaVacia(0) /\ table_index = 0
      /\ pc = "libre" /\ ret = NULL /\ nulos = 0 /\ nulos \in 0 .. MaxNulos
  BY ConstantesOK DEF Init
<1>2. /\ EsTabla(elements, table_max_size) /\ EsTabla(new_table, 0)
      /\ \A j \in DOMAIN elements : elements[j] = << >>
      /\ \A j \in DOMAIN new_table : new_table[j] = << >>
  BY <1>1, VaciaSinElementos
<1>3. /\ Lugares(elements) = {} /\ ElementosDe(elements) = {}
      /\ IsFiniteSet(Lugares(elements)) /\ Cardinality(Lugares(elements)) = 0
      /\ Cardinality(Usadas(elements)) = 0
      /\ SinRepetir(elements) /\ Puesta(elements, table_max_size)
  BY <1>2, TablaSinElementos
<1>4. /\ Lugares(new_table) = {} /\ IsFiniteSet(Lugares(new_table))
      /\ Cardinality(Lugares(new_table)) = 0
      /\ SinRepetir(new_table) /\ Puesta(new_table, 2 * table_max_size)
  BY <1>2, TablaSinElementos
<1>5. TypeOK
  BY <1>1, <1>2 DEF TypeOK
<1>6. BienPuestas
  BY <1>3, <1>4 DEF BienPuestas, Ajenas
<1>7. EnUso /\ Cuantos
  <2>1. Cantidad = 0
    BY <1>1 DEF Cantidad
  <2> QED
    BY <1>1, <1>3, <1>4, <2>1 DEF EnUso, Cuantos
<1>8. UnoLibre /\ Recorrido
  BY <1>1 DEF UnoLibre, Recorrido
<1> QED
  BY <1>5, <1>6, <1>7, <1>8 DEF IInv

LEMMA CadaPaso == IInv /\ [Next]_vars => IInv'
<1> SUFFICES ASSUME IInv, [Next]_vars PROVE IInv'
  OBVIOUS
<1>1. ASSUME NEW k \in Claves, NEW d \in Datos, Put(k, d) PROVE IInv'
  BY <1>1, ActualizarInv, InsertarInv DEF Put
<1>2. ASSUME NEW k \in Claves, Get(k) \/ HasKey(k) \/ Remove(k) PROVE IInv'
  BY <1>2, ConsultaInv, RemoveInv
<1>3. CASE Clean
  BY <1>3, CleanInv
<1>4. CASE PasoDelResize
  BY <1>4, MoverInv, SiguienteInv, FinInv DEF PasoDelResize
<1>5. CASE UNCHANGED vars
  BY <1>5 DEF vars, tabla, resize, IInv, TypeOK, BienPuestas, EnUso, Cuantos, Cantidad, UnoLibre,
       Solitaria, Recorrido
<1> QED
  BY <1>1, <1>2, <1>3, <1>4, <1>5 DEF Next

\* Through every call and every step of a resize (dictionary_put, dictionary_resize,
\* dictionary_remove, dictionary_clean) the invariant holds.
THEOREM Invariante == Spec => []IInv
BY Empieza, CadaPaso, PTL DEF Spec

\* The table and the one under construction have as many chains as their sizes say, and no
\* counter goes below zero.
THEOREM TipoCorrecto == Spec => []TypeOK
<1>1. IInv => TypeOK
  BY DEF IInv
<1> QED
  BY <1>1, Invariante, PTL

\* Every element is in the chain of its code and there is one for each code, in the middle of
\* a resize too (dictionary_resize, dictionary_get_element).
THEOREM SiempreBienUbicados == Spec => []BienUbicados
<1>1. IInv => BienUbicados
  BY UbicadosPorCadena DEF IInv
<1> QED
  BY <1>1, Invariante, PTL

\* dictionary_put, its resize, dictionary_remove and dictionary_clean count the chains in use
\* exactly and leave one free, and dictionary_size is wrong just when an element with a NULL
\* was removed since the last cleaning (dictionary_remove takes it for an absent key).
THEOREM CuentasCorrectas == Spec => []CuentasExactas
<1>1. IInv => CuentasExactas
  <2> SUFFICES ASSUME IInv PROVE CuentasExactas
    OBVIOUS
  <2> DEFINE a == Cardinality(Lugares(elements))
             b == Cardinality(Lugares(new_table))
             x == IF pc = "resize" THEN 1 ELSE 0
  <2>1. /\ a \in Nat /\ b \in Nat /\ x \in Nat /\ elements_amount \in Nat /\ nulos \in Nat
        /\ elements_amount + x = a + b + nulos
    BY FS_CardinalityType, ConstantesOK DEF IInv, TypeOK, Cuantos, Cantidad
  <2>2. /\ table_current_size = Cardinality(Usadas(Llenandose))
        /\ pc = "libre" => table_current_size < table_max_size
    BY EnReposo DEF IInv, EnUso, Llenandose
  <2>3. Contados = a + b - x
    BY DEF Contados
  <2> HIDE DEF a, b, x
  <2>4. elements_amount >= Contados /\ (elements_amount = Contados <=> nulos = 0)
    BY <2>1, <2>3
  <2> QED
    BY <2>2, <2>4 DEF CuentasExactas
<1> QED
  BY <1>1, Invariante, PTL

-----------------------------------------------------------------------------
(* The map a caller sees                                                   *)

Valor(T, k) ==
  IF \E e \in T : e.key = k THEN (CHOOSE e \in T : e.key = k).data ELSE Ausente

UnoSolo(T) ==
  \A x, y \in T : x.hashcode = Hash[x.key] /\ (x.hashcode = y.hashcode => x = y)

LEMMA ValorEs ==
  ASSUME NEW T, UnoSolo(T), NEW k
  PROVE  /\ \A x \in T : x.key = k => Valor(T, k) = x.data
         /\ (\A x \in T : x.key # k) => Valor(T, k) = Ausente
<1>1. ASSUME NEW x \in T, x.key = k
      PROVE  Valor(T, k) = x.data
  <2> DEFINE c == CHOOSE e \in T : e.key = k
  <2>1. c \in T /\ c.key = k
    BY <1>1
  <2>2. c = x
    BY <1>1, <2>1 DEF UnoSolo
  <2>3. Valor(T, k) = c.data
    BY <1>1 DEF Valor
  <2> QED
    BY <2>2, <2>3
<1>2. (\A x \in T : x.key # k) => Valor(T, k) = Ausente
  BY DEF Valor
<1> QED
  BY <1>1, <1>2

\* S and T have the same elements but for those of the code of k.
SalvoCodigo(S, T, k) == \A x : x.hashcode # Hash[k] => (x \in S <=> x \in T)

\* They are the same map for the keys of other codes.
LEMMA LasDemas ==
  ASSUME NEW S, UnoSolo(S), NEW T, UnoSolo(T), NEW k, SalvoCodigo(S, T, k),
         NEW j, Hash[j] # Hash[k]
  PROVE  Valor(T, j) = Valor(S, j)
<1>1. CASE \E x \in S : x.key = j
  <2>1. PICK x \in S : x.key = j
    BY <1>1
  <2>2. x.hashcode = Hash[j]
    BY <2>1 DEF UnoSolo
  <2>3. x \in T
    BY <2>1, <2>2 DEF SalvoCodigo
  <2> QED
    BY <2>1, <2>3, ValorEs
<1>2. CASE \A x \in S : x.key # j
  <2>1. ASSUME NEW x \in T, x.key = j PROVE FALSE
    <3>1. x.hashcode = Hash[j]
      BY <2>1 DEF UnoSolo
    <3> QED
      BY <1>2, <2>1, <3>1 DEF SalvoCodigo
  <2> QED
    BY <1>2, <2>1, ValorEs
<1> QED
  BY <1>1, <1>2

\* If besides no other key has its code, they differ in k alone.
SoloClave(T, k) == \A x \in T : x.hashcode = Hash[k] => x.key = k

LEMMA MapasQueDifieren ==
  ASSUME NEW S, UnoSolo(S), NEW T, UnoSolo(T), NEW k \in Claves, SalvoCodigo(S, T, k),
         SoloClave(S, k), SoloClave(T, k), NEW v, Valor(T, k) = v
  PROVE  [j \in Claves |-> Valor(T, j)] = [[j \in Claves |-> Valor(S, j)] EXCEPT ![k] = v]
<1>1. ASSUME NEW j \in Claves, j # k
      PROVE  Valor(T, j) = Valor(S, j)
  <2>1. CASE Hash[j] # Hash[k]
    BY <2>1, LasDemas
  <2>2. CASE Hash[j] = Hash[k]
    <3>1. (\A x \in S : x.key # j) /\ (\A x \in T : x.key # j)
      BY <1>1, <2>2 DEF UnoSolo, SoloClave
    <3> QED
      BY <3>1, ValorEs
  <2> QED
    BY <2>1, <2>2
<1> QED
  BY <1>1

LEMMA UnoSoloEnDosTablas ==
  ASSUME NEW t, NEW n, EsTabla(t, n), NEW u, NEW m, EsTabla(u, m),
         NEW a, Puesta(t, a), SinRepetir(t), NEW b, Puesta(u, b), SinRepetir(u), Ajenas(t, u)
  PROVE  UnoSolo(ElementosDe(t) \union ElementosDe(u))
<1>1. \A x \in ElementosDe(t) \union ElementosDe(u) : x.hashcode = Hash[x.key]
  BY LosElementos
<1>2. \A x, y \in ElementosDe(t) : x.hashcode = y.hashcode => x = y
  BY UnoPorCodigo
<1>3. \A x, y \in ElementosDe(u) : x.hashcode = y.hashcode => x = y
  BY UnoPorCodigo
<1> QED
  BY <1>1, <1>2, <1>3 DEF UnoSolo, Ajenas

LEMMA ElContenido ==
  ASSUME IInv
  PROVE  /\ Todos = ElementosDe(elements) \union ElementosDe(new_table)
         /\ UnoSolo(Todos)
         /\ contenido = [j \in Claves |-> Valor(Todos, j)]
<1>1. Todos = ElementosDe(elements) \union ElementosDe(new_table)
  BY DEF Todos, ElementosDe
<1>2. UnoSolo(Todos)
  BY <1>1, UnoSoloEnDosTablas DEF IInv, TypeOK, BienPuestas
<1>3. contenido = [j \in Claves |-> Valor(Todos, j)]
  BY DEF contenido, Valor
<1> QED
  BY <1>1, <1>2, <1>3

LEMMA ElContenidoDespues ==
  ASSUME IInv'
  PROVE  /\ Todos' = ElementosDe(elements') \union ElementosDe(new_table')
         /\ UnoSolo(Todos')
         /\ contenido' = [j \in Claves |-> Valor(Todos', j)]
<1>1. Todos' = ElementosDe(elements') \union ElementosDe(new_table')
  BY DEF Todos, ElementosDe
<1>2. UnoSolo(Todos')
  BY <1>1, UnoSoloEnDosTablas DEF IInv, TypeOK, BienPuestas
<1>3. contenido' = [j \in Claves |-> Valor(Todos', j)]
  BY DEF contenido, Valor
<1> QED
  BY <1>1, <1>2, <1>3

LEMMA SinConfundir ==
  ASSUME NEW k, ~Confundida(k)
  PROVE  SoloClave(Todos, k)
BY DEF Confundida, SoloClave

\* What a call for a key that is not confused finds is what the map says.
LEMMA LoQueVe ==
  ASSUME Ausente \notin Datos, IInv, pc = "libre", NEW k \in Claves, ~Confundida(k)
  PROVE  /\ Esta(k) <=> contenido[k] # Ausente
         /\ DatoDe(k) = Mapa!DatoDe(k)
<1>1. /\ TypeOK /\ BienPuestas /\ EsTabla(elements, table_max_size)
  BY DEF IInv, TypeOK
<1>2. Todos = ElementosDe(elements) /\ UnoSolo(Todos) /\ SoloClave(Todos, k)
  BY ElContenido, EnReposo, SinConfundir
<1>3. contenido[k] = Valor(Todos, k)
  BY ElContenido
<1>4. CASE Esta(k)
  <2>1. PICK p : p \in Coinciden(k)
    BY <1>4 DEF Esta
  <2> DEFINE x == elements[Indice(k)][p]
  <2>2. Indice(k) \in DOMAIN elements /\ p \in DOMAIN elements[Indice(k)] /\ x.hashcode = Hash[k]
    BY <1>1, <2>1, LaBusqueda, LaPosicion DEF EsTabla
  <2>3. x \in ElementosDe(elements)
    BY <2>2, Dentro
  <2>4. DatoDe(k) = x.data
    BY <1>1, <2>1, LoQueDaGet
  <2>5. x.data \in Datos
    BY <1>1, <2>3, LosElementos
  <2>6. x.key = k
    BY <1>2, <2>2, <2>3 DEF SoloClave
  <2>7. contenido[k] = x.data
    BY <1>2, <1>3, <2>3, <2>6, ValorEs
  <2> QED
    BY <1>4, <2>4, <2>5, <2>7 DEF Mapa!DatoDe
<1>5. CASE ~Esta(k)
  <2>1. \A x \in Todos : x.hashcode # Hash[k]
    BY <1>1, <1>2, <1>5, LaBusqueda
  <2>2. \A x \in Todos : x.key # k
    BY <1>2, <2>1 DEF UnoSolo
  <2>3. contenido[k] = Ausente
    BY <1>2, <1>3, <2>2, ValorEs
  <2>4. DatoDe(k) = NULL
    BY <1>1, <1>5, LoQueDaGet
  <2> QED
    BY <1>5, <2>3, <2>4 DEF Mapa!DatoDe
<1> QED
  BY <1>4, <1>5

\* No call for k changes what the map says of a key of another code.
Marco(k) == \A j \in Claves : Hash[j] # Hash[k] => contenido'[j] = contenido[j]

LEMMA MarcoDe ==
  ASSUME IInv, IInv', NEW k \in Claves, SalvoCodigo(Todos, Todos', k)
  PROVE  Marco(k)
<1> DEFINE S == Todos
           T == Todos'
<1>1. /\ UnoSolo(S) /\ UnoSolo(T) /\ SalvoCodigo(S, T, k)
      /\ contenido = [j \in Claves |-> Valor(S, j)]
      /\ contenido' = [j \in Claves |-> Valor(T, j)]
  BY ElContenido, ElContenidoDespues
<1> HIDE DEF S, T
<1>2. \A j \in Claves : Hash[j] # Hash[k] => Valor(T, j) = Valor(S, j)
  BY <1>1, LasDemas
<1> QED
  BY <1>1, <1>2 DEF Marco

LEMMA SoloCambia ==
  ASSUME IInv, IInv', NEW k \in Claves, SalvoCodigo(Todos, Todos', k),
         SoloClave(Todos, k), SoloClave(Todos', k), NEW v, Valor(Todos', k) = v
  PROVE  contenido' = [contenido EXCEPT ![k] = v]
<1> DEFINE S == Todos
           T == Todos'
<1>1. /\ UnoSolo(S) /\ UnoSolo(T) /\ SalvoCodigo(S, T, k)
      /\ SoloClave(S, k) /\ SoloClave(T, k) /\ Valor(T, k) = v
      /\ contenido = [j \in Claves |-> Valor(S, j)]
      /\ contenido' = [j \in Claves |-> Valor(T, j)]
  BY ElContenido, ElContenidoDespues
<1> HIDE DEF S, T
<1>2. [j \in Claves |-> Valor(T, j)] = [[j \in Claves |-> Valor(S, j)] EXCEPT ![k] = v]
  BY <1>1, MapasQueDifieren
<1> QED
  BY <1>1, <1>2

LEMMA PutEnElMapa ==
  ASSUME IInv, NEW k \in Claves, NEW d \in Datos, Put(k, d)
  PROVE  /\ Marco(k)
         /\ ~Confundida(k) => Mapa!Put(k, d)
<1>1. ret' = ret /\ IInv'
  BY InsertarInv, ActualizarInv DEF Put, Insertar, Actualizar
<1>2. /\ SalvoCodigo(Todos, Todos', k)
      /\ \E e \in Todos' : /\ e.hashcode = Hash[k] /\ e.data = d
                           /\ ~Confundida(k) => e.key = k
  <2>1. CASE Insertar(k, d)
    <3>1. Nuevo(k, d).hashcode = Hash[k] /\ Nuevo(k, d).data = d /\ Nuevo(k, d).key = k
      BY DEF Nuevo
    <3>2. ElementosDe(elements') = ElementosDe(elements) \union {Nuevo(k, d)}
      BY <2>1, InsertarTabla
    <3>3. ElementosDe(new_table) = {}
      BY <2>1, EnReposo DEF Insertar
    <3>4. ElementosDe(new_table') = {}
      <4>1. CASE new_table' = new_table
        BY <3>3, <4>1
      <4>2. CASE new_table' = TablaVacia(2 * table_max_size)
        BY <4>2, VaciaSinElementos, TablaSinElementos DEF IInv, TypeOK
      <4> QED
        BY <2>1, <4>1, <4>2 DEF Insertar
    <3>5. Todos = ElementosDe(elements) /\ Todos' = ElementosDe(elements) \union {Nuevo(k, d)}
      BY <1>1, <3>2, <3>3, <3>4, ElContenido, ElContenidoDespues
    <3> HIDE DEF Nuevo
    <3> QED
      BY <3>1, <3>5 DEF SalvoCodigo
  <2>2. CASE Actualizar(k, d)
    <3>1. PICK x \in ElementosDe(elements), e \in ElementosDe(elements') :
            /\ x.hashcode = Hash[k] /\ e.hashcode = Hash[k] /\ e.data = d /\ e.key = x.key
            /\ ElementosDe(elements') \union {x} = ElementosDe(elements) \union {e}
      BY <2>2, ActualizarTabla
    <3>2. new_table' = new_table
      BY <2>2 DEF Actualizar, resize
    <3>3. /\ Todos = ElementosDe(elements) \union ElementosDe(new_table)
          /\ Todos' = ElementosDe(elements') \union ElementosDe(new_table)
      BY <1>1, <3>2, ElContenido, ElContenidoDespues
    <3>4. SalvoCodigo(Todos, Todos', k)
      BY <3>1, <3>3 DEF SalvoCodigo
    <3>5. x \in Todos /\ e \in Todos'
      BY <3>1, <3>3
    <3>6. ~Confundida(k) => e.key = k
      BY <3>1, <3>5 DEF Confundida
    <3> QED
      BY <3>1, <3>4, <3>5, <3>6
  <2> QED
    BY <2>1, <2>2 DEF Put
<1>3. ASSUME ~Confundida(k)
      PROVE  contenido' = [contenido EXCEPT ![k] = d]
  <2>1. UnoSolo(Todos')
    BY <1>1, ElContenidoDespues
  <2>2. PICK e \in Todos' : e.hashcode = Hash[k] /\ e.data = d /\ e.key = k
    BY <1>2, <1>3
  <2>3. Valor(Todos', k) = d
    BY <2>1, <2>2, ValorEs
  <2>4. SoloClave(Todos', k)
    BY <2>1, <2>2 DEF UnoSolo, SoloClave
  <2> QED
    BY <1>1, <1>2, <1>3, <2>3, <2>4, SinConfundir, SoloCambia
<1> QED
  BY <1>1, <1>2, <1>3, MarcoDe DEF Mapa!Put

LEMMA RemoveEnElMapa ==
  ASSUME Ausente \notin Datos, IInv, NEW k \in Claves, Remove(k)
  PROVE  /\ Marco(k)
         /\ ~Confundida(k) => Mapa!Remove(k)
<1>1. IInv' /\ pc = "libre" /\ new_table' = new_table /\ ret' = DatoDe(k)
  BY RemoveInv DEF Remove, resize
<1>2. /\ SalvoCodigo(Todos, Todos', k)
      /\ \A x \in Todos' : x.hashcode # Hash[k]
  <2>1. /\ Todos = ElementosDe(elements) /\ Todos' = ElementosDe(elements')
    <3>1. ElementosDe(new_table) = {}
      BY <1>1, EnReposo
    <3> QED
      BY <1>1, <3>1, ElContenido, ElContenidoDespues
  <2>2. CASE Esta(k)
    <3>1. PICK x \in ElementosDe(elements) :
              /\ x.hashcode = Hash[k]
              /\ ElementosDe(elements) = ElementosDe(elements') \union {x}
              /\ \A y \in ElementosDe(elements') : y.hashcode # Hash[k]
      BY <2>2, QuitarTabla
    <3> QED
      BY <2>1, <3>1 DEF SalvoCodigo
  <2>3. CASE ~Esta(k)
    <3>1. elements' = elements
      BY <2>3 DEF Remove
    <3>2. \A x \in ElementosDe(elements) : x.hashcode # Hash[k]
      BY <2>3, LaBusqueda DEF IInv
    <3> QED
      BY <2>1, <3>1, <3>2 DEF SalvoCodigo
  <2> QED
    BY <2>2, <2>3
<1>3. ASSUME ~Confundida(k)
      PROVE  Mapa!Remove(k)
  <2>1. UnoSolo(Todos')
    BY <1>1, ElContenidoDespues
  <2>2. \A x \in Todos' : x.key # k
    BY <1>2, <2>1 DEF UnoSolo
  <2>3. Valor(Todos', k) = Ausente
    BY <2>1, <2>2, ValorEs
  <2>4. SoloClave(Todos', k)
    BY <1>2 DEF SoloClave
  <2>5. contenido' = [contenido EXCEPT ![k] = Ausente]
    BY <1>1, <1>2, <1>3, <2>3, <2>4, SinConfundir, SoloCambia
  <2>6. ret' = Mapa!DatoDe(k)
    BY <1>1, <1>3, LoQueVe
  <2> QED
    BY <2>5, <2>6 DEF Mapa!Remove
<1> QED
  BY <1>1, <1>2, <1>3, MarcoDe

\* A map does not see the steps of a resize.
LEMMA ResizeInvisible ==
  ASSUME IInv, PasoDelResize
  PROVE  UNCHANGED <<contenido, ret>>
<1>1. IInv' /\ ret' = ret
  BY MoverInv, SiguienteInv, FinInv
     DEF PasoDelResize, MoverElemento, SiguienteCadena, FinDelResize
<1>2. Todos' = Todos
  <2>1. CASE MoverElemento
    <3>1. PICK e \in ElementosDe(elements) :
            /\ ElementosDe(elements) = ElementosDe(elements') \union {e}
            /\ ElementosDe(new_table') = ElementosDe(new_table) \union {e}
      BY <2>1, MoverTablas
    <3> QED
      BY <1>1, <3>1, ElContenido, ElContenidoDespues
  <2>2. CASE SiguienteCadena
    BY <1>1, <2>2, ElContenido, ElContenidoDespues DEF SiguienteCadena, tabla
  <2>3. CASE FinDelResize
    <3>1. ElementosDe(elements) = {} /\ elements' = new_table
      BY <2>3, TablaRecorrida DEF FinDelResize
    <3>2. ElementosDe(new_table') = {}
      BY <2>3, VaciaSinElementos, TablaSinElementos DEF FinDelResize
    <3> QED
      BY <1>1, <3>1, <3>2, ElContenido, ElContenidoDespues
  <2> QED
    BY <2>1, <2>2, <2>3 DEF PasoDelResize
<1> QED
  BY <1>1, <1>2, ElContenido, ElContenidoDespues

LEMMA ConsultaNoCambia ==
  ASSUME NEW k, Get(k) \/ HasKey(k)
  PROVE  contenido' = contenido /\ pc = "libre"
<1>1. UNCHANGED <<elements, new_table>> /\ pc = "libre"
  BY DEF Get, HasKey, tabla, resize
<1>2. Todos' = Todos
  BY <1>1 DEF Todos
<1> QED
  BY <1>1, <1>2 DEF contenido

PasoDeMapa == Mapa!Next \/ \E k \in Claves : LlamadaConfundida(k)

LEMMA PasoEnElMapa ==
  ASSUME Ausente \notin Datos, IInv, [Next]_vars
  PROVE  [PasoDeMapa]_<<contenido, ret>>
<1>1. ASSUME NEW k \in Claves, Llamada(k), Confundida(k)
      PROVE  PasoDeMapa
  <2>1. Marco(k)
    <3>1. CASE \E d \in Datos : Put(k, d)
      BY <3>1, PutEnElMapa
    <3>2. CASE Get(k) \/ HasKey(k)
      BY <3>2, ConsultaNoCambia DEF Marco
    <3>3. CASE Remove(k)
      BY <3>3, RemoveEnElMapa
    <3> QED
      BY <1>1, <3>1, <3>2, <3>3 DEF Llamada
  <2>2. LlamadaConfundida(k)
    BY <1>1, <2>1 DEF LlamadaConfundida, Marco
  <2> QED
    BY <2>2 DEF PasoDeMapa
<1>2. ASSUME NEW k \in Claves, Llamada(k), ~Confundida(k)
      PROVE  Mapa!Next
  <2>1. CASE \E d \in Datos : Put(k, d)
    <3>1. PICK d \in Datos : Put(k, d)
      BY <2>1
    <3>2. Mapa!Put(k, d)
      BY <1>2, <3>1, PutEnElMapa
    <3> QED
      BY <3>2 DEF Mapa!Next
  <2>2. CASE Get(k)
    <3>1. contenido' = contenido /\ DatoDe(k) = Mapa!DatoDe(k)
      BY <1>2, <2>2, ConsultaNoCambia, LoQueVe
    <3>2. Mapa!Get(k)
      BY <2>2, <3>1 DEF Get, Mapa!Get
    <3> QED
      BY <3>2 DEF Mapa!Next
  <2>3. CASE HasKey(k)
    <3>1. contenido' = contenido /\ (Esta(k) <=> contenido[k] # Ausente)
      BY <1>2, <2>3, ConsultaNoCambia, LoQueVe
    <3>2. Mapa!HasKey(k)
      BY <2>3, <3>1 DEF HasKey, Mapa!HasKey
    <3> QED
      BY <3>2 DEF Mapa!Next
  <2>4. CASE Remove(k)
    BY <1>2, <2>4, RemoveEnElMapa DEF Mapa!Next
  <2> QED
    BY <1>2, <2>1, <2>2, <2>3, <2>4 DEF Llamada
<1>3. ASSUME Clean
      PROVE  Mapa!Next
  <2>1. IInv' /\ Todos' = {} /\ ret' = ret
    BY <1>3, CleanInv, ElContenidoDespues DEF Clean
  <2>2. \A k : Valor({}, k) = Ausente
    BY DEF Valor
  <2>3. contenido' = [k \in Claves |-> Ausente]
    BY <2>1, <2>2, ElContenidoDespues
  <2> QED
    BY <2>1, <2>3 DEF Mapa!Next, Mapa!Clean
<1>4. ASSUME UNCHANGED vars
      PROVE  UNCHANGED <<contenido, ret>>
  <2>1. UNCHANGED <<elements, new_table, ret>>
    BY <1>4 DEF vars, tabla, resize
  <2>2. Todos' = Todos
    BY <2>1 DEF Todos
  <2> QED
    BY <2>1, <2>2 DEF contenido
<1>5. \/ \E k \in Claves : Llamada(k)
      \/ Clean \/ PasoDelResize \/ UNCHANGED vars
  BY DEF Next, Llamada
<1> QED
  BY <1>1, <1>2, <1>3, <1>4, <1>5, ResizeInvisible DEF PasoDeMapa

LEMMA EmpiezaElMapa == Init => Mapa!Init
<1> SUFFICES ASSUME Init PROVE Mapa!Init
  OBVIOUS
<1>1. /\ IInv /\ ret = NULL
      /\ elements = TablaVacia(TamanioInicial) /\ new_table = TablaVacia(0)
      /\ TamanioInicial \in Nat
  BY Empieza, ConstantesOK DEF Init
<1>2. ElementosDe(elements) = {} /\ ElementosDe(new_table) = {}
  BY <1>1, VaciaSinElementos, TablaSinElementos
<1>3. \A k : Valor({}, k) = Ausente
  BY DEF Valor
<1>4. contenido = [k \in Claves |-> Ausente]
  BY <1>1, <1>2, <1>3, ElContenido
<1> QED
  BY <1>1, <1>4 DEF Mapa!Init

\* Whoever calls dictionary_put, get, has_key, remove and clean sees the map from keys to data
\* of dictionary.h, whatever the resize is doing, but in the calls for a key whose hash code
\* another key in the dictionary has (the datum "ausente" stands for no element).
THEOREM DiccionarioImplementaMapa ==
  ASSUME Ausente \notin Datos
  PROVE  Spec => ImplementaMapa
<1>1. IInv /\ [Next]_vars =>
        [Mapa!Next \/ \E k \in Claves : LlamadaConfundida(k)]_<<contenido, ret>>
  BY PasoEnElMapa DEF PasoDeMapa
<1> QED
  BY <1>1, EmpiezaElMapa, Invariante, PTL DEF Spec, ImplementaMapa

\* If no two keys have the same hash code the dictionary is that map in every call.
THEOREM MapaSinColisiones ==
  ASSUME Ausente \notin Datos, \A j, k \in Claves : Hash[j] = Hash[k] => j = k
  PROVE  Spec => Mapa!Spec
<1>1. ASSUME IInv, NEW k \in Claves
      PROVE  ~Confundida(k)
  <2>1. \A e \in Todos : e.key \in Claves /\ e.hashcode = Hash[e.key]
    <3>1. Todos = ElementosDe(elements) \union ElementosDe(new_table)
      BY <1>1, ElContenido
    <3> QED
      BY <1>1, <3>1, LosElementos DEF IInv, TypeOK
  <2> QED
    BY <2>1 DEF Confundida
<1>2. IInv /\ [Next]_vars => [Mapa!Next]_(Mapa!vars)
  BY <1>1, PasoEnElMapa DEF PasoDeMapa, LlamadaConfundida, Mapa!vars
<1> QED
  BY <1>2, EmpiezaElMapa, Invariante, PTL DEF Spec, Mapa!Spec
=============================================================================

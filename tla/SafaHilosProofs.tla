-------------------------- MODULE SafaHilosProofs ---------------------------
(***************************************************************************)
(* Proofs about the threads of the S-AFA, for any number of CPUs: no ring  *)
(* of threads that wait for one another's mutexes, fileTable touched only  *)
(* under its mutex but in one place, and what a thread keeps between two   *)
(* operations.                                                             *)
(*                                                                         *)
(* What a thread has left to run is a sequence, some of whose elements     *)
(* hold sequences.  Of one and the mutexes N locked in the operation,      *)
(* Cumple says that it goes on well whatever the branches taken: there is  *)
(* a set of such pairs, closed under the steps of a thread, in all of      *)
(* which the order of the mutexes and the other rules are respected.       *)
(* Lleva(A, N, Q) is the triple that follows: A, begun with N, keeps to    *)
(* the rules and ends with one of Q.  One lemma per C function states its  *)
(* triple, from those of what it calls.                                    *)
(***************************************************************************)
EXTENDS SafaHilos, FiniteSetTheorems, SequenceTheorems, TLAPS

\* An order of the mutexes in which every thread takes them.
Puesto(m) ==
  IF m = "newQueue" THEN 1 ELSE IF m = "metrics" THEN 2
  ELSE IF m = "semaphoreList" THEN 3 ELSE IF m = "fileTable" THEN 4
  ELSE IF m = "configFile" THEN 5 ELSE IF m = "cpuList" THEN 6
  ELSE IF m = "readyQueue" THEN 7 ELSE IF m = "blockedQueue" THEN 8
  ELSE IF m = "executionQueue" THEN 9 ELSE IF m = "finishedQueue" THEN 10 ELSE 11

Tras(N, m) == \A n \in N : Puesto(n) < Puesto(m)

\* The mutexes only their owner unlocks.
Exactos == {"fileTable", "newQueue", "semaphoreList"}

\* An element x that looks at fileTable has its mutex, or is the look-up of a semaphore's
\* name, under the mutex of the semaphores.
Mira(x, N) ==
  x[2] = "fileTable" =>
    \/ "fileTable" \in N
    \/ x = Head(SemaforoEnTabla) /\ "semaphoreList" \in N

\* The semaphores nobody posts.
Mudos == {"longTermScheduler", "shortTermScheduler"}

\* The rules for the next element of A, the mutexes in N being locked; S holds what
\* follows, and a thread that ends keeps no more than R.
Bien(R, S, A, N) ==
  LET i == Head(A)[1]
      x == Head(A)[2]
      K == Tail(A)
  IN  IF A = Nada THEN N \subseteq R
      ELSE /\ i = "lock" => /\ x \in Mutexes
                            /\ \/ x \in N \cap Exactos
                               \/ Tras(N, x) /\ <<K, N \cup {x}>> \in S
           /\ i = "unlock" => /\ x \in Mutexes /\ (x \in Exactos => x \in N)
                              /\ <<K, N \ {x}>> \in S
           /\ i = "wait" => x \in Mudos
           /\ i # "post"
           /\ i = "si" => /\ Mira(Head(A), N)
                          /\ x # "procesos" => <<Head(A)[3] \o K, N>> \in S
                          /\ <<Head(A)[4] \o K, N>> \in S
           /\ i = "recibe" => <<x \o K, N>> \in S /\ <<Head(A)[3] \o K, N>> \in S
           /\ i \in {"usa", "pone", "saca"} =>
                /\ x = "fileTable" => x \in N
                /\ x = "procesos" => i # "pone"
                /\ <<K, N>> \in S

Cerrado(R, S) == \A p \in S : Bien(R, S, p[1], p[2])

Cumple(R, A, N) == \E S : Cerrado(R, S) /\ <<A, N>> \in S

EsSec(A) == \E S : A \in Seq(S)

Lleva(A, N, Q) ==
  /\ EsSec(A)
  /\ \A R, K : EsSec(K) /\ (\A M \in Q : Cumple(R, K, M)) => Cumple(R, A \o K, N)

-----------------------------------------------------------------------------
(* Sequences                                                               *)

LEMMA EnComun ==
  ASSUME NEW A, NEW B, EsSec(A), EsSec(B)
  PROVE  \E S : A \in Seq(S) /\ B \in Seq(S)
<1>1. PICK S : A \in Seq(S)
  BY DEF EsSec
<1>2. PICK T : B \in Seq(T)
  BY DEF EsSec
<1>3. A \in Seq(S \cup T) /\ B \in Seq(S \cup T)
  BY <1>1, <1>2, SeqMonotonic
<1> QED BY <1>3

LEMMA SecVacia == EsSec(Nada) /\ \A A : EsSec(A) => A \o Nada = A /\ Nada \o A = A
<1>1. << >> \in Seq({})
  BY EmptySeq
<1>2. ASSUME NEW A, EsSec(A) PROVE A \o Nada = A /\ Nada \o A = A
  <2>1. PICK S : A \in Seq(S)
    BY <1>2 DEF EsSec
  <2> QED BY <2>1, ConcatEmptySeq DEF Nada
<1> QED BY <1>1, <1>2 DEF EsSec, Nada

LEMMA SecUna == ASSUME NEW x PROVE EsSec(<<x>>)
<1>1. <<x>> \in Seq({x})
  OBVIOUS
<1> QED BY <1>1 DEF EsSec

LEMMA SecJunta ==
  ASSUME NEW A, NEW B, EsSec(A), EsSec(B)
  PROVE  EsSec(A \o B)
<1>1. PICK S : A \in Seq(S) /\ B \in Seq(S)
  BY EnComun
<1>2. A \o B \in Seq(S)
  BY <1>1, ConcatProperties
<1> QED BY <1>2 DEF EsSec

LEMMA SecAsocia ==
  ASSUME NEW A, NEW B, NEW C, EsSec(A), EsSec(B), EsSec(C)
  PROVE  (A \o B) \o C = A \o (B \o C)
<1>1. PICK S : A \in Seq(S) /\ B \in Seq(S)
  BY EnComun
<1>2. PICK T : C \in Seq(T)
  BY DEF EsSec
<1>3. A \in Seq(S \cup T) /\ B \in Seq(S \cup T) /\ C \in Seq(S \cup T)
  BY <1>1, <1>2, SeqMonotonic
<1> QED BY <1>3, ConcatAssociative

\* The next element and the rest.
LEMMA SecPrimera ==
  ASSUME NEW x, NEW K, EsSec(K)
  PROVE  <<x>> \o K # Nada /\ Head(<<x>> \o K) = x /\ Tail(<<x>> \o K) = K
<1> DEFINE P == <<x>>
           A == P \o K
<1>1. P # << >> /\ Len(P) = 1 /\ P[1] = x
  OBVIOUS
<1>2. EsSec(P)
  BY SecUna
<1> HIDE DEF P
<1>3. PICK S : P \in Seq(S) /\ K \in Seq(S)
  BY <1>2, EnComun
<1>4. /\ A \in Seq(S) /\ Len(A) = 1 + Len(K) /\ Len(K) \in Nat
      /\ A[1] = x /\ \A i \in 1 .. Len(K) : A[i + 1] = K[i]
  <2>1. /\ A \in Seq(S) /\ Len(A) = Len(P) + Len(K)
        /\ \A i \in 1 .. Len(P) + Len(K) :
             A[i] = IF i <= Len(P) THEN P[i] ELSE K[i - Len(P)]
    BY <1>3, ConcatProperties
  <2>2. Len(K) \in Nat
    BY <1>3, LenProperties
  <2> HIDE DEF A
  <2>3. A[1] = x
    BY <1>1, <2>1, <2>2
  <2>4. ASSUME NEW i \in 1 .. Len(K) PROVE A[i + 1] = K[i]
    <3>1. i + 1 \in 1 .. 1 + Len(K) /\ ~(i + 1 <= 1) /\ (i + 1) - 1 = i
      BY <2>2
    <3> QED BY <1>1, <2>1, <3>1
  <2> QED BY <1>1, <2>1, <2>2, <2>3, <2>4
<1> HIDE DEF A
<1>5. A # << >>
  BY <1>4, EmptySeq
<1>6. Head(A) = x
  BY <1>4, <1>5
<1>7. Tail(A) = K
  <2>1. /\ Tail(A) \in Seq(S) /\ Len(Tail(A)) = Len(A) - 1
        /\ \A i \in 1 .. Len(Tail(A)) : Tail(A)[i] = A[i + 1]
    BY <1>4, <1>5, HeadTailProperties
  <2>2. Len(Tail(A)) = Len(K)
    BY <1>4, <2>1
  <2>3. \A i \in 1 .. Len(Tail(A)) : Tail(A)[i] = K[i]
    BY <1>4, <2>1, <2>2
  <2> QED BY <1>3, <2>1, <2>2, <2>3, SeqEqual
<1> QED BY <1>5, <1>6, <1>7 DEF A, P, Nada

-----------------------------------------------------------------------------
(* Closed sets                                                             *)

LEMMA BienEnMas ==
  ASSUME NEW R, NEW S, NEW T, S \subseteq T, NEW A, NEW N, Bien(R, S, A, N)
  PROVE  Bien(R, T, A, N)
<1>1. CASE A = Nada
  BY <1>1 DEF Bien
<1>2. CASE A # Nada
  BY <1>2 DEF Bien
<1> QED BY <1>1, <1>2

LEMMA CerradoUnion ==
  ASSUME NEW R, NEW S, NEW T, Cerrado(R, S), Cerrado(R, T)
  PROVE  Cerrado(R, S \cup T)
<1> SUFFICES ASSUME NEW p \in S \cup T PROVE Bien(R, S \cup T, p[1], p[2])
  BY DEF Cerrado
<1>1. Bien(R, S, p[1], p[2]) \/ Bien(R, T, p[1], p[2])
  BY DEF Cerrado
<1> QED BY <1>1, BienEnMas

\* What goes on well after one step that keeps to the rules, goes on well.
LEMMA CumpleAntes ==
  ASSUME NEW R, NEW S, Cerrado(R, S), NEW A, NEW N, Bien(R, S, A, N)
  PROVE  Cumple(R, A, N)
<1> DEFINE T == S \cup {<<A, N>>}
<1>1. S \subseteq T /\ <<A, N>> \in T
  OBVIOUS
<1>2. ASSUME NEW p \in T PROVE Bien(R, T, p[1], p[2])
  <2>1. CASE p \in S
    <3>1. Bien(R, S, p[1], p[2])
      BY <2>1 DEF Cerrado
    <3> QED BY <1>1, <3>1, BienEnMas
  <2>2. CASE p = <<A, N>>
    <3>1. p[1] = A /\ p[2] = N
      BY <2>2
    <3>2. Bien(R, S, p[1], p[2])
      BY <3>1
    <3> HIDE DEF T
    <3> QED BY <1>1, <3>2, BienEnMas
  <2> QED BY <1>2, <2>1, <2>2
<1>3. Cerrado(R, T)
  BY <1>2 DEF Cerrado
<1> QED BY <1>1, <1>3 DEF Cumple

LEMMA CumpleVacia ==
  ASSUME NEW R, NEW N
  PROVE  Cumple(R, Nada, N) <=> N \subseteq R
<1>1. ASSUME N \subseteq R PROVE Cumple(R, Nada, N)
  <2>1. Cerrado(R, {})
    BY DEF Cerrado
  <2>2. Bien(R, {}, Nada, N)
    BY <1>1 DEF Bien
  <2> QED BY <2>1, <2>2, CumpleAntes
<1>2. ASSUME Cumple(R, Nada, N) PROVE N \subseteq R
  <2>1. PICK S : Cerrado(R, S) /\ <<Nada, N>> \in S
    BY <1>2 DEF Cumple
  <2>2. Bien(R, S, Nada, N)
    <3>1. <<Nada, N>>[1] = Nada /\ <<Nada, N>>[2] = N
      OBVIOUS
    <3>2. Bien(R, S, <<Nada, N>>[1], <<Nada, N>>[2])
      BY <2>1 DEF Cerrado
    <3> QED BY <3>1, <3>2
  <2> QED BY <2>2 DEF Bien
<1> QED BY <1>1, <1>2

-----------------------------------------------------------------------------
(* The rules                                                               *)

LEMMA LlevaMas ==
  ASSUME NEW A, NEW N, NEW Q, NEW P, Lleva(A, N, Q), Q \subseteq P
  PROVE  Lleva(A, N, P)
BY DEF Lleva

LEMMA LlevaNada == ASSUME NEW N, NEW Q, N \in Q PROVE Lleva(Nada, N, Q)
BY SecVacia DEF Lleva

LEMMA LlevaSec ==
  ASSUME NEW A, NEW B, NEW N, NEW Q, NEW P, EsSec(B),
         Lleva(A, N, Q), \A M \in Q : Lleva(B, M, P)
  PROVE  Lleva(A \o B, N, P)
<1>1. EsSec(A) /\ EsSec(A \o B)
  BY SecJunta DEF Lleva
<1>2. ASSUME NEW R, NEW K, EsSec(K), \A M \in P : Cumple(R, K, M)
      PROVE  Cumple(R, (A \o B) \o K, N)
  <2>1. \A M \in Q : Cumple(R, B \o K, M)
    BY <1>2 DEF Lleva
  <2>2. EsSec(B \o K)
    BY <1>2, SecJunta
  <2>3. Cumple(R, A \o (B \o K), N)
    BY <2>1, <2>2 DEF Lleva
  <2>4. (A \o B) \o K = A \o (B \o K)
    BY <1>1, <1>2, SecAsocia
  <2> QED BY <2>3, <2>4
<1> QED BY <1>1, <1>2 DEF Lleva

\* One element, whatever comes after it.
LEMMA LlevaUna ==
  ASSUME NEW x, NEW N, NEW Q,
         \A R, K : EsSec(K) /\ (\A M \in Q : Cumple(R, K, M)) =>
           \E S : Cerrado(R, S) /\ Bien(R, S, <<x>> \o K, N)
  PROVE  Lleva(<<x>>, N, Q)
BY SecUna, CumpleAntes DEF Lleva

LEMMA LlevaLock ==
  ASSUME NEW m \in Mutexes, NEW N, Tras(N, m), NEW Q, N \cup {m} \in Q
  PROVE  Lleva(L(m), N, Q)
<1> SUFFICES ASSUME NEW R, NEW K, EsSec(K), \A M \in Q : Cumple(R, K, M)
             PROVE  \E S : Cerrado(R, S) /\ Bien(R, S, << <<"lock", m>> >> \o K, N)
  BY LlevaUna DEF L
<1>1. PICK S : Cerrado(R, S) /\ <<K, N \cup {m}>> \in S
  BY DEF Cumple
<1> DEFINE A == << <<"lock", m>> >> \o K
<1>2. A # Nada /\ Head(A)[1] = "lock" /\ Head(A)[2] = m /\ Tail(A) = K
  BY SecPrimera
<1> HIDE DEF A
<1>3. Bien(R, S, A, N)
  BY <1>1, <1>2 DEF Bien
<1> QED BY <1>1, <1>3 DEF A

\* Locking again what only this thread unlocks: it waits for ever.
LEMMA LlevaAtascado ==
  ASSUME NEW N, NEW m \in N \cap Exactos, NEW Q
  PROVE  Lleva(L(m), N, Q)
<1> SUFFICES ASSUME NEW R, NEW K, EsSec(K)
             PROVE  \E S : Cerrado(R, S) /\ Bien(R, S, << <<"lock", m>> >> \o K, N)
  BY LlevaUna DEF L
<1>1. Cerrado(R, {}) /\ m \in Mutexes
  BY DEF Cerrado, Exactos, Mutexes
<1> DEFINE A == << <<"lock", m>> >> \o K
<1>2. A # Nada /\ Head(A)[1] = "lock" /\ Head(A)[2] = m
  BY SecPrimera
<1> HIDE DEF A
<1>3. Bien(R, {}, A, N)
  BY <1>1, <1>2 DEF Bien
<1> QED BY <1>1, <1>3 DEF A

LEMMA LlevaUnlock ==
  ASSUME NEW m \in Mutexes, NEW N, m \in Exactos => m \in N, NEW Q, N \ {m} \in Q
  PROVE  Lleva(U(m), N, Q)
<1> SUFFICES ASSUME NEW R, NEW K, EsSec(K), \A M \in Q : Cumple(R, K, M)
             PROVE  \E S : Cerrado(R, S) /\ Bien(R, S, << <<"unlock", m>> >> \o K, N)
  BY LlevaUna DEF U
<1>1. PICK S : Cerrado(R, S) /\ <<K, N \ {m}>> \in S
  BY DEF Cumple
<1> DEFINE A == << <<"unlock", m>> >> \o K
<1>2. A # Nada /\ Head(A)[1] = "unlock" /\ Head(A)[2] = m /\ Tail(A) = K
  BY SecPrimera
<1> HIDE DEF A
<1>3. Bien(R, S, A, N)
  BY <1>1, <1>2 DEF Bien
<1> QED BY <1>1, <1>3 DEF A

LEMMA LlevaWait ==
  ASSUME NEW s \in Mudos, NEW N, NEW Q
  PROVE  Lleva(Wait(s), N, Q)
<1> SUFFICES ASSUME NEW R, NEW K, EsSec(K)
             PROVE  \E S : Cerrado(R, S) /\ Bien(R, S, << <<"wait", s>> >> \o K, N)
  BY LlevaUna DEF Wait
<1>1. Cerrado(R, {})
  BY DEF Cerrado
<1> DEFINE A == << <<"wait", s>> >> \o K
<1>2. A # Nada /\ Head(A)[1] = "wait" /\ Head(A)[2] = s
  BY SecPrimera
<1> HIDE DEF A
<1>3. Bien(R, {}, A, N)
  BY <1>1, <1>2 DEF Bien
<1> QED BY <1>1, <1>3 DEF A

LEMMA LlevaMuere == ASSUME NEW N, NEW Q PROVE Lleva(Muere, N, Q)
<1> SUFFICES ASSUME NEW R, NEW K, EsSec(K)
             PROVE  \E S : Cerrado(R, S) /\ Bien(R, S, << <<"muere", "">> >> \o K, N)
  BY LlevaUna DEF Muere
<1>1. Cerrado(R, {})
  BY DEF Cerrado
<1> DEFINE x == <<"muere", "">>
           A == <<x>> \o K
<1>2. A # Nada /\ Head(A)[1] = "muere"
  <2>1. x[1] = "muere"
    OBVIOUS
  <2> HIDE DEF x
  <2> QED BY <2>1, SecPrimera
<1> HIDE DEF A
<1>3. Bien(R, {}, A, N)
  BY <1>1, <1>2 DEF Bien
<1> QED BY <1>1, <1>3 DEF A

\* An access to shared data: fileTable only with its mutex, and no process enters the
\* queues of the schedulers.
LEMMA LlevaAcceso ==
  ASSUME NEW i \in {"usa", "pone", "saca"}, NEW d, NEW N,
         d = "fileTable" => d \in N, d = "procesos" => i # "pone", NEW Q, N \in Q
  PROVE  Lleva(<< <<i, d>> >>, N, Q)
<1> SUFFICES ASSUME NEW R, NEW K, EsSec(K), \A M \in Q : Cumple(R, K, M)
             PROVE  \E S : Cerrado(R, S) /\ Bien(R, S, << <<i, d>> >> \o K, N)
  BY LlevaUna
<1>1. PICK S : Cerrado(R, S) /\ <<K, N>> \in S
  BY DEF Cumple
<1> DEFINE A == << <<i, d>> >> \o K
<1>2. A # Nada /\ Head(A)[1] = i /\ Head(A)[2] = d /\ Tail(A) = K
  BY SecPrimera
<1> HIDE DEF A
<1>3. Bien(R, S, A, N)
  BY <1>1, <1>2 DEF Bien
<1> QED BY <1>1, <1>3 DEF A

\* Both branches from one closed set.
LEMMA DosRamas ==
  ASSUME NEW R, NEW A, NEW B, NEW N, Cumple(R, A, N), Cumple(R, B, N)
  PROVE  \E S : Cerrado(R, S) /\ <<A, N>> \in S /\ <<B, N>> \in S
<1>1. PICK S : Cerrado(R, S) /\ <<A, N>> \in S
  BY DEF Cumple
<1>2. PICK T : Cerrado(R, T) /\ <<B, N>> \in T
  BY DEF Cumple
<1>3. Cerrado(R, S \cup T)
  BY <1>1, <1>2, CerradoUnion
<1> QED BY <1>1, <1>2, <1>3

LEMMA LlevaRama ==
  ASSUME NEW c, NEW A, NEW B, NEW N, NEW Q, Lleva(A, N, Q), Lleva(B, N, Q),
         Mira(<<"si", c, A, B>>, N)
  PROVE  Lleva(Si(c, A, B), N, Q)
<1> SUFFICES ASSUME NEW R, NEW K, EsSec(K), \A M \in Q : Cumple(R, K, M)
             PROVE  \E S : Cerrado(R, S) /\ Bien(R, S, << <<"si", c, A, B>> >> \o K, N)
  BY LlevaUna DEF Si
<1>1. Cumple(R, A \o K, N) /\ Cumple(R, B \o K, N)
  BY DEF Lleva
<1>2. PICK S : Cerrado(R, S) /\ <<A \o K, N>> \in S /\ <<B \o K, N>> \in S
  BY <1>1, DosRamas
<1> DEFINE C == << <<"si", c, A, B>> >> \o K
<1>3. /\ C # Nada /\ Tail(C) = K /\ Head(C) = <<"si", c, A, B>>
      /\ Head(C)[1] = "si" /\ Head(C)[2] = c /\ Head(C)[3] = A /\ Head(C)[4] = B
  BY SecPrimera
<1> HIDE DEF C
<1>4. Mira(Head(C), N)
  BY <1>3
<1>5. Bien(R, S, C, N)
  BY <1>2, <1>3, <1>4 DEF Bien
<1> QED BY <1>2, <1>5 DEF C

\* Of anything but fileTable, or of fileTable with its mutex.
LEMMA MiraBien ==
  ASSUME NEW c, NEW A, NEW B, NEW N, c = "fileTable" => "fileTable" \in N
  PROVE  Mira(<<"si", c, A, B>>, N)
BY DEF Mira

LEMMA LlevaSi ==
  ASSUME NEW c, NEW A, NEW B, NEW N, NEW Q, Lleva(A, N, Q), Lleva(B, N, Q),
         c = "fileTable" => "fileTable" \in N
  PROVE  Lleva(Si(c, A, B), N, Q)
<1>1. Mira(<<"si", c, A, B>>, N)
  BY MiraBien
<1> QED BY <1>1, LlevaRama

\* The queues of the schedulers are empty.
LEMMA LlevaSinProcesos ==
  ASSUME NEW A, NEW B, NEW N, NEW Q, Lleva(B, N, Q)
  PROVE  Lleva(Si("procesos", A, B), N, Q)
<1> SUFFICES ASSUME NEW R, NEW K, EsSec(K), \A M \in Q : Cumple(R, K, M)
             PROVE  \E S : Cerrado(R, S) /\ Bien(R, S, << <<"si", "procesos", A, B>> >> \o K, N)
  BY LlevaUna DEF Si
<1>1. PICK S : Cerrado(R, S) /\ <<B \o K, N>> \in S
  BY DEF Lleva, Cumple
<1> DEFINE C == << <<"si", "procesos", A, B>> >> \o K
<1>2. /\ C # Nada /\ Tail(C) = K /\ Head(C) = <<"si", "procesos", A, B>>
      /\ Head(C)[1] = "si" /\ Head(C)[2] = "procesos" /\ Head(C)[3] = A /\ Head(C)[4] = B
  BY SecPrimera
<1> HIDE DEF C
<1>3. Mira(Head(C), N)
  BY <1>2, MiraBien
<1>4. Bien(R, S, C, N)
  BY <1>1, <1>2, <1>3 DEF Bien
<1> QED BY <1>1, <1>4 DEF C

LEMMA LlevaRecibe ==
  ASSUME NEW A, NEW B, NEW N, NEW Q, Lleva(A, N, Q), Lleva(B, N, Q)
  PROVE  Lleva(Recibe(A, B), N, Q)
<1> SUFFICES ASSUME NEW R, NEW K, EsSec(K), \A M \in Q : Cumple(R, K, M)
             PROVE  \E S : Cerrado(R, S) /\ Bien(R, S, << <<"recibe", A, B>> >> \o K, N)
  BY LlevaUna DEF Recibe
<1>1. Cumple(R, A \o K, N) /\ Cumple(R, B \o K, N)
  BY DEF Lleva
<1>2. PICK S : Cerrado(R, S) /\ <<A \o K, N>> \in S /\ <<B \o K, N>> \in S
  BY <1>1, DosRamas
<1> DEFINE C == << <<"recibe", A, B>> >> \o K
<1>3. /\ C # Nada /\ Tail(C) = K
      /\ Head(C)[1] = "recibe" /\ Head(C)[2] = A /\ Head(C)[3] = B
  BY SecPrimera
<1> HIDE DEF C
<1>4. Bien(R, S, C, N)
  BY <1>2, <1>3 DEF Bien
<1> QED BY <1>2, <1>4 DEF C

\* A chance is a branch that the model leaves open.
LEMMA LlevaQuizas ==
  ASSUME NEW A, NEW B, NEW N, NEW Q, Lleva(A, N, Q), Lleva(B, N, Q)
  PROVE  Lleva(Quizas(A, B), N, Q)
BY LlevaSi DEF Quizas

LEMMA LlevaLuego ==
  ASSUME NEW A, NEW B, NEW N, NEW M, NEW Q, Lleva(A, N, {M}), Lleva(B, M, Q)
  PROVE  Lleva(A \o B, N, Q)
<1>1. EsSec(B)
  BY DEF Lleva
<1> QED BY <1>1, LlevaSec

\* What comes after an end that is never reached.
LEMMA LlevaFin ==
  ASSUME NEW A, NEW B, NEW N, NEW Q, Lleva(A, N, {}), EsSec(B)
  PROVE  Lleva(A \o B, N, Q)
BY LlevaSec

LEMMA SecElementos ==
  /\ \A m : EsSec(L(m)) /\ EsSec(U(m)) /\ EsSec(Usa(m)) /\ EsSec(Pone(m)) /\ EsSec(Saca(m))
  /\ \A m : EsSec(Wait(m)) /\ EsSec(Post(m))
  /\ \A c, A, B : EsSec(Si(c, A, B)) /\ EsSec(Quizas(A, B)) /\ EsSec(Recibe(A, B))
  /\ EsSec(Muere) /\ EsSec(Nada)
BY SecUna, SecVacia DEF L, U, Usa, Pone, Saca, Wait, Post, Si, Quizas, Recibe, Muere

LEMMA SecCon == ASSUME NEW m, NEW A, EsSec(A) PROVE EsSec(Con(m, A))
BY SecElementos, SecJunta DEF Con

LEMMA TrasSinElla == ASSUME NEW N, NEW m, Tras(N, m) PROVE m \notin N
<1>1. ~(Puesto(m) < Puesto(m))
  BY DEF Puesto
<1> QED BY <1>1 DEF Tras

\* A lock, what is done under it, and the unlock.
LEMMA LlevaConFinal ==
  ASSUME NEW m \in Mutexes, NEW A, NEW N, Tras(N, m), NEW P, NEW Q,
         Lleva(A, N \cup {m}, P),
         \A M \in P : M \ {m} \in Q /\ (m \in Exactos => m \in M)
  PROVE  Lleva(Con(m, A), N, Q)
<1>1. Lleva(L(m), N, {N \cup {m}})
  BY LlevaLock
<1>2. Lleva(L(m) \o A, N, P)
  BY <1>1, LlevaLuego
<1>3. \A M \in P : Lleva(U(m), M, Q)
  BY LlevaUnlock
<1> QED BY <1>2, <1>3, LlevaSec, SecElementos DEF Con

LEMMA LlevaCon ==
  ASSUME NEW m \in Mutexes, NEW A, NEW N, Tras(N, m), NEW Q, N \in Q,
         Lleva(A, N \cup {m}, {N \cup {m}})
  PROVE  Lleva(Con(m, A), N, Q)
<1> DEFINE M == N \cup {m}
<1>1. M \ {m} = N /\ m \in M
  BY TrasSinElla
<1>2. \A K \in {M} : K \ {m} \in Q /\ (m \in Exactos => m \in K)
  BY <1>1
<1> QED BY <1>2, LlevaConFinal

LEMMA LlevaUsa ==
  ASSUME NEW d, NEW N, d = "fileTable" => d \in N, NEW Q, N \in Q
  PROVE  Lleva(Usa(d), N, Q) /\ Lleva(Saca(d), N, Q)
         /\ (d # "procesos" => Lleva(Pone(d), N, Q))
BY LlevaAcceso DEF Usa, Saca, Pone

-----------------------------------------------------------------------------
(* SchedulerFunctions.c                                                    *)

LEMMA EnviaInt ==
  ASSUME NEW N, Tras(N, "configFile"), NEW Q, N \in Q
  PROVE  Lleva(send_int_with_delay, N, Q)
<1>1. Lleva(Nada, N \cup {"configFile"}, {N \cup {"configFile"}})
  BY LlevaNada
<1> QED BY <1>1, LlevaCon DEF send_int_with_delay, Mutexes

LEMMA LlevaEnvia ==
  ASSUME NEW A, NEW N, Tras(N, "configFile"), NEW Q, N \in Q, Lleva(A, N, Q)
  PROVE  Lleva(Envia(A), N, Q)
<1>1. Lleva(send_int_with_delay, N, {N})
  BY EnviaInt
<1>2. Lleva(Quizas(A, Nada), N, Q)
  BY LlevaNada, LlevaQuizas
<1> QED BY <1>1, <1>2, LlevaLuego DEF Envia

LEMMA CierraSocket ==
  ASSUME NEW N, Tras(N, "cpuList"), NEW Q, N \in Q
  PROVE  Lleva(closeSocketAndRemoveCPU, N, Q)
<1> DEFINE M == N \cup {"cpuList"}
<1>1. Lleva(Saca("cpu"), M, {M}) /\ Lleva(Nada, M, {M})
  BY LlevaUsa, LlevaNada
<1>2. Lleva(Si("cpu", Quizas(Saca("cpu"), Nada), Nada), M, {M})
  BY <1>1, LlevaQuizas, LlevaSi
<1> QED BY <1>2, LlevaCon DEF closeSocketAndRemoveCPU, Mutexes

LEMMA MueveApartado ==
  ASSUME NEW N, Tras(N, "ioReadyQueue"), NEW Q, N \in Q
  PROVE  Lleva(moveProcessToReadyQueue(FALSE), N, Q)
<1>1. Lleva(Pone("apartados"), N \cup {"ioReadyQueue"}, {N \cup {"ioReadyQueue"}})
  BY LlevaUsa
<1> QED BY <1>1, LlevaCon DEF moveProcessToReadyQueue, Mutexes

\* With the queues empty the process is not found, and the S-AFA dies.
LEMMA Desbloquea ==
  ASSUME NEW b, NEW N, Tras(N, "configFile"), NEW Q
  PROVE  Lleva(unblockProcess(b), N, Q)
<1> DEFINE M == (N \cup {"configFile"}) \ {"metrics"}
<1>1. Lleva(L("configFile"), N, {N \cup {"configFile"}})
  BY LlevaLock DEF Mutexes
<1>2. Lleva(U("metrics"), N \cup {"configFile"}, {M})
  BY LlevaUnlock DEF Mutexes, Exactos
<1>3. Lleva(L("configFile") \o U("metrics"), N, {M})
  BY <1>1, <1>2, LlevaLuego
<1>4. Tras(M, "blockedQueue")
  BY DEF Tras, Puesto
<1>5. Lleva(Con("blockedQueue", Nada), M, {M})
  BY <1>4, LlevaNada, LlevaCon DEF Mutexes
<1>6. Lleva(L("configFile") \o U("metrics") \o Con("blockedQueue", Nada), N, {M})
  BY <1>3, <1>5, LlevaLuego
<1>7. \A A : Lleva(Si("procesos", A, Muere), M, Q)
  BY LlevaMuere, LlevaSinProcesos
<1> HIDE DEF M
<1> QED BY <1>6, <1>7, LlevaLuego DEF unblockProcess

LEMMA Bloquea ==
  ASSUME NEW N, Tras(N, "metrics"), NEW Q
  PROVE  Lleva(blockProcess, N, Q)
<1>1. \A A : Lleva(Si("procesos", A, Muere), N \cup {"metrics"}, {})
  BY LlevaMuere, LlevaSinProcesos
<1>2. \A A : Lleva(Con("metrics", Si("procesos", A, Muere)), N, Q)
  <2> SUFFICES ASSUME NEW A
               PROVE  Lleva(Con("metrics", Si("procesos", A, Muere)), N, Q)
    OBVIOUS
  <2> DEFINE B == Si("procesos", A, Muere)
  <2>1. Lleva(B, N \cup {"metrics"}, {}) /\ "metrics" \in Mutexes
    BY <1>1 DEF Mutexes
  <2> HIDE DEF B
  <2>2. \A M \in {} : M \ {"metrics"} \in Q /\ ("metrics" \in Exactos => "metrics" \in M)
    OBVIOUS
  <2>3. Lleva(Con("metrics", B), N, Q)
    BY <2>1, <2>2, LlevaConFinal
  <2> QED BY <2>3 DEF B
<1> QED BY <1>2 DEF blockProcess

LEMMA LiberaArchivos ==
  ASSUME NEW N, Tras(N, "fileTable"), NEW Q, N \in Q
  PROVE  Lleva(checkAndFreeProcessFiles, N, Q)
<1> DEFINE M == N \cup {"fileTable"}
<1>1. Tras(M, "configFile")
  BY DEF Tras, Puesto
<1>2. Lleva(Nada, M, {M})
  BY LlevaNada
<1>3. Lleva(Quizas(unblockProcess(FALSE), Nada), M, {M})
  BY <1>1, <1>2, Desbloquea, LlevaQuizas
<1>4. Lleva(Usa("fileTable"), M, {M})
  BY LlevaUsa
<1>5. Lleva(Usa("fileTable") \o Quizas(unblockProcess(FALSE), Nada), M, {M})
  BY <1>3, <1>4, LlevaLuego
<1>6. Lleva(Si("fileTable", Usa("fileTable") \o Quizas(unblockProcess(FALSE), Nada), Muere),
            M, {M})
  BY <1>5, LlevaMuere, LlevaSi
<1>7. Lleva(Quizas(Nada, Si("fileTable",
                            Usa("fileTable") \o Quizas(unblockProcess(FALSE), Nada), Muere)),
            M, {M})
  BY <1>2, <1>6, LlevaQuizas
<1>8. /\ Lleva(Con("fileTable", Nada), N, Q)
      /\ Lleva(Con("fileTable",
                   Quizas(Nada, Si("fileTable",
                                   Usa("fileTable") \o Quizas(unblockProcess(FALSE), Nada),
                                   Muere))),
               N, Q)
  BY <1>2, <1>7, LlevaCon DEF Mutexes
<1> QED BY <1>8, LlevaSi DEF checkAndFreeProcessFiles

LEMMA LiberaSemaforos ==
  ASSUME NEW N, Tras(N, "semaphoreList"), NEW Q, N \in Q
  PROVE  Lleva(checkAndFreeProcessSemaphores, N, Q)
<1> DEFINE M == N \cup {"semaphoreList"}
<1>1. Lleva(Nada, M, {M}) /\ Lleva(Muere, M, {M})
  BY LlevaNada, LlevaMuere
<1>2. Lleva(SemaforoEnTabla, M, {M})
  <2>1. Lleva(Quizas(Nada, Muere), M, {M})
    BY <1>1, LlevaQuizas
  <2>2. Mira(<<"si", "fileTable", Quizas(Nada, Muere), Muere>>, M)
    BY DEF Mira, SemaforoEnTabla, Si
  <2> HIDE DEF M
  <2> QED BY <1>1, <2>1, <2>2, LlevaRama DEF SemaforoEnTabla
<1>3. /\ Lleva(Con("semaphoreList", Nada), N, Q)
      /\ Lleva(Con("semaphoreList", SemaforoEnTabla), N, Q)
  BY <1>1, <1>2, LlevaCon DEF Mutexes
<1> QED BY <1>3, LlevaSi DEF checkAndFreeProcessSemaphores

LEMMA Mata ==
  ASSUME NEW Q, {} \in Q
  PROVE  Lleva(killProcess, {}, Q)
<1> DEFINE M == {"metrics"}
           mata == Usa("metrics") \o Pone("apartados")
                     \o checkAndFreeProcessFiles \o checkAndFreeProcessSemaphores \o U("metrics")
<1>1. Lleva(L("metrics"), {}, {M})
  <2>1. Tras({}, "metrics") /\ {} \cup {"metrics"} \in {M}
    BY DEF Tras
  <2> QED BY <2>1, LlevaLock DEF Mutexes
<1>2. Lleva(U("metrics"), M, Q)
  BY LlevaUnlock DEF Mutexes, Exactos
<1>3. Tras(M, "fileTable") /\ Tras(M, "semaphoreList")
  BY DEF Tras, Puesto
<1>4. /\ Lleva(Usa("metrics"), M, {M}) /\ Lleva(Pone("apartados"), M, {M})
      /\ Lleva(checkAndFreeProcessFiles, M, {M})
      /\ Lleva(checkAndFreeProcessSemaphores, M, {M})
  BY <1>3, LlevaUsa, LiberaArchivos, LiberaSemaforos
<1> HIDE DEF M
<1>5. Lleva(mata, M, Q)
  BY <1>2, <1>4, LlevaLuego
<1>6. Lleva(Quizas(U("metrics"), Quizas(Muere, mata)), M, Q)
  BY <1>2, <1>5, LlevaMuere, LlevaQuizas
<1> QED BY <1>1, <1>6, LlevaLuego DEF killProcess

-----------------------------------------------------------------------------
(* ServerThread.c                                                          *)

\* It keeps readyQueueMutex.
LEMMA Inicializa ==
  ASSUME NEW N, Tras(N, "readyQueue")
  PROVE  Lleva(checkAndInitializeProcesses, N, {N \cup {"readyQueue"}})
<1> DEFINE M == N \cup {"readyQueue"}
<1>1. Lleva(L("readyQueue"), N, {M})
  BY LlevaLock DEF Mutexes
<1>2. Lleva(Si("procesos", Quizas(executeProcess, Nada), Nada), M, {M})
  BY LlevaNada, LlevaSinProcesos
<1> HIDE DEF M
<1>3. Lleva(checkAndInitializeProcesses, N, {M})
  BY <1>1, <1>2, LlevaLuego DEF checkAndInitializeProcesses
<1> QED BY <1>3 DEF M

LEMMA LiberaCPU == ASSUME NEW N PROVE Lleva(freeCPUBy_socket, N, {N})
<1>1. Lleva(Nada, N, {N}) /\ Lleva(Muere, N, {N})
  BY LlevaNada, LlevaMuere
<1>2. Lleva(Quizas(Nada, Muere), N, {N})
  BY <1>1, LlevaQuizas
<1> QED BY <1>1, <1>2, LlevaSi DEF freeCPUBy_socket

\* Every mutex may be the first.
LEMMA TrasVacio == \A m : Tras({}, m)
BY DEF Tras

LEMMA EjecutoUna == Lleva(COMPLETED_INSTRUCTION, {}, {{}})
<1> DEFINE M == {} \cup {"metrics"}
<1>1. Lleva(Usa("metrics"), M, {M})
  BY LlevaUsa
<1>2. {} \in {{}} /\ "metrics" \in Mutexes /\ Tras({}, "metrics")
  BY TrasVacio DEF Mutexes
<1> QED BY <1>1, <1>2, LlevaCon DEF COMPLETED_INSTRUCTION

LEMMA CierraVacio == Lleva(closeSocketAndRemoveCPU, {}, {{}})
<1>1. {} \in {{}} /\ Tras({}, "cpuList")
  BY TrasVacio
<1> QED BY <1>1, CierraSocket

LEMMA BloqueaInicio == Lleva(blockProcessInit, {}, {{"readyQueue"}})
<1> DEFINE A == blockProcess \o freeCPUBy_socket
           B == Recibe(A, closeSocketAndRemoveCPU)
<1>1. Tras({}, "metrics") /\ Tras({}, "readyQueue")
  BY TrasVacio
<1>2. Lleva(blockProcess, {}, {})
  BY <1>1, Bloquea
<1>3. EsSec(freeCPUBy_socket)
  BY LiberaCPU DEF Lleva
<1>4. Lleva(A, {}, {{}})
  BY <1>2, <1>3, LlevaFin
<1> HIDE DEF A
<1>5. Lleva(B, {}, {{}})
  BY <1>4, CierraVacio, LlevaRecibe
<1> HIDE DEF B
<1> DEFINE M == {} \cup {"readyQueue"}
<1>6. Lleva(checkAndInitializeProcesses, {}, {M}) /\ M = {"readyQueue"}
  BY <1>1, Inicializa
<1> HIDE DEF M
<1>7. Lleva(B \o checkAndInitializeProcesses, {}, {M})
  BY <1>5, <1>6, LlevaLuego
<1> QED BY <1>6, <1>7 DEF A, B, blockProcessInit

\* The S-AFA dies in it.
LEMMA Actualiza == ASSUME NEW Q PROVE Lleva(ActualizarNULL, {}, Q)
<1> DEFINE M == {"executionQueue"}
           A == U("executionQueue") \o Muere
<1>1. {} \cup {"executionQueue"} \in {M} /\ M \ {"executionQueue"} \in {{}}
      /\ "executionQueue" \in Mutexes /\ "executionQueue" \notin Exactos
  BY DEF Mutexes, Exactos
<1>2. Lleva(L("executionQueue"), {}, {M})
  BY <1>1, TrasVacio, LlevaLock
<1>3. Lleva(U("executionQueue"), M, {{}})
  BY <1>1, LlevaUnlock
<1> HIDE DEF M
<1>4. Lleva(A, M, Q)
  BY <1>3, LlevaMuere, LlevaLuego
<1> HIDE DEF A
<1>5. Lleva(Si("procesos", Muere, A), M, Q)
  BY <1>4, LlevaSinProcesos
<1> QED BY <1>2, <1>5, LlevaLuego DEF A, ActualizarNULL

LEMMA ActualizaPerdido == Lleva(ActualizarPerdido, {}, {{}})
<1> DEFINE A == Quizas(Con("executionQueue", Pone("procesos")), Nada)
           V == Con("executionQueue", Nada)
           W == Si("procesos", A, Nada)
<1>1. {} \in {{}} /\ Tras({}, "executionQueue") /\ "executionQueue" \in Mutexes
  BY TrasVacio DEF Mutexes
<1>2. Lleva(Nada, {} \cup {"executionQueue"}, {{} \cup {"executionQueue"}})
      /\ Lleva(Nada, {}, {{}}) /\ Lleva(Muere, {}, {{}})
  BY LlevaNada, LlevaMuere
<1>3. Lleva(V, {}, {{}})
  BY <1>1, <1>2, LlevaCon
<1>4. Lleva(W, {}, {{}})
  BY <1>2, LlevaSinProcesos
<1>5. Lleva(Quizas(Muere, Nada), {}, {{}})
  BY <1>2, LlevaQuizas
<1> HIDE DEF V, W
<1>6. Lleva(V \o W, {}, {{}})
  BY <1>3, <1>4, LlevaLuego
<1>7. Lleva((V \o W) \o Quizas(Muere, Nada), {}, {{}})
  BY <1>5, <1>6, LlevaLuego
<1> QED BY <1>7 DEF V, W, ActualizarPerdido

LEMMA BloqueaProceso == Lleva(_blockProcess, {}, {{}}) /\ Lleva(_killProcess, {}, {{}})
<1> DEFINE A == Quizas(ActualizarNULL, Nada)
           B == Recibe(A, closeSocketAndRemoveCPU)
<1>1. Lleva(Nada, {}, {{}})
  BY LlevaNada
<1>2. Lleva(A, {}, {{}})
  BY <1>1, Actualiza, LlevaQuizas
<1> HIDE DEF A
<1>3. Lleva(B, {}, {{}})
  BY <1>2, CierraVacio, LlevaRecibe
<1>4. Lleva(Recibe(B, closeSocketAndRemoveCPU), {}, {{}})
  BY <1>3, CierraVacio, LlevaRecibe
<1> QED BY <1>3, <1>4 DEF A, _blockProcess, _killProcess

LEMMA TerminaQuantum == Lleva(processQuantumEnd, {}, {{}})
<1> DEFINE A == ActualizarPerdido \o moveProcessToReadyQueue(FALSE)
<1>1. Lleva(Nada, {}, {{}}) /\ {} \in {{}} /\ Tras({}, "ioReadyQueue")
  BY LlevaNada, TrasVacio
<1>2. Lleva(moveProcessToReadyQueue(FALSE), {}, {{}})
  BY <1>1, MueveApartado
<1>3. Lleva(A, {}, {{}})
  BY <1>2, ActualizaPerdido, LlevaLuego
<1> HIDE DEF A
<1>4. Lleva(Quizas(A, Nada), {}, {{}})
  BY <1>1, <1>3, LlevaQuizas
<1> QED BY <1>4, CierraVacio, LlevaRecibe DEF A, processQuantumEnd

LEMMA TerminaProceso == Lleva(terminateProcess, {}, {{}})
<1> DEFINE A == closeSocketAndRemoveCPU \o ActualizarNULL
<1>1. Lleva(Nada, {}, {{}})
  BY LlevaNada
<1>2. Lleva(Quizas(ActualizarNULL, Nada), {}, {{}})
  BY <1>1, Actualiza, LlevaQuizas
<1>3. Lleva(A, {}, {{}})
  BY CierraVacio, Actualiza, LlevaLuego
<1> HIDE DEF A
<1> QED BY <1>2, <1>3, LlevaRecibe DEF A, terminateProcess

\* An operation under fileTableMutex, with M what is locked.
LEMMA Archivero ==
  ASSUME NEW M, M = {"fileTable"}
  PROVE  /\ Tras(M, "configFile") /\ Tras(M, "cpuList")
         /\ \A Q : {} \in Q => Lleva(U("fileTable"), M, Q)
         /\ \A Q : M \in Q => /\ Lleva(Usa("fileTable"), M, Q) /\ Lleva(Saca("fileTable"), M, Q)
                              /\ Lleva(Pone("fileTable"), M, Q) /\ Lleva(Nada, M, Q)
                              /\ Lleva(closeSocketAndRemoveCPU, M, Q)
         /\ Lleva(L("fileTable"), {}, {M})
<1>1. Tras(M, "configFile") /\ Tras(M, "cpuList")
  BY DEF Tras, Puesto
<1>2. "fileTable" \in Mutexes /\ "fileTable" \in M /\ M \ {"fileTable"} = {}
      /\ {} \cup {"fileTable"} \in {M}
  BY DEF Mutexes
<1>3. ASSUME NEW Q, {} \in Q PROVE Lleva(U("fileTable"), M, Q)
  BY <1>2, <1>3, LlevaUnlock
<1>4. ASSUME NEW Q, M \in Q
      PROVE  /\ Lleva(Usa("fileTable"), M, Q) /\ Lleva(Saca("fileTable"), M, Q)
             /\ Lleva(Pone("fileTable"), M, Q) /\ Lleva(Nada, M, Q)
             /\ Lleva(closeSocketAndRemoveCPU, M, Q)
  BY <1>1, <1>2, <1>4, LlevaUsa, LlevaNada, CierraSocket
<1>5. Lleva(L("fileTable"), {}, {M})
  BY <1>2, TrasVacio, LlevaLock
<1> QED BY <1>1, <1>3, <1>4, <1>5

\* A CPU that does not read the answer makes the server keep fileTableMutex.
LEMMA MiraArchivo == Lleva(checkIfFileOpen, {}, {{}, {"fileTable"}})
<1> DEFINE M == {"fileTable"}
           Q == {{}, M}
           fin == U("fileTable")
           falla == closeSocketAndRemoveCPU \o fin
           usa == Usa("fileTable") \o fin
           otras == Quizas(usa, Envia(usa))
           mias == Quizas(Envia(Envia(fin)), otras)
           abiertos == Quizas(Envia(fin), mias)
<1>1. M = {"fileTable"} /\ {} \in Q /\ M \in Q /\ M \in {M}
  OBVIOUS
<1>2. /\ Tras(M, "configFile")
      /\ \A P : {} \in P => Lleva(fin, M, P)
      /\ \A P : M \in P => Lleva(Usa("fileTable"), M, P) /\ Lleva(closeSocketAndRemoveCPU, M, P)
      /\ Lleva(L("fileTable"), {}, {M})
  BY <1>1, Archivero
<1> HIDE DEF M, Q, fin
<1>3. Lleva(fin, M, Q) /\ Lleva(Usa("fileTable"), M, {M})
      /\ Lleva(closeSocketAndRemoveCPU, M, {M})
  BY <1>1, <1>2
<1>4. Lleva(falla, M, Q) /\ Lleva(usa, M, Q)
  BY <1>3, LlevaLuego
<1> HIDE DEF falla, usa
<1>5. Lleva(Envia(fin), M, Q) /\ Lleva(Envia(usa), M, Q)
  BY <1>1, <1>2, <1>3, <1>4, LlevaEnvia
<1>6. Lleva(Envia(Envia(fin)), M, Q)
  BY <1>1, <1>2, <1>5, LlevaEnvia
<1>7. Lleva(otras, M, Q)
  BY <1>4, <1>5, LlevaQuizas
<1> HIDE DEF otras
<1>8. Lleva(mias, M, Q)
  BY <1>6, <1>7, LlevaQuizas
<1> HIDE DEF mias
<1>9. Lleva(abiertos, M, Q)
  BY <1>5, <1>8, LlevaQuizas
<1> HIDE DEF abiertos
<1>10. Lleva(Si("fileTable", abiertos, Envia(fin)), M, Q)
  BY <1>1, <1>5, <1>9, LlevaSi
<1>11. Lleva(Recibe(Si("fileTable", abiertos, Envia(fin)), falla), M, Q)
  BY <1>4, <1>10, LlevaRecibe
<1>12. Lleva(Recibe(Recibe(Si("fileTable", abiertos, Envia(fin)), falla), falla), M, Q)
  BY <1>4, <1>11, LlevaRecibe
<1>13. Lleva(L("fileTable")
             \o Recibe(Recibe(Si("fileTable", abiertos, Envia(fin)), falla), falla), {}, Q)
  BY <1>2, <1>12, LlevaLuego
<1> QED BY <1>13 DEF checkIfFileOpen, M, Q, fin, falla, usa, otras, mias, abiertos

LEMMA GuardaArchivo == Lleva(saveFileDataToFileTable, {}, {{}})
<1> DEFINE M == {} \cup {"fileTable"}
           A == Pone("fileTable") \o Pone("fileTableKeys")
           B == Quizas(Usa("fileTable"), A)
<1>1. /\ Lleva(Usa("fileTable"), M, {M}) /\ Lleva(Pone("fileTable"), M, {M})
      /\ Lleva(closeSocketAndRemoveCPU, M, {M})
  <2>1. M = {"fileTable"} /\ M \in {M}
    OBVIOUS
  <2> HIDE DEF M
  <2> QED BY <2>1, Archivero
<1>2. Lleva(Pone("fileTableKeys"), M, {M})
  BY LlevaUsa
<1>3. {} \in {{}} /\ "fileTable" \in Mutexes /\ Tras({}, "fileTable")
  BY TrasVacio DEF Mutexes
<1> HIDE DEF M
<1>4. Lleva(A, M, {M})
  BY <1>1, <1>2, LlevaLuego
<1> HIDE DEF A
<1>5. Lleva(B, M, {M})
  BY <1>1, <1>4, LlevaQuizas
<1> HIDE DEF B
<1>6. Lleva(Recibe(B, closeSocketAndRemoveCPU), M, {M})
  BY <1>1, <1>5, LlevaRecibe
<1>7. Lleva(Recibe(Recibe(B, closeSocketAndRemoveCPU), closeSocketAndRemoveCPU), M, {M})
  BY <1>1, <1>6, LlevaRecibe
<1>8. Lleva(GuardarArchivo, M, {M})
  BY <1>7 DEF GuardarArchivo, A, B
<1> QED BY <1>3, <1>8, LlevaCon DEF M, saveFileDataToFileTable

LEMMA CierraArchivo == Lleva(closeFile, {}, {{}})
<1> DEFINE M == {"fileTable"}
           saca == Saca("fileTable") \o Saca("fileTableKeys")
           quita == Quizas(Saca("fileTable"), Muere)
           pasa == unblockProcess(FALSE) \o quita
           una == Quizas(saca, pasa)
           abierta == Si("fileTable", Quizas(Nada, una), Nada)
<1>1. M = {"fileTable"} /\ M \in {M} /\ {} \in {{}}
  OBVIOUS
<1>2. /\ Tras(M, "configFile") /\ Lleva(U("fileTable"), M, {{}})
      /\ Lleva(Saca("fileTable"), M, {M}) /\ Lleva(Nada, M, {M})
      /\ Lleva(closeSocketAndRemoveCPU, M, {M})
      /\ Lleva(L("fileTable"), {}, {M})
  BY <1>1, Archivero
<1>3. Lleva(Saca("fileTableKeys"), M, {M})
  BY LlevaUsa
<1> HIDE DEF M
<1>4. Lleva(saca, M, {M})
  BY <1>2, <1>3, LlevaLuego
<1> HIDE DEF saca
<1>5. Lleva(quita, M, {M})
  BY <1>2, LlevaMuere, LlevaQuizas
<1> HIDE DEF quita
<1>6. Lleva(unblockProcess(FALSE), M, {M})
  BY <1>2, Desbloquea
<1>7. Lleva(pasa, M, {M})
  BY <1>5, <1>6, LlevaLuego
<1> HIDE DEF pasa
<1>8. Lleva(una, M, {M})
  BY <1>4, <1>7, LlevaQuizas
<1> HIDE DEF una
<1>9. Lleva(Quizas(Nada, una), M, {M})
  BY <1>2, <1>8, LlevaQuizas
<1>10. Lleva(abierta, M, {M})
  BY <1>1, <1>2, <1>9, LlevaSi
<1> HIDE DEF abierta
<1>11. Lleva(Recibe(abierta, closeSocketAndRemoveCPU), M, {M})
  BY <1>2, <1>10, LlevaRecibe
<1> DEFINE B == Recibe(Recibe(abierta, closeSocketAndRemoveCPU), closeSocketAndRemoveCPU)
<1>12. Lleva(B, M, {M})
  BY <1>2, <1>11, LlevaRecibe
<1> HIDE DEF B
<1>13. Lleva(L("fileTable") \o B, {}, {M})
  BY <1>2, <1>12, LlevaLuego
<1>14. Lleva((L("fileTable") \o B) \o U("fileTable"), {}, {{}})
  BY <1>2, <1>13, LlevaLuego
<1> QED BY <1>14 DEF closeFile, B, abierta, una, pasa, quita, saca

LEMMA DesbloqueaPorDMA == Lleva(unlockProcess, {}, {{}})
<1>1. Lleva(Nada, {}, {{}}) /\ Tras({}, "configFile")
  BY LlevaNada, TrasVacio
<1>2. Lleva(unblockProcess(TRUE), {}, {{}})
  BY <1>1, Desbloquea
<1>3. Lleva(saveFileDataToFileTable \o unblockProcess(TRUE), {}, {{}})
  BY <1>2, GuardaArchivo, LlevaLuego
<1> QED BY <1>1, <1>3, LlevaRecibe DEF unlockProcess

\* A CPU that does not read the answer makes the server keep semaphoreListMutex.
LEMMA Senala == Lleva(signalResource, {}, {{}, {"semaphoreList"}})
<1> DEFINE M == {"semaphoreList"}
           Q == {{}, M}
           A == closeSocketAndRemoveCPU \o U("semaphoreList")
<1>1. Tras(M, "configFile") /\ Tras(M, "cpuList")
  BY DEF Tras, Puesto
<1>2. "semaphoreList" \in Mutexes /\ "semaphoreList" \in M
      /\ {} \cup {"semaphoreList"} \in {M} /\ M \ {"semaphoreList"} \in Q /\ M \in Q /\ M \in {M}
  BY DEF Mutexes, Exactos
<1>3. Lleva(L("semaphoreList"), {}, {M})
  BY <1>2, TrasVacio, LlevaLock
<1>4. Lleva(U("semaphoreList"), M, Q)
  BY <1>2, LlevaUnlock
<1> HIDE DEF M, Q
<1>5. Lleva(closeSocketAndRemoveCPU, M, {M})
  BY <1>1, <1>2, CierraSocket
<1>6. Lleva(A, M, Q)
  BY <1>4, <1>5, LlevaLuego
<1> HIDE DEF A
<1>7. Lleva(Envia(U("semaphoreList")), M, Q)
  BY <1>1, <1>2, <1>4, LlevaEnvia
<1>8. Lleva(Recibe(Envia(U("semaphoreList")), A), M, Q)
  BY <1>6, <1>7, LlevaRecibe
<1>9. Lleva(L("semaphoreList") \o Recibe(Envia(U("semaphoreList")), A), {}, Q)
  BY <1>3, <1>8, LlevaLuego
<1> QED BY <1>9 DEF signalResource, A, M, Q

LEMMA Espera == Lleva(waitResource, {}, {{}})
<1> DEFINE A == Quizas(Nada, Pone("semaphoreList"))
           B == A \o send_int_with_delay
<1>1. Lleva(Nada, {}, {{}}) /\ {} \in {{}} /\ Tras({}, "configFile")
  BY LlevaNada, TrasVacio
<1>2. Lleva(Pone("semaphoreList"), {}, {{}})
  BY LlevaUsa
<1>3. Lleva(A, {}, {{}})
  BY <1>1, <1>2, LlevaQuizas
<1> HIDE DEF A
<1>4. Lleva(send_int_with_delay, {}, {{}})
  BY <1>1, EnviaInt
<1>5. Lleva(B, {}, {{}})
  BY <1>3, <1>4, LlevaLuego
<1> HIDE DEF B
<1>6. Lleva(Recibe(B, closeSocketAndRemoveCPU), {}, {{}})
  BY <1>5, CierraVacio, LlevaRecibe
<1>7. Lleva(Recibe(Recibe(B, closeSocketAndRemoveCPU), closeSocketAndRemoveCPU), {}, {{}})
  BY <1>6, CierraVacio, LlevaRecibe
<1> QED BY <1>7 DEF A, B, waitResource

LEMMA Conecta == Lleva(handleCpuConnection, {}, {{}, {"readyQueue"}})
<1> DEFINE N == {} \cup {"cpuList"}
           M == N \cup {"readyQueue"}
           Q == {{}, {"readyQueue"}}
           A == Pone("cpu") \o checkAndInitializeProcesses
           B == Con("cpuList", A)
<1>1. Tras(N, "readyQueue")
  BY DEF Tras, Puesto
<1>2. Lleva(Pone("cpu"), N, {N})
  BY LlevaUsa
<1>3. Lleva(checkAndInitializeProcesses, N, {M})
  BY <1>1, Inicializa
<1>4. /\ \A K \in {M} : K \ {"cpuList"} \in Q /\ ("cpuList" \in Exactos => "cpuList" \in K)
      /\ "cpuList" \in Mutexes /\ {} \in Q
  BY DEF Mutexes
<1> HIDE DEF M, Q
<1>5. Lleva(A, N, {M})
  <2> HIDE DEF N
  <2> QED BY <1>2, <1>3, LlevaLuego
<1> HIDE DEF A
<1>6. Lleva(B, {}, Q)
  BY <1>4, <1>5, TrasVacio, LlevaConFinal
<1> HIDE DEF B
<1>7. Lleva(Nada, {}, Q) /\ Tras({}, "configFile")
  BY <1>4, LlevaNada, TrasVacio
<1>8. Lleva(Envia(B), {}, Q)
  BY <1>4, <1>6, <1>7, LlevaEnvia
<1>9. Lleva(Recibe(Envia(B), Nada), {}, Q)
  BY <1>7, <1>8, LlevaRecibe
<1>10. Lleva(Recibe(Recibe(Envia(B), Nada), Nada), {}, Q)
  BY <1>7, <1>9, LlevaRecibe
<1>11. Lleva(Envia(Recibe(Recibe(Envia(B), Nada), Nada)), {}, Q)
  BY <1>4, <1>7, <1>10, LlevaEnvia
<1>12. Lleva(Envia(Envia(Recibe(Recibe(Envia(B), Nada), Nada))), {}, Q)
  BY <1>4, <1>7, <1>11, LlevaEnvia
<1> QED BY <1>12 DEF handleCpuConnection, A, B, Q

-----------------------------------------------------------------------------
(* Console.c                                                               *)

\* It locks newQueue, which executeScript has locked: the console waits for ever.
LEMMA Agrega == ASSUME NEW Q PROVE Lleva(addProcessToNewQueue, {"newQueue"}, Q)
<1> DEFINE N == {"newQueue"}
           M == N \cup {"metrics"}
           B == Pone("procesos") \o U("newQueue")
           cola == Con("newQueue", Pone("procesos"))
           A == Usa("metrics") \o cola \o Post("longTermScheduler")
<1>1. Tras(N, "metrics") /\ "newQueue" \in M \cap Exactos /\ "metrics" \in Mutexes
  BY DEF Tras, Puesto, Exactos, Mutexes
<1>2. Lleva(Usa("metrics"), M, {M})
  BY LlevaUsa
<1>3. EsSec(B) /\ EsSec(Post("longTermScheduler"))
  BY SecElementos, SecJunta
<1> HIDE DEF M
<1>4. Lleva(L("newQueue"), M, {})
  BY <1>1, LlevaAtascado
<1>5. Lleva(L("newQueue") \o Pone("procesos"), M, {})
  BY <1>4, SecElementos, LlevaFin
<1>6. Lleva(cola, M, {})
  BY <1>5, SecElementos, LlevaFin DEF Con
<1> HIDE DEF cola
<1>7. Lleva(Usa("metrics") \o cola, M, {})
  BY <1>2, <1>6, LlevaLuego
<1>8. Lleva(A, M, {})
  BY <1>3, <1>7, LlevaFin
<1> HIDE DEF A, N
<1>9. \A K \in {} : K \ {"metrics"} \in Q /\ ("metrics" \in Exactos => "metrics" \in K)
  OBVIOUS
<1>10. Lleva(Con("metrics", A), N, Q)
  BY <1>1, <1>8, <1>9, LlevaConFinal DEF M
<1> QED BY <1>10 DEF addProcessToNewQueue, A, N, cola

\* Without memory the console keeps metricsMutex.
LEMMA EjecutaScript == Lleva(executeScript, {}, {{}, {"metrics"}})
<1> DEFINE M == {"metrics"}
           Q == {{}, M}
           A == Usa("metrics") \o U("metrics")
           B == Con("newQueue", addProcessToNewQueue)
<1>1. /\ {} \cup {"metrics"} \in {M} /\ M \ {"metrics"} \in {{}} /\ M \in Q
      /\ "metrics" \in Mutexes /\ "metrics" \notin Exactos /\ "newQueue" \in Mutexes
  BY DEF Mutexes, Exactos
<1>2. Lleva(L("metrics"), {}, {M})
  BY <1>1, TrasVacio, LlevaLock
<1>3. Lleva(Usa("metrics"), M, {M}) /\ Lleva(U("metrics"), M, {{}}) /\ Lleva(Nada, M, Q)
  BY <1>1, LlevaUsa, LlevaUnlock, LlevaNada
<1> HIDE DEF M, Q
<1>4. Lleva(A, M, {{}})
  BY <1>3, LlevaLuego
<1> HIDE DEF A
<1>5. Lleva(B, {}, Q)
  <2> DEFINE N == {} \cup {"newQueue"}
  <2>1. N = {"newQueue"}
    OBVIOUS
  <2>2. Lleva(addProcessToNewQueue, N, {})
    BY <2>1, Agrega
  <2>3. \A K \in {} : K \ {"newQueue"} \in Q /\ ("newQueue" \in Exactos => "newQueue" \in K)
    OBVIOUS
  <2> QED BY <1>1, <2>2, <2>3, TrasVacio, LlevaConFinal
<1> HIDE DEF B
<1>6. Lleva(A \o B, M, Q)
  BY <1>4, <1>5, LlevaLuego
<1>7. Lleva(Quizas(A \o B, Nada), M, Q)
  BY <1>3, <1>6, LlevaQuizas
<1>8. Lleva(L("metrics") \o Quizas(A \o B, Nada), {}, Q)
  BY <1>2, <1>7, LlevaLuego
<1> QED BY <1>8 DEF executeScript, A, B, M, Q

LEMMA RecorreColas ==
  ASSUME NEW A, \A N : Lleva(A, N, {N})
  PROVE  Lleva(ConColas(A), {}, {{}})
<1> DEFINE N1 == {"readyQueue"}
           N2 == N1 \cup {"blockedQueue"}
           N3 == N2 \cup {"executionQueue"}
           N4 == N3 \cup {"finishedQueue"}
           M1 == N4 \ {"readyQueue"}
           M2 == M1 \ {"blockedQueue"}
           M3 == M2 \ {"executionQueue"}
           M4 == M3 \ {"finishedQueue"}
<1>1. /\ Tras(N1, "blockedQueue") /\ Tras(N2, "executionQueue") /\ Tras(N3, "finishedQueue")
      /\ {} \cup {"readyQueue"} \in {N1}
  BY DEF Tras, Puesto
<1>2. /\ {"readyQueue", "blockedQueue", "executionQueue", "finishedQueue"} \subseteq Mutexes
      /\ {"readyQueue", "blockedQueue", "executionQueue", "finishedQueue"} \cap Exactos = {}
      /\ M4 = {}
  BY DEF Mutexes, Exactos
<1>3. Lleva(L("readyQueue"), {}, {N1}) /\ Lleva(L("blockedQueue"), N1, {N2})
      /\ Lleva(L("executionQueue"), N2, {N3}) /\ Lleva(L("finishedQueue"), N3, {N4})
  <2> HIDE DEF N1
  <2> QED BY <1>1, <1>2, TrasVacio, LlevaLock
<1> HIDE DEF N1, N2, N3, N4
<1>4. Lleva(U("readyQueue"), N4, {M1}) /\ Lleva(U("blockedQueue"), M1, {M2})
      /\ Lleva(U("executionQueue"), M2, {M3}) /\ Lleva(U("finishedQueue"), M3, {M4})
  BY <1>2, LlevaUnlock
<1> HIDE DEF M1, M2, M3, M4
<1> DEFINE A2 == L("readyQueue") \o L("blockedQueue")
           A3 == A2 \o L("executionQueue")
           A4 == A3 \o L("finishedQueue")
           A5 == A4 \o A
           A6 == A5 \o U("readyQueue")
           A7 == A6 \o U("blockedQueue")
           A8 == A7 \o U("executionQueue")
           A9 == A8 \o U("finishedQueue")
<1>5. Lleva(A2, {}, {N2})
  BY <1>3, LlevaLuego
<1> HIDE DEF A2
<1>6. Lleva(A3, {}, {N3})
  BY <1>3, <1>5, LlevaLuego
<1> HIDE DEF A3
<1>7. Lleva(A4, {}, {N4})
  BY <1>3, <1>6, LlevaLuego
<1> HIDE DEF A4
<1>8. Lleva(A5, {}, {N4})
  BY <1>7, LlevaLuego
<1> HIDE DEF A5
<1>9. Lleva(A6, {}, {M1})
  BY <1>4, <1>8, LlevaLuego
<1> HIDE DEF A6
<1>10. Lleva(A7, {}, {M2})
  BY <1>4, <1>9, LlevaLuego
<1> HIDE DEF A7
<1>11. Lleva(A8, {}, {M3})
  BY <1>4, <1>10, LlevaLuego
<1> HIDE DEF A8
<1>12. Lleva(A9, {}, {M4})
  BY <1>4, <1>11, LlevaLuego
<1>13. ConColas(A) = A9
  BY DEF ConColas, A2, A3, A4, A5, A6, A7, A8
<1> HIDE DEF A9
<1> QED BY <1>2, <1>12, <1>13

LEMMA MuestraColas == Lleva(getQueuesStatus, {}, {{}}) /\ Lleva(getProcessMetrics, {}, {{}})
<1> DEFINE A == Si("apartados", Quizas(Nada, Muere), Nada)
           B == Si("procesos", Quizas(Nada, Muere), Nada)
<1>1. \A N : Lleva(Nada, N, {N}) /\ Lleva(Muere, N, {N})
  BY LlevaNada, LlevaMuere
<1>2. \A N : Lleva(Quizas(Nada, Muere), N, {N})
  BY <1>1, LlevaQuizas
<1>3. \A N : Lleva(A, N, {N})
  BY <1>1, <1>2, LlevaSi
<1>4. \A N : Lleva(B, N, {N})
  BY <1>1, <1>2, LlevaSi
<1> HIDE DEF A, B
<1>5. \A N : Lleva(B \o A, N, {N})
  BY <1>3, <1>4, LlevaLuego
<1>6. Lleva(ConColas(A), {}, {{}}) /\ Lleva(ConColas(B \o A), {}, {{}})
  BY <1>3, <1>5, RecorreColas
<1> QED BY <1>6 DEF getQueuesStatus, getProcessMetrics, A, B

LEMMA Finaliza == Lleva(terminateProcessConsole, {}, {{}})
<1>1. {} \in {{}} /\ Tras({}, "configFile")
  BY TrasVacio
<1>2. Lleva(send_int_with_delay, {}, {{}}) /\ Lleva(killProcess, {}, {{}})
  BY <1>1, EnviaInt, Mata
<1>3. Lleva(Quizas(send_int_with_delay, killProcess), {}, {{}})
  BY <1>2, LlevaQuizas
<1> QED BY <1>2, <1>3, LlevaSi DEF terminateProcessConsole

-----------------------------------------------------------------------------
(* What each thread runs                                                   *)

\* What a thread may keep between two operations.
Deja(h) ==
  IF h = "servidor" THEN {"readyQueue", "fileTable", "semaphoreList"}
  ELSE IF h = "consola" THEN {"metrics"} ELSE {}

LEMMA Entera ==
  ASSUME NEW A, NEW R, NEW Q, Lleva(A, {}, Q), \A M \in Q : M \subseteq R
  PROVE  Cumple(R, A, {})
<1>1. \A M \in Q : Cumple(R, Nada, M)
  BY CumpleVacia
<1>2. EsSec(Nada) /\ A \o Nada = A
  BY SecVacia DEF Lleva
<1>3. Cumple(R, A \o Nada, {})
  BY <1>1, <1>2 DEF Lleva
<1> QED BY <1>2, <1>3

\* Every task of the server thread keeps to the rules.
LEMMA CadaTarea == ASSUME NEW t \in DOMAIN Tarea PROVE Cumple(Deja("servidor"), Tarea[t], {})
<1> DEFINE R == Deja("servidor")
<1>1. {} \subseteq R /\ {"readyQueue"} \subseteq R /\ {"fileTable"} \subseteq R
      /\ {"semaphoreList"} \subseteq R
  BY DEF Deja
<1> HIDE DEF R
<1>2. /\ \A M \in {{}} : M \subseteq R
      /\ \A M \in {{"readyQueue"}} : M \subseteq R
      /\ \A M \in {{}, {"readyQueue"}} : M \subseteq R
      /\ \A M \in {{}, {"fileTable"}} : M \subseteq R
      /\ \A M \in {{}, {"semaphoreList"}} : M \subseteq R
  BY <1>1
<1>3. /\ Cumple(R, COMPLETED_INSTRUCTION, {}) /\ Cumple(R, _blockProcess, {})
      /\ Cumple(R, _killProcess, {}) /\ Cumple(R, processQuantumEnd, {})
  BY <1>2, Entera, EjecutoUna, BloqueaProceso, TerminaQuantum
<1>4. /\ Cumple(R, closeFile, {}) /\ Cumple(R, waitResource, {})
      /\ Cumple(R, terminateProcess, {}) /\ Cumple(R, unlockProcess, {})
  BY <1>2, Entera, CierraArchivo, Espera, TerminaProceso, DesbloqueaPorDMA
<1>5. Cumple(R, handleCpuConnection, {}) /\ Cumple(R, blockProcessInit, {})
  BY <1>2, Entera, Conecta, BloqueaInicio
<1>6. Cumple(R, checkIfFileOpen, {}) /\ Cumple(R, signalResource, {})
  BY <1>2, Entera, MiraArchivo, Senala
<1>7. /\ t = "NEW_CPU_CONNECTION"    => Tarea[t] = handleCpuConnection
      /\ t = "COMPLETED_INSTRUCTION" => Tarea[t] = COMPLETED_INSTRUCTION
      /\ t = "BLOCK_PROCESS_INIT"    => Tarea[t] = blockProcessInit
      /\ t = "BLOCK_PROCESS"         => Tarea[t] = _blockProcess
      /\ t = "PROCESS_ERROR"         => Tarea[t] = _killProcess
      /\ t = "QUANTUM_END"           => Tarea[t] = processQuantumEnd
      /\ t = "CHECK_IF_FILE_OPEN"    => Tarea[t] = checkIfFileOpen
      /\ t = "CLOSE_FILE"            => Tarea[t] = closeFile
      /\ t = "WAIT_RESOURCE"         => Tarea[t] = waitResource
      /\ t = "SIGNAL_RESOURCE"       => Tarea[t] = signalResource
      /\ t = "END_OF_SCRIPT"         => Tarea[t] = terminateProcess
      /\ t = "UNLOCK_PROCESS"        => Tarea[t] = unlockProcess
  BY DEF Tarea
<1>8. t \in {"NEW_CPU_CONNECTION", "COMPLETED_INSTRUCTION", "BLOCK_PROCESS_INIT",
             "BLOCK_PROCESS", "PROCESS_ERROR", "QUANTUM_END", "CHECK_IF_FILE_OPEN",
             "CLOSE_FILE", "WAIT_RESOURCE", "SIGNAL_RESOURCE", "END_OF_SCRIPT",
             "UNLOCK_PROCESS"}
  BY DEF Tarea
<1> QED BY <1>3, <1>4, <1>5, <1>6, <1>7, <1>8 DEF R

\* Every command of the console does.
LEMMA CadaComando == ASSUME NEW c \in DOMAIN Comando PROVE Cumple(Deja("consola"), Comando[c], {})
<1> DEFINE R == Deja("consola")
<1>1. (\A M \in {{}} : M \subseteq R) /\ (\A M \in {{}, {"metrics"}} : M \subseteq R)
  BY DEF Deja
<1> HIDE DEF R
<1>2. Lleva(Muere, {}, {{}})
  BY LlevaMuere
<1>3. Lleva(getSystemMetrics, {}, {{}})
  BY EjecutoUna DEF getSystemMetrics, COMPLETED_INSTRUCTION
<1>4. /\ Cumple(R, executeScript, {}) /\ Cumple(R, getQueuesStatus, {})
      /\ Cumple(R, terminateProcessConsole, {}) /\ Cumple(R, getSystemMetrics, {})
      /\ Cumple(R, getProcessMetrics, {}) /\ Cumple(R, Muere, {})
  BY <1>1, <1>2, <1>3, Entera, EjecutaScript, MuestraColas, Finaliza
<1>5. /\ c = "ejecutar"     => Comando[c] = executeScript
      /\ c = "status"       => Comando[c] = getQueuesStatus
      /\ c = "finalizar"    => Comando[c] = terminateProcessConsole
      /\ c = "metricas"     => Comando[c] = getSystemMetrics
      /\ c = "metricas_pid" => Comando[c] = getProcessMetrics
      /\ c = "salir"        => Comando[c] = Muere
      /\ c \in {"ejecutar", "status", "finalizar", "metricas", "metricas_pid", "salir"}
  BY DEF Comando
<1> QED BY <1>4, <1>5 DEF R

LEMMA Comienza == Cumple(Deja("servidor"), ComienzoServidor, {})
<1>1. \A M \in {{}} : M \subseteq Deja("servidor")
  OBVIOUS
<1>2. {} \in {{}} /\ Tras({}, "configFile")
  BY TrasVacio
<1>3. Lleva(ComienzoServidor, {}, {{}})
  BY <1>2, EnviaInt DEF ComienzoServidor, send_int_with_delay
<1> QED BY <1>1, <1>3, Entera

\* A begins with a wait for s.
EmpiezaEn(A, s) == \E K : EsSec(K) /\ A = Wait(s) \o K

LEMMA EmpiezaIgual ==
  ASSUME NEW A, NEW s, EmpiezaEn(A, s), NEW B, EsSec(B)
  PROVE  EmpiezaEn(A \o B, s)
<1>1. PICK K : EsSec(K) /\ A = Wait(s) \o K
  BY DEF EmpiezaEn
<1> DEFINE W == Wait(s)
           J == K \o B
<1>2. EsSec(W) /\ EsSec(K) /\ EsSec(J)
  BY <1>1, SecElementos, SecJunta
<1> HIDE DEF W
<1>3. (W \o K) \o B = W \o J
  BY <1>2, SecAsocia
<1>4. A = W \o K
  BY <1>1 DEF W
<1>5. A \o B = W \o J
  BY <1>3, <1>4
<1> HIDE DEF J
<1> QED BY <1>2, <1>5, Zenon DEF EmpiezaEn, W

LEMMA EsperaSiempre ==
  ASSUME NEW A, NEW s \in Mudos, EmpiezaEn(A, s), NEW R
  PROVE  A # Nada /\ Head(A)[1] = "wait" /\ Head(A)[2] = s /\ Cumple(R, A, {})
<1>1. PICK K : EsSec(K) /\ A = Wait(s) \o K
  BY DEF EmpiezaEn
<1>2. Lleva(Wait(s), {}, {})
  BY LlevaWait
<1>3. Cumple(R, A, {})
  BY <1>1, <1>2 DEF Lleva
<1>4. A # Nada /\ Head(A) = <<"wait", s>>
  BY <1>1, SecPrimera DEF Wait
<1> QED BY <1>3, <1>4

\* Both schedulers begin waiting for a semaphore that nobody posts.
LEMMA Planificadores ==
  /\ EmpiezaEn(longTermSchedulerThread, "longTermScheduler")
  /\ EmpiezaEn(shortTermSchedulerThread, "shortTermScheduler")
<1> DEFINE B == Quizas(addProcessToReadyQueue \o getFreeCPUs
                       \o Si("cpu", Quizas(executeProcess, Nada), Nada)
                       \o _checkExecProc_and_algorithm, Nada)
<1>1. /\ \A m : EsSec(L(m)) /\ EsSec(U(m)) /\ EsSec(Wait(m)) /\ EsSec(Post(m))
      /\ EsSec(Si("procesos", B, Nada))
  <2> HIDE DEF B
  <2> QED BY SecElementos
<1> HIDE DEF B
<1>2. ASSUME NEW s, NEW r PROVE EmpiezaEn(Wait(s) \o Wait(r), s)
  BY <1>1 DEF EmpiezaEn
<1>3. ASSUME NEW A, NEW s, EmpiezaEn(A, s)
      PROVE  \A m : EmpiezaEn(A \o L(m), s) /\ EmpiezaEn(A \o U(m), s)
                    /\ EmpiezaEn(A \o Post(m), s)
  BY <1>1, <1>3, EmpiezaIgual
<1>4. ASSUME NEW A, NEW s, EmpiezaEn(A, s)
      PROVE  EmpiezaEn(A \o Si("procesos", B, Nada), s)
  BY <1>1, <1>4, EmpiezaIgual
<1>5. EmpiezaEn(longTermSchedulerThread, "longTermScheduler")
  <2> DEFINE A2 == Wait("longTermScheduler") \o Wait("schedulerNotRunning")
             A4 == A2 \o L("newQueue") \o L("readyQueue")
             A5 == A4 \o Si("procesos", B, Nada)
             A7 == A5 \o U("readyQueue") \o U("newQueue")
             s  == "longTermScheduler"
  <2>1. EmpiezaEn(A2, s)
    BY <1>2
  <2> HIDE DEF A2, s
  <2>2. EmpiezaEn(A4, s)
    BY <1>3, <2>1
  <2> HIDE DEF A4
  <2>3. EmpiezaEn(A5, s)
    BY <1>4, <2>2
  <2> HIDE DEF A5
  <2>4. EmpiezaEn(A7, s)
    BY <1>3, <2>3
  <2> HIDE DEF A7
  <2>5. EmpiezaEn(A7 \o Post("schedulerNotRunning"), s)
    BY <1>3, <2>4
  <2> QED BY <2>5 DEF longTermSchedulerThread, B, A2, A4, A5, A7, s
<1>6. EmpiezaEn(shortTermSchedulerThread, "shortTermScheduler")
  <2> DEFINE A2 == Wait("shortTermScheduler") \o Wait("schedulerNotRunning")
             A4 == A2 \o L("readyQueue") \o L("ioReadyQueue")
             A6 == A4 \o U("readyQueue") \o U("ioReadyQueue")
             s  == "shortTermScheduler"
  <2>1. EmpiezaEn(A2, s)
    BY <1>2
  <2> HIDE DEF A2, s
  <2>2. EmpiezaEn(A4, s)
    BY <1>3, <2>1
  <2> HIDE DEF A4
  <2>3. EmpiezaEn(A6, s)
    BY <1>3, <2>2
  <2> HIDE DEF A6
  <2>4. EmpiezaEn(A6 \o Post("schedulerNotRunning"), s)
    BY <1>3, <2>3
  <2> QED BY <2>4 DEF shortTermSchedulerThread, A2, A4, A6, s
<1> QED BY <1>5, <1>6

-----------------------------------------------------------------------------
(* The invariant                                                           *)

\* h, with A left to run and the mutexes in `antes` from earlier operations: N is what it
\* locked in this one, another may have unlocked some of it, and d owns the mutexes.
De(d, h) == {m \in Mutexes : d[m] = h}

Sostiene(h, A, d, antes, N) ==
  /\ Cumple(Deja(h), A, N)
  /\ De(d, h) \ antes \subseteq N
  /\ \A m \in N \cap Exactos : d[m] = h

Obreros == {"servidor", "consola"}

\* The schedulers never pass their first wait, for no process enters newQueue.
Invariante ==
  /\ dueno \in [Mutexes -> Hilos \cup {Nadie}]
  /\ guion = [h \in Hilos |-> guion[h]]
  /\ deAntes \in [Hilos -> SUBSET Mutexes]
  /\ "procesos" \notin datos
  /\ \A s \in Mudos : sem[s] = 0
  /\ vivo => /\ guion["LTS"] = longTermSchedulerThread
             /\ guion["STS"] = shortTermSchedulerThread
  /\ \A h \in Hilos : deAntes[h] \subseteq Deja(h)
  /\ \A h \in Obreros : \E N : Sostiene(h, guion[h], dueno, deAntes[h], N)

LEMMA Inicial == Init => Invariante
<1> SUFFICES ASSUME Init PROVE Invariante
  OBVIOUS
<1>1. /\ dueno \in [Mutexes -> Hilos \cup {Nadie}]
      /\ guion = [h \in Hilos |-> guion[h]]
      /\ deAntes \in [Hilos -> SUBSET Mutexes]
      /\ \A h \in Hilos : deAntes[h] \subseteq Deja(h)
      /\ guion["LTS"] = longTermSchedulerThread /\ guion["STS"] = shortTermSchedulerThread
      /\ guion["servidor"] = ComienzoServidor /\ guion["consola"] = Nada
      /\ "procesos" \notin datos
  BY DEF Init, Hilos
<1>2. \A s \in Mudos : sem[s] = 0
  BY DEF Init, Mudos, Semaforos
<1>3. \A h \in Hilos : De(dueno, h) = {}
  BY NadieOK DEF Init, De
<1>4. Sostiene("servidor", guion["servidor"], dueno, deAntes["servidor"], {})
  BY <1>1, <1>3, Comienza DEF Sostiene, Hilos
<1>5. Sostiene("consola", guion["consola"], dueno, deAntes["consola"], {})
  <2>1. Cumple(Deja("consola"), Nada, {})
    BY CumpleVacia
  <2> QED BY <1>1, <1>3, <2>1 DEF Sostiene, Hilos
<1> QED BY <1>1, <1>2, <1>4, <1>5 DEF Invariante, Obreros

\* A scheduler cannot run: it is at its wait.
LEMMA NoPlanifica ==
  ASSUME Invariante, NEW h \in Hilos \ Obreros, vivo
  PROVE  Actual(h)[1] = "wait" /\ sem[Actual(h)[2]] = 0
<1>1. h = "LTS" \/ h = "STS"
  BY DEF Hilos, Obreros
<1>2. CASE h = "LTS"
  <2>1. Actual(h)[1] = "wait" /\ Actual(h)[2] = "longTermScheduler"
    BY <1>2, Planificadores, EsperaSiempre DEF Invariante, Actual, Mudos
  <2> QED BY <2>1 DEF Invariante, Mudos
<1>3. CASE h = "STS"
  <2>1. Actual(h)[1] = "wait" /\ Actual(h)[2] = "shortTermScheduler"
    BY <1>3, Planificadores, EsperaSiempre DEF Invariante, Actual, Mudos
  <2> QED BY <2>1 DEF Invariante, Mudos
<1> QED BY <1>1, <1>2, <1>3

LEMMA SoloObreros ==
  ASSUME Invariante, NEW h \in Hilos, Ejecutar(h) \/ Llegar(h)
  PROVE  h \in Obreros
<1> SUFFICES ASSUME h \notin Obreros PROVE FALSE
  OBVIOUS
<1>1. vivo
  BY DEF Ejecutar, Llegar, Sincronizar, Decidir, Acceder, Morir, Sigue
<1>2. Actual(h)[1] = "wait" /\ sem[Actual(h)[2]] = 0
  BY <1>1, NoPlanifica
<1>3. ~Decidir(h) /\ ~Llegar(h) /\ ~Acceder(h) /\ ~Morir(h)
  BY <1>2 DEF Decidir, Llegar, Acceder, Morir
<1>4. ~Sincronizar(h)
  <2> SUFFICES ASSUME Sincronizar(h) PROVE FALSE
    OBVIOUS
  <2>1. sem[Actual(h)[2]] > 0
    BY <1>2 DEF Sincronizar
  <2> QED BY <1>2, <2>1
<1> QED BY <1>3, <1>4 DEF Ejecutar

\* What the rules say of a thread's next element.
LEMMA Regla ==
  ASSUME NEW R, NEW A, NEW N, Cumple(R, A, N), A # Nada
  PROVE  LET i == Head(A)[1]
             x == Head(A)[2]
             K == Tail(A)
         IN  /\ i = "lock" => /\ x \in Mutexes
                              /\ \/ x \in N \cap Exactos
                                 \/ Tras(N, x) /\ Cumple(R, K, N \cup {x})
             /\ i = "unlock" => /\ x \in Mutexes /\ (x \in Exactos => x \in N)
                                /\ Cumple(R, K, N \ {x})
             /\ i = "wait" => x \in Mudos
             /\ i # "post"
             /\ i = "si" => /\ Mira(Head(A), N)
                            /\ x # "procesos" => Cumple(R, Head(A)[3] \o K, N)
                            /\ Cumple(R, Head(A)[4] \o K, N)
             /\ i = "recibe" => Cumple(R, x \o K, N) /\ Cumple(R, Head(A)[3] \o K, N)
             /\ i \in {"usa", "pone", "saca"} =>
                  /\ x = "fileTable" => x \in N
                  /\ x = "procesos" => i # "pone"
                  /\ Cumple(R, K, N)
<1>1. PICK S : Cerrado(R, S) /\ <<A, N>> \in S
  BY DEF Cumple
<1>2. Bien(R, S, A, N)
  BY <1>1 DEF Cerrado
<1>3. \A B, M : <<B, M>> \in S => Cumple(R, B, M)
  BY <1>1 DEF Cumple
<1> QED BY <1>2, <1>3 DEF Bien

-----------------------------------------------------------------------------
(* Every step keeps it                                                     *)

\* What a step of h may do to the mutexes: h ends with what M says, and nobody else gains
\* one, or loses one that only its owner unlocks.
Reparte(h, M) ==
  /\ dueno' \in [Mutexes -> Hilos \cup {Nadie}]
  /\ De(dueno', h) \ deAntes[h] \subseteq M
  /\ \A m \in M \cap Exactos : dueno'[m] = h
  /\ \A g \in Hilos \ {h} : /\ \A m \in Mutexes : dueno'[m] = g => dueno[m] = g
                            /\ \A m \in Exactos : dueno[m] = g => dueno'[m] = g

\* A step that leaves h with A and the others with what they had.
LEMMA PasoDe ==
  ASSUME Invariante, NEW h \in Obreros, NEW A, NEW M, Queda(h, A), Reparte(h, M),
         Cumple(Deja(h), A, M), "procesos" \notin datos', sem' = sem, vivo' = vivo
  PROVE  Invariante'
<1>1. h \in Hilos /\ h # "LTS" /\ h # "STS" /\ Exactos \subseteq Mutexes
  BY DEF Obreros, Hilos, Exactos, Mutexes
<1>2. /\ guion' = [guion EXCEPT ![h] = A]
      /\ deAntes' = [deAntes EXCEPT ![h] = IF A = Nada THEN {} ELSE @]
  BY <1>1 DEF Queda, Nada
<1>3. /\ guion' = [g \in Hilos |-> guion'[g]] /\ deAntes' \in [Hilos -> SUBSET Mutexes]
      /\ guion'[h] = A /\ deAntes'[h] = IF A = Nada THEN {} ELSE deAntes[h]
      /\ \A g \in Hilos \ {h} : guion'[g] = guion[g] /\ deAntes'[g] = deAntes[g]
  BY <1>1, <1>2 DEF Invariante
<1>4. \A g \in Hilos : deAntes'[g] \subseteq Deja(g)
  BY <1>3 DEF Invariante
<1>5. vivo' => /\ guion'["LTS"] = longTermSchedulerThread
               /\ guion'["STS"] = shortTermSchedulerThread
  BY <1>1, <1>3 DEF Invariante, Hilos
<1>6. \E N : Sostiene(h, guion'[h], dueno', deAntes'[h], N)
  <2>1. CASE A = Nada
    <3> DEFINE N == De(dueno', h)
    <3>1. M \subseteq Deja(h)
      BY <2>1, CumpleVacia
    <3>2. N \subseteq Deja(h)
      BY <1>1, <3>1 DEF Reparte, Invariante
    <3>3. Cumple(Deja(h), Nada, N)
      BY <3>2, CumpleVacia
    <3>4. \A m \in N : dueno'[m] = h
      BY DEF De
    <3> HIDE DEF N
    <3>5. Sostiene(h, guion'[h], dueno', deAntes'[h], N)
      BY <1>3, <2>1, <3>3, <3>4 DEF Sostiene, N
    <3> QED BY <3>5
  <2>2. CASE A # Nada
    <3>1. Sostiene(h, guion'[h], dueno', deAntes'[h], M)
      BY <1>3, <2>2 DEF Sostiene, Reparte
    <3> QED BY <3>1
  <2> QED BY <2>1, <2>2
<1>7. ASSUME NEW g \in Obreros, g # h PROVE \E N : Sostiene(g, guion'[g], dueno', deAntes'[g], N)
  <2>1. PICK N : Sostiene(g, guion[g], dueno, deAntes[g], N)
    BY <1>7 DEF Invariante
  <2>2. g \in Hilos \ {h}
    BY <1>7 DEF Obreros, Hilos
  <2>3. De(dueno', g) \subseteq De(dueno, g)
    BY <2>2 DEF Reparte, De
  <2>4. \A m \in N \cap Exactos : dueno'[m] = g
    BY <2>1, <2>2 DEF Reparte, Sostiene
  <2>5. Sostiene(g, guion'[g], dueno', deAntes'[g], N)
    BY <1>3, <2>1, <2>2, <2>3, <2>4 DEF Sostiene
  <2> QED BY <2>5
<1>8. \A g \in Obreros : \E N : Sostiene(g, guion'[g], dueno', deAntes'[g], N)
  BY <1>6, <1>7
<1> QED BY <1>3, <1>4, <1>5, <1>8 DEF Invariante, Reparte

\* The mutexes stay as they are.
LEMMA ReparteIgual ==
  ASSUME Invariante, NEW h \in Hilos, NEW N, Sostiene(h, guion[h], dueno, deAntes[h], N), dueno' = dueno
  PROVE  Reparte(h, N)
BY DEF Reparte, Sostiene, Invariante, De

LEMMA PasoSincronizar ==
  ASSUME Invariante, NEW h \in Obreros, Sincronizar(h)
  PROVE  Invariante'
<1> DEFINE i == Actual(h)[1]
           x == Actual(h)[2]
<1>1. PICK N : Sostiene(h, guion[h], dueno, deAntes[h], N)
  BY DEF Invariante
<1>2. Cumple(Deja(h), guion[h], N) /\ guion[h] # Nada
  BY <1>1 DEF Sostiene, Sincronizar, Sigue, Ocioso
<1>3. /\ i = "lock" => /\ x \in Mutexes
                       /\ \/ x \in N \cap Exactos
                          \/ Cumple(Deja(h), Resto(h), N \cup {x})
      /\ i = "unlock" => /\ x \in Mutexes /\ (x \in Exactos => x \in N)
                         /\ Cumple(Deja(h), Resto(h), N \ {x})
      /\ i = "wait" => x \in Mudos
      /\ i # "post"
  BY <1>2, Regla DEF Actual, Resto
<1>4. h \in Hilos /\ h # Nadie /\ Mutexes \cap Semaforos = {}
  BY NadieOK DEF Obreros, Hilos, Mutexes, Semaforos
<1>5. /\ i = "lock" => dueno[x] = Nadie
      /\ i = "wait" => sem[x] > 0
      /\ dueno' = IF x \in Mutexes
                  THEN [dueno EXCEPT ![x] = IF i = "lock" THEN h ELSE Nadie] ELSE dueno
      /\ x \in Mutexes => sem' = sem
      /\ Queda(h, Resto(h)) /\ datos' = datos /\ vivo' = vivo
      /\ i \in {"lock", "unlock", "wait", "post"}
  BY <1>4 DEF Sincronizar, Sincroniza
<1> HIDE DEF i, x
<1>6. i # "wait"
  <2> SUFFICES ASSUME i = "wait" PROVE FALSE
    OBVIOUS
  <2>1. sem[x] = 0 /\ sem[x] > 0
    BY <1>3, <1>5 DEF Invariante
  <2> QED BY <2>1
<1>7. CASE i = "lock"
  <2>1. dueno' = [dueno EXCEPT ![x] = h] /\ x \in Mutexes /\ dueno[x] = Nadie
    BY <1>3, <1>5, <1>7
  <2>2. Cumple(Deja(h), Resto(h), N \cup {x})
    BY <1>1, <1>3, <1>4, <1>7, <2>1 DEF Sostiene
  <2>3. dueno' \in [Mutexes -> Hilos \cup {Nadie}] /\ dueno'[x] = h
        /\ \A m \in Mutexes \ {x} : dueno'[m] = dueno[m]
    BY <1>4, <2>1 DEF Invariante
  <2>4. Exactos \subseteq Mutexes
    BY DEF Exactos, Mutexes
  <2>5. /\ De(dueno', h) \ deAntes[h] \subseteq N \cup {x}
        /\ \A m \in (N \cup {x}) \cap Exactos : dueno'[m] = h
    BY <1>1, <2>3, <2>4 DEF Sostiene, De
  <2>6. \A g \in Hilos \ {h} : /\ \A m \in Mutexes : dueno'[m] = g => dueno[m] = g
                               /\ \A m \in Exactos : dueno[m] = g => dueno'[m] = g
    BY <2>1, <2>3, <2>4, NadieOK
  <2>7. Reparte(h, N \cup {x})
    BY <2>3, <2>5, <2>6 DEF Reparte
  <2> QED BY <1>3, <1>5, <1>7, <2>2, <2>7, PasoDe DEF Invariante
<1>8. CASE i = "unlock"
  <2>1. dueno' = [dueno EXCEPT ![x] = Nadie] /\ x \in Mutexes
    BY <1>3, <1>5, <1>8
  <2>2. dueno' \in [Mutexes -> Hilos \cup {Nadie}] /\ dueno'[x] = Nadie
        /\ \A m \in Mutexes \ {x} : dueno'[m] = dueno[m]
    BY <2>1 DEF Invariante
  <2>3. Exactos \subseteq Mutexes
    BY DEF Exactos, Mutexes
  <2>4. /\ De(dueno', h) \ deAntes[h] \subseteq N \ {x}
        /\ \A m \in (N \ {x}) \cap Exactos : dueno'[m] = h
    BY <1>1, <1>4, <2>2, <2>3 DEF Sostiene, De
  <2>5. x \in Exactos => dueno[x] = h
    BY <1>1, <1>3, <1>8 DEF Sostiene
  <2>6. \A g \in Hilos \ {h} : /\ \A m \in Mutexes : dueno'[m] = g => dueno[m] = g
                               /\ \A m \in Exactos : dueno[m] = g => dueno'[m] = g
    BY <2>2, <2>3, <2>5, NadieOK
  <2>7. Reparte(h, N \ {x})
    BY <2>2, <2>4, <2>6 DEF Reparte
  <2> QED BY <1>3, <1>5, <1>8, <2>7, PasoDe DEF Invariante
<1> QED BY <1>3, <1>5, <1>6, <1>7, <1>8

LEMMA PasoDecidir ==
  ASSUME Invariante, NEW h \in Obreros, Decidir(h)
  PROVE  Invariante'
<1> DEFINE c == Actual(h)[2]
           B(v) == (IF v THEN Actual(h)[3] ELSE Actual(h)[4]) \o Resto(h)
<1>1. PICK N : Sostiene(h, guion[h], dueno, deAntes[h], N)
  BY DEF Invariante
<1>2. Cumple(Deja(h), guion[h], N) /\ guion[h] # Nada /\ Actual(h)[1] = "si"
  BY <1>1 DEF Sostiene, Decidir, Sigue, Ocioso
<1>3. /\ c # "procesos" => Cumple(Deja(h), Actual(h)[3] \o Resto(h), N)
      /\ Cumple(Deja(h), Actual(h)[4] \o Resto(h), N)
  BY <1>2, Regla DEF Actual, Resto
<1>4. PICK v \in Valores(c) : Queda(h, B(v))
  BY DEF Decidir
<1>5. c = "procesos" => v = FALSE
  BY DEF Valores, Datos, Invariante
<1>6. Cumple(Deja(h), B(v), N)
  BY <1>3, <1>5
<1>7. dueno' = dueno /\ datos' = datos /\ sem' = sem /\ vivo' = vivo /\ h \in Hilos
  BY DEF Decidir, Obreros, Hilos
<1>8. Reparte(h, N)
  BY <1>1, <1>7, ReparteIgual
<1> HIDE DEF B
<1> QED BY <1>4, <1>6, <1>7, <1>8, PasoDe DEF Invariante

LEMMA PasoLlegar ==
  ASSUME Invariante, NEW h \in Obreros, Llegar(h)
  PROVE  Invariante'
<1> DEFINE B(v) == (IF v THEN Actual(h)[2] ELSE Actual(h)[3]) \o Resto(h)
<1>1. PICK N : Sostiene(h, guion[h], dueno, deAntes[h], N)
  BY DEF Invariante
<1>2. Cumple(Deja(h), guion[h], N) /\ guion[h] # Nada /\ Actual(h)[1] = "recibe"
  BY <1>1 DEF Sostiene, Llegar, Sigue, Ocioso
<1>3. /\ Cumple(Deja(h), Actual(h)[2] \o Resto(h), N)
      /\ Cumple(Deja(h), Actual(h)[3] \o Resto(h), N)
  BY <1>2, Regla DEF Actual, Resto
<1>4. PICK v \in BOOLEAN : Queda(h, B(v))
  BY DEF Llegar
<1>5. Cumple(Deja(h), B(v), N)
  BY <1>3
<1>6. dueno' = dueno /\ datos' = datos /\ sem' = sem /\ vivo' = vivo /\ h \in Hilos
  BY DEF Llegar, Obreros, Hilos
<1>7. Reparte(h, N)
  BY <1>1, <1>6, ReparteIgual
<1> HIDE DEF B
<1> QED BY <1>4, <1>5, <1>6, <1>7, PasoDe DEF Invariante

LEMMA PasoAcceder ==
  ASSUME Invariante, NEW h \in Obreros, Acceder(h)
  PROVE  Invariante'
<1> DEFINE i == Actual(h)[1]
           d == Actual(h)[2]
<1>1. PICK N : Sostiene(h, guion[h], dueno, deAntes[h], N)
  BY DEF Invariante
<1>2. /\ Cumple(Deja(h), guion[h], N) /\ guion[h] # Nada /\ i \in {"usa", "pone", "saca"}
      /\ datos' \in Quedan(i, d) /\ Queda(h, Resto(h))
      /\ dueno' = dueno /\ sem' = sem /\ vivo' = vivo /\ h \in Hilos
  BY <1>1 DEF Sostiene, Acceder, Sigue, Ocioso, Obreros, Hilos
<1>3. (d = "procesos" => i # "pone") /\ Cumple(Deja(h), Resto(h), N)
  BY <1>2, Regla DEF Actual, Resto
<1> HIDE DEF i, d
<1>4. "procesos" \notin datos'
  BY <1>2, <1>3 DEF Quedan, Invariante
<1>5. Reparte(h, N)
  BY <1>1, <1>2, ReparteIgual
<1> QED BY <1>2, <1>3, <1>4, <1>5, PasoDe

\* The process ends: nobody has anything.
LEMMA PasoMorir ==
  ASSUME Invariante, NEW h \in Hilos, Morir(h)
  PROVE  Invariante'
<1>1. /\ dueno' = [m \in Mutexes |-> Nadie] /\ guion' = [g \in Hilos |-> Nada]
      /\ deAntes' = [g \in Hilos |-> {}] /\ datos' = {} /\ sem' = sem /\ vivo' = FALSE
  BY DEF Morir
<1>2. ASSUME NEW g \in Obreros PROVE Sostiene(g, guion'[g], dueno', deAntes'[g], {})
  <2>1. g \in Hilos
    BY DEF Obreros, Hilos
  <2>2. Cumple(Deja(g), Nada, {})
    BY CumpleVacia
  <2>3. De(dueno', g) = {}
    BY <1>1, <2>1, NadieOK DEF De
  <2> QED BY <1>1, <2>1, <2>2, <2>3 DEF Sostiene
<1> QED BY <1>1, <1>2 DEF Invariante

\* The server thread gets a task, or the console a command.
LEMMA PasoEmpezar ==
  ASSUME Invariante, NEW h \in Obreros, NEW A, Empezar(h, A), Cumple(Deja(h), A, {})
  PROVE  Invariante'
<1>1. h \in Hilos /\ h # "LTS" /\ h # "STS"
  BY DEF Obreros, Hilos
<1>2. /\ guion' = [guion EXCEPT ![h] = A] /\ deAntes' = [deAntes EXCEPT ![h] = Tiene(h)]
      /\ dueno' = dueno /\ sem' = sem /\ datos' = datos /\ vivo' = vivo /\ guion[h] = Nada
  BY DEF Empezar, Ocioso
<1>3. /\ guion' = [g \in Hilos |-> guion'[g]] /\ deAntes' \in [Hilos -> SUBSET Mutexes]
      /\ guion'[h] = A /\ deAntes'[h] = De(dueno, h)
      /\ \A g \in Hilos \ {h} : guion'[g] = guion[g] /\ deAntes'[g] = deAntes[g]
  BY <1>1, <1>2 DEF Invariante, De, Tiene
<1>4. \A g \in Hilos : De(dueno', g) = De(dueno, g)
  BY <1>2 DEF De
<1>5. De(dueno, h) \subseteq Deja(h)
  <2>1. PICK N : Sostiene(h, guion[h], dueno, deAntes[h], N)
    BY DEF Invariante
  <2>2. N \subseteq Deja(h)
    BY <1>2, <2>1, CumpleVacia DEF Sostiene
  <2> QED BY <1>1, <2>1, <2>2 DEF Sostiene, Invariante
<1>6. \A g \in Hilos : deAntes'[g] \subseteq Deja(g)
  BY <1>3, <1>5 DEF Invariante
<1>7. vivo' => /\ guion'["LTS"] = longTermSchedulerThread
               /\ guion'["STS"] = shortTermSchedulerThread
  BY <1>1, <1>2, <1>3 DEF Invariante, Hilos
<1>8. Sostiene(h, guion'[h], dueno', deAntes'[h], {})
  BY <1>1, <1>3, <1>4 DEF Sostiene
<1>9. ASSUME NEW g \in Obreros, g # h PROVE \E N : Sostiene(g, guion'[g], dueno', deAntes'[g], N)
  <2>1. PICK N : Sostiene(g, guion[g], dueno, deAntes[g], N)
    BY DEF Invariante
  <2>2. g \in Hilos \ {h}
    BY <1>9 DEF Obreros, Hilos
  <2>3. Sostiene(g, guion'[g], dueno', deAntes'[g], N)
    BY <1>2, <1>3, <1>4, <2>1, <2>2 DEF Sostiene
  <2> QED BY <2>3
<1>10. \A g \in Obreros : \E N : Sostiene(g, guion'[g], dueno', deAntes'[g], N)
  BY <1>8, <1>9
<1> QED BY <1>2, <1>3, <1>6, <1>7, <1>10 DEF Invariante

LEMMA Paso == Invariante /\ [Next]_vars => Invariante'
<1> SUFFICES ASSUME Invariante, [Next]_vars PROVE Invariante'
  OBVIOUS
<1>1. CASE RecibirTarea
  <2>1. PICK t \in DOMAIN Tarea : Empezar("servidor", Tarea[t])
    BY <1>1 DEF RecibirTarea
  <2> QED BY <2>1, CadaTarea, PasoEmpezar DEF Obreros
<1>2. CASE LeerComando
  <2>1. PICK c \in DOMAIN Comando : Empezar("consola", Comando[c])
    BY <1>2 DEF LeerComando
  <2> QED BY <2>1, CadaComando, PasoEmpezar DEF Obreros
<1>3. ASSUME NEW h \in Hilos, Ejecutar(h) \/ Llegar(h) PROVE Invariante'
  <2>1. h \in Obreros
    BY <1>3, SoloObreros
  <2> QED BY <1>3, <2>1, PasoSincronizar, PasoDecidir, PasoAcceder, PasoMorir, PasoLlegar
          DEF Ejecutar
<1>4. CASE UNCHANGED vars
  BY <1>4 DEF vars, Invariante, Sostiene, De
<1> QED BY <1>1, <1>2, <1>3, <1>4 DEF Next

THEOREM Invariantes == Spec => []Invariante
BY Inicial, Paso, PTL DEF Spec

-----------------------------------------------------------------------------
(* What follows from it                                                    *)

\* The S-AFA never has a process to schedule: the only function that adds one to newQueue
\* never gets its mutex, so that both schedulers wait for ever for their semaphores.
NingunProceso == "procesos" \notin datos /\ \A s \in Mudos : sem[s] = 0

THEOREM SinProcesos == Spec => []NingunProceso
<1>1. Invariante => NingunProceso
  BY DEF Invariante, NingunProceso
<1> QED BY <1>1, Invariantes, PTL

\* A thread goes for a mutex only after those it has locked in its operation, in one order
\* of all of them; or it has that mutex, and waits for itself.
OrdenUnico ==
  \A h \in Hilos : \A m \in Quiere(h) :
    dueno[m] = h \/ \A n \in Tiene(h) \ deAntes[h] : Puesto(n) < Puesto(m)

LEMMA EnOrden == Invariante => OrdenUnico
<1> SUFFICES ASSUME Invariante, NEW h \in Hilos, NEW m \in Quiere(h)
             PROVE  dueno[m] = h \/ \A n \in Tiene(h) \ deAntes[h] : Puesto(n) < Puesto(m)
  BY DEF OrdenUnico
<1>1. Sigue(h) /\ Actual(h)[1] = "lock" /\ m = Actual(h)[2]
  BY DEF Quiere
<1>2. h \in Obreros
  BY <1>1, NoPlanifica DEF Sigue
<1>3. PICK N : Sostiene(h, guion[h], dueno, deAntes[h], N)
  BY <1>2 DEF Invariante
<1>4. Cumple(Deja(h), guion[h], N) /\ guion[h] # Nada
  BY <1>1, <1>3 DEF Sostiene, Sigue, Ocioso
<1>5. m \in N \cap Exactos \/ Tras(N, m)
  BY <1>1, <1>4, Regla DEF Actual
<1> QED BY <1>3, <1>5 DEF Sostiene, Tras, Tiene, De

THEOREM UnSoloOrden == Spec => []OrdenUnico
BY EnOrden, Invariantes, PTL

\* No ring of threads, each waiting for a mutex that the next one locked in the operation
\* it is in: going round it the place in the order would grow for ever.
THEOREM NadieEsperaEnCirculo == Spec => []SinEsperaCircular
<1>1. ASSUME Invariante PROVE SinEsperaCircular
  <2> SUFFICES ASSUME NEW C \in SUBSET Hilos, Cardinality(C) >= 2,
                      \A h \in C : \E m \in Quiere(h) : \E g \in C \ {h} :
                        m \in Tiene(g) \ deAntes[g]
               PROVE  FALSE
    BY DEF SinEsperaCircular
  <2>1. C # {}
    <3>1. ~(0 >= 2)
      OBVIOUS
    <3> QED BY <3>1, FS_EmptySet
  <2>2. PICK h \in C : TRUE
    BY <2>1
  <2>3. PICK m \in Quiere(h) : \E g \in C \ {h} : m \in Tiene(g) \ deAntes[g]
    BY <2>2
  <2>4. PICK g \in C \ {h} : m \in Tiene(g) \ deAntes[g]
    BY <2>3
  <2>5. PICK n \in Quiere(g) : \E f \in C \ {g} : n \in Tiene(f) \ deAntes[f]
    BY <2>4
  <2>6. PICK f \in C \ {g} : n \in Tiene(f) \ deAntes[f]
    BY <2>5
  <2>7. C \subseteq Obreros
    <3> SUFFICES ASSUME NEW k \in C, k \notin Obreros PROVE FALSE
      OBVIOUS
    <3>1. PICK x \in Quiere(k) : TRUE
      OBVIOUS
    <3>2. Sigue(k) /\ Actual(k)[1] = "lock"
      BY <3>1 DEF Quiere
    <3> QED BY <1>1, <3>2, NoPlanifica DEF Sigue
  <2>8. f = h
    BY <2>4, <2>6, <2>7 DEF Obreros
  <2>9. dueno[m] = g /\ dueno[n] = h /\ g # h
    BY <2>4, <2>6, <2>8 DEF Tiene
  <2>10. Puesto(n) < Puesto(m)
    BY <1>1, <2>3, <2>6, <2>8, <2>9, EnOrden DEF OrdenUnico
  <2>11. Puesto(m) < Puesto(n)
    BY <1>1, <2>4, <2>5, <2>9, EnOrden DEF OrdenUnico
  <2>12. Puesto(m) \in Int /\ Puesto(n) \in Int
    BY DEF Puesto
  <2> QED BY <2>10, <2>11, <2>12
<1> QED BY <1>1, Invariantes, PTL

\* For any number of CPUs, whatever sends and receives fail and whichever mutexes another
\* thread unlocks: every access to fileTable is made by the owner of fileTableMutex, but
\* for the look-up of the semaphores' names, made by the owner of semaphoreListMutex.
THEOREM TablaSiempreProtegida == Spec => []TablaProtegida
<1>1. ASSUME Invariante PROVE TablaProtegida
  <2> SUFFICES ASSUME NEW h \in Hilos, Accede(h, "fileTable")
               PROVE  \/ dueno["fileTable"] = h
                      \/ Actual(h) = Head(SemaforoEnTabla) /\ dueno["semaphoreList"] = h
    BY DEF TablaProtegida
  <2>1. h \in Obreros
    BY <1>1, NoPlanifica DEF Accede, Sigue
  <2>2. PICK N : Sostiene(h, guion[h], dueno, deAntes[h], N)
    BY <1>1, <2>1 DEF Invariante
  <2>3. Cumple(Deja(h), guion[h], N) /\ guion[h] # Nada
    BY <2>2 DEF Sostiene, Accede, Sigue, Ocioso
  <2>4. \/ "fileTable" \in N
        \/ Actual(h) = Head(SemaforoEnTabla) /\ "semaphoreList" \in N
    BY <2>3, Regla DEF Accede, Actual, Mira
  <2> QED BY <2>2, <2>4 DEF Sostiene, Exactos
<1> QED BY <1>1, Invariantes, PTL

\* Between two tasks the server thread keeps at most the mutexes of readyQueue, fileTable
\* and semaphoreList, and the console between two commands at most the metrics'.
THEOREM RetienePoco == Spec => []LoQueRetiene
<1>1. ASSUME Invariante PROVE LoQueRetiene
  <2>1. ASSUME NEW h \in Obreros, Ocioso(h) PROVE Tiene(h) \subseteq Deja(h)
    <3>1. PICK N : Sostiene(h, guion[h], dueno, deAntes[h], N)
      BY <1>1 DEF Invariante
    <3>2. N \subseteq Deja(h)
      BY <2>1, <3>1, CumpleVacia DEF Sostiene, Ocioso
    <3>3. deAntes[h] \subseteq Deja(h)
      BY <1>1 DEF Invariante, Obreros, Hilos
    <3> QED BY <3>1, <3>2, <3>3 DEF Sostiene, Tiene, De
  <2> QED BY <2>1 DEF LoQueRetiene, Obreros, Deja
<1> QED BY <1>1, Invariantes, PTL
=============================================================================

--------------------------- MODULE Segmentos_proofs ---------------------------
(***************************************************************************)
(* Theorems about Segmentos, for any processes, sizes, tables and          *)
(* algorithm: its types, and that what is created, deleted, consolidated   *)
(* and compacted leaves the memory divided among the segments.  First the  *)
(* sequences and the loops of Memoria, then the list of holes that each    *)
(* request leaves, then the steps.                                         *)
(***************************************************************************)
EXTENDS Segmentos, SequenceTheorems, WellFoundedInduction, TLAPS

-----------------------------------------------------------------------------
(* Induction, on a set and not on a formula *)

\* A set that has 0, and after each number the next one, has them all.
LEMMA Induccion ==
    ASSUME NEW N \in Nat, NEW S, 0 \in S,
           \A n \in 0 .. (N - 1) : n \in S => n + 1 \in S
    PROVE  0 .. N \subseteq S
<1> DEFINE T == (0 .. N) \ S
           R == OpToRel(<, Nat)
<1>1. SUFFICES ASSUME T # {}
               PROVE  FALSE
  OBVIOUS
<1>2. T \subseteq Nat
  OBVIOUS
<1>3. IsWellFoundedOn(R, Nat)
  BY NatLessThanWellFounded, Zenon
<1> HIDE DEF T, R
<1>4. PICK x \in T : \A y \in T : <<y, x>> \notin R
  BY <1>1, <1>2, <1>3, WFMin
<1>5. x \in 1 .. N /\ x - 1 \in T
  BY <1>4 DEF T
<1>6. \A a, b \in Nat : a < b => <<a, b>> \in R
  BY DEF R, OpToRel
<1>7. <<x - 1, x>> \in R
  BY <1>5, <1>6
<1> QED
  BY <1>4, <1>5, <1>7

\* A set of numbers has a least one.
LEMMA MinNat ==
    ASSUME NEW S \in SUBSET Nat, S # {}
    PROVE  Min(S) \in S /\ \A y \in S : Min(S) <= y
<1> DEFINE R == OpToRel(<, Nat)
<1>1. IsWellFoundedOn(R, Nat)
  BY NatLessThanWellFounded, Zenon
<1>2. \A a, b \in Nat : a < b => <<a, b>> \in R
  BY DEF R, OpToRel
<1> HIDE DEF R
<1>3. PICK x \in S : \A y \in S : <<y, x>> \notin R
  BY <1>1, WFMin
<1>4. ASSUME NEW y \in S
      PROVE  x <= y
  <2>1. x \in Nat /\ y \in Nat /\ <<y, x>> \notin R
    BY <1>3
  <2>2. y < x => <<y, x>> \in R
    BY <1>2, <2>1
  <2> QED
    BY <2>1, <2>2
<1>5. \A z \in S : (\A y \in S : z <= y) => z = x
  BY <1>4
<1> QED
  BY <1>4, <1>5 DEF Min

-----------------------------------------------------------------------------
(* Copies *)

\* What each step of a loop keeps, the loop keeps.
LEMMA EnValores ==
    ASSUME NEW N \in Nat, NEW V, NEW f, f[0] \in V,
           \A i \in 1 .. N : f[i - 1] \in V => f[i] \in V
    PROVE  \A i \in 0 .. N : f[i] \in V
<1> DEFINE S == {i \in 0 .. N : f[i] \in V}
<1>1. 0 \in S
  OBVIOUS
<1>2. ASSUME NEW n \in 0 .. (N - 1), n \in S
      PROVE  n + 1 \in S
  <2>1. n + 1 \in 1 .. N /\ (n + 1) - 1 = n /\ f[n] \in V
    BY <1>2
  <2>2. f[n + 1] \in V
    <3> DEFINE i == n + 1
    <3>1. i \in 1 .. N /\ f[i - 1] \in V
      BY <2>1
    <3> HIDE DEF i
    <3>2. f[i] \in V
      BY <3>1
    <3> QED
      BY <3>2 DEF i
  <2> QED
    BY <2>1, <2>2
<1> HIDE DEF S
<1>3. 0 .. N \subseteq S
  BY <1>1, <1>2, Induccion
<1> QED
  BY <1>3 DEF S

\* A loop that goes from a value to the next has a value after each turn.
Bucle(f, N, V, a, G) ==
    /\ f \in [0 .. N -> V] /\ f[0] = a
    /\ \A i \in 1 .. N : f[i] = G[<<i, f[i - 1]>>]

LEMMA Recursion ==
    ASSUME NEW N \in Nat, NEW V, NEW a \in V, NEW G \in [(1 .. N) \X V -> V]
    PROVE  \E f : Bucle(f, N, V, a, G)
<1> DEFINE Es(f, m) == /\ f \in [0 .. m -> V] /\ f[0] = a
                       /\ \A i \in 1 .. m : f[i] = G[<<i, f[i - 1]>>]
           S == {m \in 0 .. N : \E f : Es(f, m)}
<1>1. 0 \in S
  <2>1. Es([i \in 0 .. 0 |-> a], 0)
    OBVIOUS
  <2> HIDE DEF Es
  <2> QED
    BY <2>1
<1>2. ASSUME NEW m \in 0 .. (N - 1), m \in S
      PROVE  m + 1 \in S
  <2>1. PICK f : Es(f, m)
    BY <1>2
  <2> DEFINE n == m + 1
             g == [i \in 0 .. n |-> IF i <= m THEN f[i] ELSE G[<<n, f[m]>>]]
  <2>2. f[m] \in V /\ n \in 1 .. N /\ G[<<n, f[m]>>] \in V
    BY <2>1
  <2>3. g \in [0 .. n -> V] /\ g[0] = a
    BY <2>1, <2>2
  <2>4. ASSUME NEW i \in 1 .. n
        PROVE  g[i] = G[<<i, g[i - 1]>>]
    <3>1. CASE i <= m
      <4>1. g[i] = f[i] /\ g[i - 1] = f[i - 1] /\ i \in 1 .. m
        BY <3>1
      <4> HIDE DEF g
      <4> QED
        BY <2>1, <4>1
    <3>2. CASE i = n
      <4>1. g[i] = G[<<n, f[m]>>] /\ g[i - 1] = f[m]
        BY <3>2
      <4> HIDE DEF g
      <4> QED
        BY <3>2, <4>1
    <3> QED
      BY <3>1, <3>2
  <2>5. Es(g, n)
    BY <2>3, <2>4
  <2>6. n \in 0 .. N
    OBVIOUS
  <2> HIDE DEF g, Es, n
  <2>7. n \in S
    BY <2>5, <2>6
  <2> QED
    BY <2>7 DEF n
<1>3. N \in S
  <2> HIDE DEF S
  <2> QED
    BY <1>1, <1>2, Induccion
<1> QED
  BY <1>3 DEF Bucle

-----------------------------------------------------------------------------
(* The loops of Memoria *)

LEMMA HuecoTipo ==
    /\ \A h \in Huecos : h.base \in Nat /\ h.tamanio \in Nat /\ h.libre \in BOOLEAN
    /\ \A b, t \in Nat, l \in BOOLEAN :
          /\ Hueco(b, t, l) \in Huecos
          /\ Hueco(b, t, l).base = b /\ Hueco(b, t, l).tamanio = t
          /\ Hueco(b, t, l).libre = l
  BY DEF Huecos, Hueco

LEMMA SumaDefinida ==
    ASSUME NEW hs \in Seq(Huecos)
    PROVE  \E s : /\ s \in [0 .. Len(hs) -> Nat] /\ s[0] = 0
                  /\ \A i \in 1 .. Len(hs) : s[i] = s[i - 1] + hs[i].tamanio
                  /\ Suma(hs) = s[Len(hs)]
<1> DEFINE N == Len(hs)
           V == Nat
           a == 0
           Paso(i, v) == v + hs[i].tamanio
           G == [x \in (1 .. N) \X V |-> Paso(x[1], x[2])]
           Es(s) == s = [i \in 0 .. N |-> IF i = 0 THEN a ELSE Paso(i, s[i - 1])]
           c == CHOOSE s : Es(s)
<1>1. N \in Nat
  OBVIOUS
<1>2. a \in V
  OBVIOUS
<1>3. \A i \in 1 .. N, v \in V : Paso(i, v) \in V
  <2>1. \A i \in 1 .. N : hs[i] \in Huecos
    OBVIOUS
  <2>2. \A i \in 1 .. N : hs[i].tamanio \in Nat
    BY <2>1, HuecoTipo, Zenon
  <2> QED
    BY <2>2
<1>4. Suma(hs) = c[N]
  BY DEF Suma
<1> HIDE DEF N, V, a, Paso
<1>5. PICK f : /\ f \in [0 .. N -> V] /\ f[0] = a
               /\ \A i \in 1 .. N : f[i] = G[<<i, f[i - 1]>>]
  <2>1. G \in [(1 .. N) \X V -> V]
    BY <1>3
  <2> HIDE DEF G
  <2>2. \E f : Bucle(f, N, V, a, G)
    BY <1>1, <1>2, <2>1, Recursion, Zenon
  <2> QED
    BY <2>2 DEF Bucle
<1>6. \A i \in 1 .. N : i - 1 \in 0 .. N /\ i \in 0 .. N /\ i # 0
  BY <1>1
<1>7. ASSUME NEW i \in 1 .. N
      PROVE  f[i] = Paso(i, f[i - 1])
  <2>1. <<i, f[i - 1]>> \in (1 .. N) \X V
    BY <1>5, <1>6
  <2> QED
    BY <1>5, <2>1
<1>8. ASSUME NEW i \in 0 .. N
      PROVE  f[i] = IF i = 0 THEN a ELSE Paso(i, f[i - 1])
  <2>1. i # 0 => i \in 1 .. N
    BY <1>1
  <2> QED
    BY <1>5, <1>7, <2>1
<1>9. Es(f)
  BY <1>5, <1>8
<1>10. Es(c)
  <2> HIDE DEF Es
  <2> QED
    BY <1>9, Zenon
<1> HIDE DEF c
<1>11. /\ c[0] = a /\ \A i \in 1 .. N : c[i] = Paso(i, c[i - 1])
       /\ c = [i \in 0 .. N |-> c[i]]
  <2>1. 0 \in 0 .. N
    BY <1>1
  <2> QED
    BY <1>6, <1>10, <2>1
<1>12. \A i \in 0 .. N : c[i] \in V
  <2>1. c[0] \in V /\ \A i \in 1 .. N : c[i - 1] \in V => c[i] \in V
    BY <1>2, <1>3, <1>11
  <2> QED
    BY <1>1, <2>1, EnValores, Zenon
<1>13. c \in [0 .. N -> V]
  BY <1>11, <1>12
<1> HIDE DEF Es
<1> QED
  BY <1>4, <1>11, <1>13 DEF N, V, a, Paso

LEMMA FiltrarDefinida ==
    ASSUME NEW hs \in Seq(Huecos), NEW libre \in BOOLEAN
    PROVE  \E e : /\ e \in [0 .. Len(hs) -> Seq(Huecos)] /\ e[0] = <<>>
                  /\ \A i \in 1 .. Len(hs) :
                        e[i] = IF hs[i].libre = libre
                               THEN Append(e[i - 1], hs[i]) ELSE e[i - 1]
                  /\ Filtrar(hs, libre) = e[Len(hs)]
<1> DEFINE N == Len(hs)
           V == Seq(Huecos)
           a == <<>>
           Paso(i, v) == IF hs[i].libre = libre THEN Append(v, hs[i]) ELSE v
           G == [x \in (1 .. N) \X V |-> Paso(x[1], x[2])]
           Es(s) == s = [i \in 0 .. N |-> IF i = 0 THEN a ELSE Paso(i, s[i - 1])]
           c == CHOOSE s : Es(s)
<1>1. N \in Nat
  OBVIOUS
<1>2. a \in V
  OBVIOUS
<1>3. \A i \in 1 .. N, v \in V : Paso(i, v) \in V
  OBVIOUS
<1>4. Filtrar(hs, libre) = c[N]
  BY DEF Filtrar
<1> HIDE DEF N, V, a, Paso
<1>5. PICK f : /\ f \in [0 .. N -> V] /\ f[0] = a
               /\ \A i \in 1 .. N : f[i] = G[<<i, f[i - 1]>>]
  <2>1. G \in [(1 .. N) \X V -> V]
    BY <1>3
  <2> HIDE DEF G
  <2>2. \E f : Bucle(f, N, V, a, G)
    BY <1>1, <1>2, <2>1, Recursion, Zenon
  <2> QED
    BY <2>2 DEF Bucle
<1>6. \A i \in 1 .. N : i - 1 \in 0 .. N /\ i \in 0 .. N /\ i # 0
  BY <1>1
<1>7. ASSUME NEW i \in 1 .. N
      PROVE  f[i] = Paso(i, f[i - 1])
  <2>1. <<i, f[i - 1]>> \in (1 .. N) \X V
    BY <1>5, <1>6
  <2> QED
    BY <1>5, <2>1
<1>8. ASSUME NEW i \in 0 .. N
      PROVE  f[i] = IF i = 0 THEN a ELSE Paso(i, f[i - 1])
  <2>1. i # 0 => i \in 1 .. N
    BY <1>1
  <2> QED
    BY <1>5, <1>7, <2>1
<1>9. Es(f)
  BY <1>5, <1>8
<1>10. Es(c)
  <2> HIDE DEF Es
  <2> QED
    BY <1>9, Zenon
<1> HIDE DEF c
<1>11. /\ c[0] = a /\ \A i \in 1 .. N : c[i] = Paso(i, c[i - 1])
       /\ c = [i \in 0 .. N |-> c[i]]
  <2>1. 0 \in 0 .. N
    BY <1>1
  <2> QED
    BY <1>6, <1>10, <2>1
<1>12. \A i \in 0 .. N : c[i] \in V
  <2>1. c[0] \in V /\ \A i \in 1 .. N : c[i - 1] \in V => c[i] \in V
    BY <1>2, <1>3, <1>11
  <2> QED
    BY <1>1, <2>1, EnValores, Zenon
<1>13. c \in [0 .. N -> V]
  BY <1>11, <1>12
<1> HIDE DEF Es
<1> QED
  BY <1>4, <1>11, <1>13 DEF N, V, a, Paso

\* base_actual is c[i] after hole i.
LEMMA BasesNuevasDefinida ==
    ASSUME NEW hs \in Seq(Huecos), hs # <<>>
    PROVE  \E c : /\ c \in [0 .. Len(hs) -> Nat]
                  /\ c[1] = hs[1].base
                  /\ \A i \in 2 .. Len(hs) :
                        /\ c[i] = IF hs[i].libre THEN c[i - 1]
                                  ELSE c[i - 1] + hs[i - 1].tamanio
                        /\ BasesNuevas(hs)[i] = c[i - 1] + hs[i - 1].tamanio
                  /\ BasesNuevas(hs)[1] = hs[1].base
                  /\ BasesNuevas(hs) \in [DOMAIN hs -> Nat]
<1> DEFINE N == Len(hs)
           V == Nat
           a == hs[1].base
           Paso(i, v) == IF i <= 1 THEN hs[1].base
                         ELSE IF hs[i].libre THEN v
                         ELSE v + hs[i - 1].tamanio
           G == [x \in (1 .. N) \X V |-> Paso(x[1], x[2])]
           Es(s) == s = [i \in 0 .. N |-> Paso(i, s[i - 1])]
           c == CHOOSE s : Es(s)
<1>1. N \in Nat /\ N \in Nat \ {0} /\ 1 \in 1 .. N
  OBVIOUS
<1>0. /\ \A i \in 1 .. N : hs[i] \in Huecos /\ hs[i].tamanio \in Nat
      /\ hs[1].base \in Nat
  <2>1. \A i \in 1 .. N : hs[i] \in Huecos
    OBVIOUS
  <2> QED
    BY <1>1, <2>1, HuecoTipo
<1>2. a \in V
  BY <1>0
<1>3. ASSUME NEW i \in 1 .. N, NEW v \in V
      PROVE  Paso(i, v) \in V
  <2>1. i > 1 => i - 1 \in 1 .. N
    BY <1>1
  <2> QED
    BY <1>0, <2>1
<1>4. BasesNuevas(hs) = [i \in DOMAIN hs |->
          IF i = 1 THEN hs[1].base ELSE c[i - 1] + hs[i - 1].tamanio]
  BY DEF BasesNuevas
<1>a. \A v : Paso(0, v) = a
  OBVIOUS
<1> HIDE DEF N, V, a, Paso
<1>5. PICK f : /\ f \in [0 .. N -> V] /\ f[0] = a
               /\ \A i \in 1 .. N : f[i] = G[<<i, f[i - 1]>>]
  <2>1. G \in [(1 .. N) \X V -> V]
    BY <1>3
  <2> HIDE DEF G
  <2>2. \E f : Bucle(f, N, V, a, G)
    BY <1>1, <1>2, <2>1, Recursion, Zenon
  <2> QED
    BY <2>2 DEF Bucle
<1>6. \A i \in 1 .. N : i - 1 \in 0 .. N /\ i \in 0 .. N /\ i # 0
  BY <1>1
<1>7. ASSUME NEW i \in 1 .. N
      PROVE  f[i] = Paso(i, f[i - 1])
  <2>1. <<i, f[i - 1]>> \in (1 .. N) \X V
    BY <1>5, <1>6
  <2> QED
    BY <1>5, <2>1
<1>8. ASSUME NEW i \in 0 .. N
      PROVE  f[i] = Paso(i, f[i - 1])
  <2>1. i # 0 => i \in 1 .. N
    BY <1>1
  <2> QED
    BY <1>5, <1>7, <1>a, <2>1
<1>9. Es(f)
  BY <1>5, <1>8
<1>10. Es(c)
  <2> HIDE DEF Es
  <2> QED
    BY <1>9, Zenon
<1> HIDE DEF c
<1>11. /\ c[0] = a /\ \A i \in 1 .. N : c[i] = Paso(i, c[i - 1])
       /\ c = [i \in 0 .. N |-> c[i]]
  <2>1. 0 \in 0 .. N
    BY <1>1
  <2> QED
    BY <1>6, <1>10, <1>a, <2>1
<1>12. \A i \in 0 .. N : c[i] \in V
  <2>1. c[0] \in V /\ \A i \in 1 .. N : c[i - 1] \in V => c[i] \in V
    BY <1>2, <1>3, <1>11
  <2> QED
    BY <1>1, <2>1, EnValores, Zenon
<1>13. c \in [0 .. N -> V]
  BY <1>11, <1>12
<1> HIDE DEF Es
<1>14. DOMAIN hs = 1 .. N /\ c[1] = hs[1].base
  BY <1>1, <1>11 DEF N, Paso
<1>15. ASSUME NEW i \in 2 .. N
       PROVE  /\ c[i] = IF hs[i].libre THEN c[i - 1]
                        ELSE c[i - 1] + hs[i - 1].tamanio
              /\ BasesNuevas(hs)[i] = c[i - 1] + hs[i - 1].tamanio
  <2>1. i \in 1 .. N /\ ~(i <= 1) /\ i # 1
    BY <1>1
  <2> QED
    BY <1>4, <1>11, <1>14, <2>1 DEF Paso
<1>16. ASSUME NEW i \in DOMAIN hs
       PROVE  BasesNuevas(hs)[i] \in Nat
  <2>1. CASE i = 1
    BY <1>0, <1>4, <1>14, <2>1
  <2>2. CASE i # 1
    <3>1. i - 1 \in 0 .. N /\ i - 1 \in 1 .. N
      BY <1>1, <1>14, <2>2
    <3>2. BasesNuevas(hs)[i] = c[i - 1] + hs[i - 1].tamanio
      BY <1>4, <2>2
    <3>3. c[i - 1] \in Nat /\ hs[i - 1].tamanio \in Nat
      BY <1>0, <1>12, <3>1 DEF V
    <3> QED
      BY <3>2, <3>3
  <2> QED
    BY <2>1, <2>2
<1>17. BasesNuevas(hs) \in [DOMAIN hs -> Nat]
  BY <1>4, <1>16
<1>18. BasesNuevas(hs)[1] = hs[1].base
  BY <1>1, <1>4, <1>14
<1> QED
  BY <1>13, <1>14, <1>15, <1>17, <1>18 DEF N, V

\* The table after each hole.
LEMMA MoverSegmentosDefinida ==
    ASSUME NEW hs \in Seq(Huecos), hs # <<>>, NEW tabla \in Tablas
    PROVE  \E m : /\ m \in [0 .. Len(hs) -> Tablas]
                  /\ m[1] = tabla
                  /\ \A i \in 2 .. Len(hs) :
                        m[i] = IF hs[i].libre THEN m[i - 1]
                               ELSE MoverSegmento(m[i - 1], hs[i].base,
                                                  BasesNuevas(hs)[i])
                  /\ MoverSegmentos(tabla, hs) = m[Len(hs)]
<1> DEFINE N == Len(hs)
           V == Tablas
           a == tabla
           Paso(i, v) == IF i <= 1 THEN tabla
                         ELSE IF hs[i].libre THEN v
                         ELSE MoverSegmento(v, hs[i].base, BasesNuevas(hs)[i])
           G == [x \in (1 .. N) \X V |-> Paso(x[1], x[2])]
           Es(s) == s = [i \in 0 .. N |-> Paso(i, s[i - 1])]
           c == CHOOSE s : Es(s)
<1>1. N \in Nat /\ N \in Nat \ {0} /\ 1 \in 1 .. N
  OBVIOUS
<1>2. a \in V
  OBVIOUS
<1>3. ASSUME NEW i \in 1 .. N, NEW v \in V
      PROVE  Paso(i, v) \in V
  <2>1. ASSUME NEW vieja, NEW b \in Nat
        PROVE  MoverSegmento(v, vieja, b) \in V
    BY DEF MoverSegmento, Tablas
  <2>2. BasesNuevas(hs)[i] \in Nat
    BY BasesNuevasDefinida
  <2> QED
    BY <2>1, <2>2
<1>4. MoverSegmentos(tabla, hs) = c[N]
  BY DEF MoverSegmentos
<1>a. \A v : Paso(0, v) = a
  OBVIOUS
<1> HIDE DEF N, V, a, Paso
<1>5. PICK f : /\ f \in [0 .. N -> V] /\ f[0] = a
               /\ \A i \in 1 .. N : f[i] = G[<<i, f[i - 1]>>]
  <2>1. G \in [(1 .. N) \X V -> V]
    BY <1>3
  <2> HIDE DEF G
  <2>2. \E f : Bucle(f, N, V, a, G)
    BY <1>1, <1>2, <2>1, Recursion, Zenon
  <2> QED
    BY <2>2 DEF Bucle
<1>6. \A i \in 1 .. N : i - 1 \in 0 .. N /\ i \in 0 .. N /\ i # 0
  BY <1>1
<1>7. ASSUME NEW i \in 1 .. N
      PROVE  f[i] = Paso(i, f[i - 1])
  <2>1. <<i, f[i - 1]>> \in (1 .. N) \X V
    BY <1>5, <1>6
  <2> QED
    BY <1>5, <2>1
<1>8. ASSUME NEW i \in 0 .. N
      PROVE  f[i] = Paso(i, f[i - 1])
  <2>1. i # 0 => i \in 1 .. N
    BY <1>1
  <2> QED
    BY <1>5, <1>7, <1>a, <2>1
<1>9. Es(f)
  BY <1>5, <1>8
<1>10. Es(c)
  <2> HIDE DEF Es
  <2> QED
    BY <1>9, Zenon
<1> HIDE DEF c
<1>11. /\ c[0] = a /\ \A i \in 1 .. N : c[i] = Paso(i, c[i - 1])
       /\ c = [i \in 0 .. N |-> c[i]]
  <2>1. 0 \in 0 .. N
    BY <1>1
  <2> QED
    BY <1>6, <1>10, <1>a, <2>1
<1>12. \A i \in 0 .. N : c[i] \in V
  <2>1. c[0] \in V /\ \A i \in 1 .. N : c[i - 1] \in V => c[i] \in V
    BY <1>2, <1>3, <1>11
  <2> QED
    BY <1>1, <2>1, EnValores, Zenon
<1>13. c \in [0 .. N -> V]
  BY <1>11, <1>12
<1> HIDE DEF Es
<1>14. c[1] = tabla
  BY <1>1, <1>11 DEF Paso
<1>15. ASSUME NEW i \in 2 .. N
       PROVE  c[i] = IF hs[i].libre THEN c[i - 1]
                     ELSE MoverSegmento(c[i - 1], hs[i].base, BasesNuevas(hs)[i])
  <2>1. i \in 1 .. N /\ ~(i <= 1)
    BY <1>1
  <2> QED
    BY <1>11, <2>1 DEF Paso
<1> QED
  BY <1>4, <1>13, <1>14, <1>15 DEF N, V

-----------------------------------------------------------------------------
(* The hole that is chosen, and the one that has a base *)

\* Among indices with keys, there is one of the least key, the first of them.
LEMMA Mejor ==
    ASSUME NEW N \in Nat, NEW A \in SUBSET (1 .. N), A # {},
           NEW k, \A i \in 1 .. N : k[i] \in Int
    PROVE  \E i \in A : \A j \in A \ {i} :
              k[i] < k[j] \/ (~(k[j] < k[i]) /\ i < j)
<1> DEFINE Gana(i, n) == \A j \in (A \cap (1 .. n)) \ {i} :
                             k[i] < k[j] \/ (~(k[j] < k[i]) /\ i < j)
           S == {n \in 0 .. N : A \cap (1 .. n) # {} =>
                                 \E i \in A \cap (1 .. n) : Gana(i, n)}
<1>1. 0 \in S
  OBVIOUS
<1>2. ASSUME NEW n \in 0 .. (N - 1), n \in S
      PROVE  n + 1 \in S
  <2> DEFINE m == n + 1
  <2>1. /\ m \in Nat /\ n \in Nat /\ m \in 1 .. N /\ n < m
        /\ \A j \in 1 .. m : j \in 1 .. n \/ j = m
        /\ \A j \in 1 .. n : j \in 1 .. m /\ j < m
    OBVIOUS
  <2> HIDE DEF m
  <2>2. CASE m \notin A
    <3>1. A \cap (1 .. m) = A \cap (1 .. n)
      BY <2>1, <2>2
    <3> QED
      BY <1>2, <2>1, <3>1 DEF m
  <2>3. CASE m \in A /\ A \cap (1 .. n) = {}
    <3>1. A \cap (1 .. m) = {m}
      BY <2>1, <2>3
    <3>2. Gana(m, m)
      BY <3>1
    <3> HIDE DEF Gana
    <3> QED
      BY <2>1, <3>1, <3>2 DEF m
  <2>4. CASE m \in A /\ A \cap (1 .. n) # {}
    <3>1. PICK i \in A \cap (1 .. n) : Gana(i, n)
      BY <1>2, <2>4
    <3>2. \E l \in A \cap (1 .. m) : Gana(l, m)
      <4>1. CASE k[m] < k[i]
        <5>1. ASSUME NEW j \in (A \cap (1 .. m)) \ {m}
              PROVE  k[m] < k[j]
          <6>1. j \in A \cap (1 .. n)
            BY <2>1
          <6>2. j = i \/ k[i] < k[j] \/ ~(k[j] < k[i])
            BY <3>1, <6>1
          <6>3. k[i] \in Int /\ k[j] \in Int /\ k[m] \in Int
            BY <2>1
          <6> QED
            BY <4>1, <6>2, <6>3
        <5>2. Gana(m, m)
          BY <5>1
        <5> HIDE DEF Gana
        <5> QED
          BY <2>1, <2>4, <5>2
      <4>2. CASE ~(k[m] < k[i])
        <5>1. ASSUME NEW j \in (A \cap (1 .. m)) \ {i}
              PROVE  k[i] < k[j] \/ (~(k[j] < k[i]) /\ i < j)
          <6>1. j \in 1 .. n \/ j = m
            BY <2>1
          <6> QED
            BY <2>1, <3>1, <4>2, <6>1
        <5>2. Gana(i, m)
          BY <5>1
        <5> HIDE DEF Gana
        <5> QED
          BY <2>1, <5>2
      <4> QED
        BY <4>1, <4>2
    <3> HIDE DEF Gana
    <3> QED
      BY <2>1, <3>2 DEF m
  <2> QED
    BY <2>2, <2>3, <2>4
<1>3. N \in S
  <2> HIDE DEF S
  <2> QED
    BY <1>1, <1>2, Induccion
<1>4. A \cap (1 .. N) = A
  OBVIOUS
<1> QED
  BY <1>3, <1>4

LEMMA ListaTipo ==
    ASSUME NEW hs \in Seq(Huecos)
    PROVE  /\ Len(hs) \in Nat /\ DOMAIN hs = 1 .. Len(hs)
           /\ hs # <<>> => Len(hs) >= 1 /\ 1 \in 1 .. Len(hs)
           /\ \A i \in 1 .. Len(hs) :
                 /\ hs[i] \in Huecos
                 /\ hs[i].base \in Nat /\ hs[i].tamanio \in Nat
                 /\ hs[i].libre \in BOOLEAN
<1>1. /\ Len(hs) \in Nat /\ DOMAIN hs = 1 .. Len(hs)
      /\ \A i \in 1 .. Len(hs) : hs[i] \in Huecos
      /\ hs # <<>> => Len(hs) >= 1
  OBVIOUS
<1> QED
  BY <1>1, HuecoTipo

LEMMA ElegidoEsta ==
    ASSUME MemoriaTypeOK, NEW tamanio, Alcanzan(tamanio) # {}
    PROVE  Elegido(tamanio) \in Alcanzan(tamanio)
<1> DEFINE A == Alcanzan(tamanio)
           N == Len(lista_huecos)
           k == [i \in 1 .. N |->
                   CASE ALGORITMO_ASIGNACION = "FIRST" -> 0
                     [] ALGORITMO_ASIGNACION = "BEST" -> lista_huecos[i].tamanio
                     [] ALGORITMO_ASIGNACION = "WORST" -> - lista_huecos[i].tamanio]
           mejor(i, j) ==
              CASE ALGORITMO_ASIGNACION = "FIRST" -> FALSE
                [] ALGORITMO_ASIGNACION = "BEST" ->
                      lista_huecos[i].tamanio < lista_huecos[j].tamanio
                [] ALGORITMO_ASIGNACION = "WORST" ->
                      lista_huecos[i].tamanio > lista_huecos[j].tamanio
           Es(i) == \A j \in A \ {i} : mejor(i, j) \/ (~mejor(j, i) /\ i < j)
<1>1. /\ lista_huecos \in Seq(Huecos)
      /\ ALGORITMO_ASIGNACION \in {"FIRST", "BEST", "WORST"}
  BY AsignacionAssumption DEF MemoriaTypeOK
<1>2. /\ N \in Nat /\ DOMAIN lista_huecos = 1 .. N
      /\ \A i \in 1 .. N : lista_huecos[i].tamanio \in Nat
  BY <1>1, ListaTipo
<1>3. A \in SUBSET (1 .. N)
  BY <1>2 DEF Alcanzan
<1>4. ASSUME NEW i \in 1 .. N
      PROVE  k[i] \in Int
  BY <1>1, <1>2
<1>5. ASSUME NEW i \in 1 .. N, NEW j \in 1 .. N
      PROVE  mejor(i, j) <=> k[i] < k[j]
  <2>1. lista_huecos[i].tamanio \in Nat /\ lista_huecos[j].tamanio \in Nat
    BY <1>2
  <2>2. CASE ALGORITMO_ASIGNACION = "FIRST"
    BY <2>2
  <2>3. CASE ALGORITMO_ASIGNACION = "BEST"
    BY <2>1, <2>3
  <2>4. CASE ALGORITMO_ASIGNACION = "WORST"
    BY <2>1, <2>4
  <2> QED
    BY <1>1, <2>2, <2>3, <2>4
<1>6. Elegido(tamanio) = CHOOSE i \in A : Es(i)
  BY DEF Elegido
<1> HIDE DEF A, N, k, mejor
<1>7. A # {}
  BY DEF A
<1>8. \E i \in A : \A j \in A \ {i} : k[i] < k[j] \/ (~(k[j] < k[i]) /\ i < j)
  BY <1>2, <1>3, <1>4, <1>7, Mejor
<1>9. \E i \in A : Es(i)
  BY <1>3, <1>5, <1>8
<1> HIDE DEF Es
<1> QED
  BY <1>6, <1>9 DEF A

\* Indice is the first of the holes with the base.
LEMMA IndiceValores ==
    ASSUME lista_huecos \in Seq(Huecos), NEW b
    PROVE  \/ /\ Indice(b) = 0
              /\ \A j \in 1 .. Len(lista_huecos) : lista_huecos[j].base # b
           \/ /\ Indice(b) \in 1 .. Len(lista_huecos)
              /\ lista_huecos[Indice(b)].base = b
              /\ \A j \in 1 .. Len(lista_huecos) :
                    lista_huecos[j].base = b => Indice(b) <= j
<1> DEFINE I == {i \in 1 .. Len(lista_huecos) : lista_huecos[i].base = b}
<1>1. Indice(b) = IF I # {} THEN Min(I) ELSE 0
  BY DEF Indice, SelectInSeq
<1>2. I \in SUBSET Nat
  BY ListaTipo
<1>3. CASE I = {}
  BY <1>1, <1>3
<1>4. CASE I # {}
  <2>1. Min(I) \in I /\ \A y \in I : Min(I) <= y
    <3> HIDE DEF I
    <3> QED
      BY <1>2, <1>4, MinNat
  <2> QED
    BY <1>1, <1>4, <2>1
<1> QED
  BY <1>3, <1>4

\* The first free hole.
LEMMA PrimerLibreValores ==
    ASSUME lista_huecos \in Seq(Huecos)
    PROVE  \/ /\ PrimerLibre = 0
              /\ \A j \in 1 .. Len(lista_huecos) : ~lista_huecos[j].libre
           \/ /\ PrimerLibre \in 1 .. Len(lista_huecos)
              /\ lista_huecos[PrimerLibre].libre
<1> DEFINE I == {i \in 1 .. Len(lista_huecos) : lista_huecos[i].libre}
<1>1. PrimerLibre = IF I # {} THEN Min(I) ELSE 0
  BY DEF PrimerLibre, SelectInSeq
<1>2. I \in SUBSET Nat
  BY ListaTipo
<1>3. CASE I = {}
  BY <1>1, <1>3
<1>4. CASE I # {}
  <2>1. Min(I) \in I
    <3> HIDE DEF I
    <3> QED
      BY <1>2, <1>4, MinNat
  <2> QED
    BY <1>1, <1>4, <2>1
<1> QED
  BY <1>3, <1>4

\* Two lists, one after the other.
LEMMA Pegadas ==
    \A a, b \in Seq(Huecos) :
        /\ a \o b \in Seq(Huecos)
        /\ Len(a \o b) = Len(a) + Len(b)
        /\ Len(a) \in Nat /\ Len(b) \in Nat
        /\ \A j \in 1 .. Len(a) : (a \o b)[j] = a[j]
        /\ \A j \in 1 .. Len(b) : (a \o b)[Len(a) + j] = b[j]
        /\ \A j \in (Len(a) + 1) .. (Len(a) + Len(b)) :
              (a \o b)[j] = b[j - Len(a)]
  OBVIOUS

\* The list with a hole put in, and without one.
LEMMA InsertAtValores ==
    ASSUME NEW hs \in Seq(Huecos), NEW i \in 1 .. (Len(hs) + 1), NEW h \in Huecos
    PROVE  /\ InsertAt(hs, i, h) \in Seq(Huecos)
           /\ Len(InsertAt(hs, i, h)) = Len(hs) + 1
           /\ \A j \in 1 .. (Len(hs) + 1) :
                 InsertAt(hs, i, h)[j] = IF j < i THEN hs[j]
                                         ELSE IF j = i THEN h
                                         ELSE hs[j - 1]
<1> DEFINE a == SubSeq(hs, 1, i - 1)
           b == SubSeq(hs, i, Len(hs))
<1>1. /\ a \in Seq(Huecos) /\ b \in Seq(Huecos) /\ Len(a) = i - 1
      /\ Len(b) = Len(hs) - i + 1
      /\ \A j \in 1 .. (i - 1) : a[j] = hs[j]
      /\ \A j \in 1 .. (Len(hs) - i + 1) : b[j] = hs[i + j - 1]
  OBVIOUS
<1> DEFINE u == <<h>>
           c == a \o u
<1>2. InsertAt(hs, i, h) = c \o b
  BY DEF InsertAt
<1>3. u \in Seq(Huecos) /\ Len(u) = 1 /\ u[1] = h /\ Len(hs) \in Nat
  OBVIOUS
<1> HIDE DEF a, b, u
<1>4. /\ c \in Seq(Huecos) /\ Len(c) = i
      /\ \A j \in 1 .. (i - 1) : c[j] = hs[j]
      /\ c[i] = h
  <2>1. /\ c \in Seq(Huecos) /\ Len(c) = Len(a) + Len(u)
        /\ \A j \in 1 .. Len(a) : c[j] = a[j]
        /\ \A j \in 1 .. Len(u) : c[Len(a) + j] = u[j]
    BY <1>1, <1>3, Pegadas
  <2>2. 1 \in 1 .. Len(u) /\ Len(a) + 1 = i /\ Len(a) + Len(u) = i
    BY <1>1, <1>3
  <2>3. c[Len(a) + 1] = u[1]
    BY <2>1, <2>2
  <2> QED
    BY <1>1, <1>3, <2>1, <2>2, <2>3
<1> HIDE DEF c
<1>5. /\ c \o b \in Seq(Huecos) /\ Len(c \o b) = Len(c) + Len(b)
      /\ \A j \in 1 .. Len(c) : (c \o b)[j] = c[j]
      /\ \A j \in (Len(c) + 1) .. (Len(c) + Len(b)) : (c \o b)[j] = b[j - Len(c)]
  BY <1>1, <1>4, Pegadas
<1>6. ASSUME NEW j \in 1 .. (Len(hs) + 1)
      PROVE  (c \o b)[j] = IF j < i THEN hs[j] ELSE IF j = i THEN h ELSE hs[j - 1]
  <2>1. CASE j <= i
    BY <1>4, <1>5, <2>1
  <2>2. CASE j > i
    <3>1. /\ j \in (Len(c) + 1) .. (Len(c) + Len(b))
          /\ j - Len(c) \in 1 .. (Len(hs) - i + 1)
          /\ i + (j - Len(c)) - 1 = j - 1
      BY <1>1, <1>3, <1>4, <2>2
    <3>2. b[j - Len(c)] = hs[j - 1]
      BY <1>1, <3>1
    <3> QED
      BY <1>5, <2>2, <3>1, <3>2
  <2>3. j <= i \/ j > i
    BY <1>3
  <2> QED
    BY <2>1, <2>2, <2>3, Zenon
<1> QED
  BY <1>1, <1>2, <1>3, <1>4, <1>5, <1>6

LEMMA RemoveAtValores ==
    ASSUME NEW hs \in Seq(Huecos), NEW i \in 1 .. Len(hs)
    PROVE  /\ RemoveAt(hs, i) \in Seq(Huecos)
           /\ Len(RemoveAt(hs, i)) = Len(hs) - 1
           /\ \A j \in 1 .. (Len(hs) - 1) :
                 RemoveAt(hs, i)[j] = IF j < i THEN hs[j] ELSE hs[j + 1]
<1> DEFINE a == SubSeq(hs, 1, i - 1)
           b == SubSeq(hs, i + 1, Len(hs))
<1>1. /\ a \in Seq(Huecos) /\ b \in Seq(Huecos) /\ Len(a) = i - 1
      /\ Len(b) = Len(hs) - i
      /\ \A j \in 1 .. (i - 1) : a[j] = hs[j]
      /\ \A j \in 1 .. (Len(hs) - i) : b[j] = hs[i + j]
  OBVIOUS
<1>2. RemoveAt(hs, i) = a \o b /\ Len(hs) \in Nat
  BY DEF RemoveAt
<1> HIDE DEF a, b
<1>3. /\ a \o b \in Seq(Huecos) /\ Len(a \o b) = Len(a) + Len(b)
      /\ \A j \in 1 .. Len(a) : (a \o b)[j] = a[j]
      /\ \A j \in (Len(a) + 1) .. (Len(a) + Len(b)) : (a \o b)[j] = b[j - Len(a)]
  BY <1>1, Pegadas
<1>4. ASSUME NEW j \in 1 .. (Len(hs) - 1)
      PROVE  (a \o b)[j] = IF j < i THEN hs[j] ELSE hs[j + 1]
  <2>1. CASE j < i
    BY <1>1, <1>3, <2>1
  <2>2. CASE j >= i
    <3>1. /\ j \in (Len(a) + 1) .. (Len(a) + Len(b))
          /\ j - Len(a) \in 1 .. (Len(hs) - i) /\ i + (j - Len(a)) = j + 1
      BY <1>1, <1>2, <2>2
    <3>2. b[j - Len(a)] = hs[j + 1]
      BY <1>1, <3>1
    <3> QED
      BY <1>3, <2>2, <3>1, <3>2
  <2>3. j < i \/ j >= i
    BY <1>2
  <2> QED
    BY <2>1, <2>2, <2>3, Zenon
<1> QED
  BY <1>1, <1>2, <1>3, <1>4

\* Unir puts together hole i and the next.
LEMMA UnirValores ==
    ASSUME NEW hs \in Seq(Huecos), NEW i \in 1 .. (Len(hs) - 1)
    PROVE  /\ Unir(hs, i) \in Seq(Huecos)
           /\ Len(Unir(hs, i)) = Len(hs) - 1
           /\ \A j \in 1 .. (Len(hs) - 1) :
                 Unir(hs, i)[j] =
                    IF j < i THEN hs[j]
                    ELSE IF j = i
                    THEN Hueco(hs[i].base, hs[i].tamanio + hs[i + 1].tamanio,
                               hs[i].libre)
                    ELSE hs[j + 1]
<1> DEFINE t == hs[i].tamanio + hs[i + 1].tamanio
           g == [hs EXCEPT ![i].tamanio = @ + hs[i + 1].tamanio]
<1>1. /\ i \in 1 .. Len(hs) /\ i + 1 \in 1 .. Len(hs) /\ Len(hs) \in Nat
      /\ hs[i] \in Huecos /\ hs[i + 1] \in Huecos /\ t \in Nat
  BY ListaTipo
<1>2. [hs[i] EXCEPT !.tamanio = t] = Hueco(hs[i].base, t, hs[i].libre)
      /\ Hueco(hs[i].base, t, hs[i].libre) \in Huecos
  <2> DEFINE h == hs[i]
  <2>1. h \in Huecos /\ t \in Nat
    BY <1>1
  <2> HIDE DEF h, t
  <2>2. [h EXCEPT !.tamanio = t] = Hueco(h.base, t, h.libre)
    <3>1. h = [base |-> h.base, tamanio |-> h.tamanio, libre |-> h.libre]
      BY <2>1, Zenon DEF Huecos
    <3>2. \A b, s, l :
             [[base |-> b, tamanio |-> s, libre |-> l] EXCEPT !.tamanio = t]
                = [base |-> b, tamanio |-> t, libre |-> l]
      OBVIOUS
    <3> QED
      BY <3>1, <3>2 DEF Hueco
  <2>3. Hueco(h.base, t, h.libre) \in Huecos
    BY <2>1 DEF Hueco, Huecos
  <2> QED
    BY <2>2, <2>3 DEF h
<1>3. /\ g \in Seq(Huecos) /\ Len(g) = Len(hs)
      /\ g[i] = Hueco(hs[i].base, t, hs[i].libre)
      /\ \A j \in 1 .. Len(hs) : j # i => g[j] = hs[j]
  BY <1>1, <1>2
<1>4. Unir(hs, i) = RemoveAt(g, i + 1)
  BY DEF Unir
<1> HIDE DEF g, t
<1>5. /\ RemoveAt(g, i + 1) \in Seq(Huecos)
      /\ Len(RemoveAt(g, i + 1)) = Len(hs) - 1
      /\ \A j \in 1 .. (Len(hs) - 1) :
            RemoveAt(g, i + 1)[j] = IF j < i + 1 THEN g[j] ELSE g[j + 1]
  <2> DEFINE n == i + 1
  <2>1. n \in 1 .. Len(g)
    BY <1>1, <1>3
  <2> HIDE DEF n
  <2>2. /\ RemoveAt(g, n) \in Seq(Huecos)
        /\ Len(RemoveAt(g, n)) = Len(g) - 1
        /\ \A j \in 1 .. (Len(g) - 1) :
              RemoveAt(g, n)[j] = IF j < n THEN g[j] ELSE g[j + 1]
    BY <1>3, <2>1, RemoveAtValores
  <2> QED
    BY <1>3, <2>2 DEF n
<1> QED
  BY <1>1, <1>3, <1>4, <1>5 DEF t

-----------------------------------------------------------------------------
(* Lists of holes *)

\* What Particion asks of the list, of any list.
EnFila(hs) ==
    /\ hs \in Seq(Huecos) \ {<<>>}
    /\ hs[1].base = 0 /\ ~hs[1].libre
    /\ \A i \in 1 .. (Len(hs) - 1) : hs[i + 1].base = hs[i].base + hs[i].tamanio
    /\ hs[Len(hs)].base + hs[Len(hs)].tamanio = TAM_MEMORIA
LlenosOcupados(hs) == \A i \in 1 .. Len(hs) : ~hs[i].libre => hs[i].tamanio > 0
Pares(hs) == {i \in 1 .. (Len(hs) - 1) : hs[i].libre /\ hs[i + 1].libre}
Dividida(hs) == EnFila(hs) /\ LlenosOcupados(hs) /\ Pares(hs) = {}

\* The holes of hs with a segment are in gs.
Guarda(gs, hs) ==
    \A j \in 2 .. Len(hs) : ~hs[j].libre => \E i \in 2 .. Len(gs) : gs[i] = hs[j]

LEMMA FilaTipo ==
    ASSUME NEW hs, EnFila(hs)
    PROVE  /\ hs \in Seq(Huecos) /\ hs # <<>>
           /\ Len(hs) \in Nat /\ Len(hs) >= 1 /\ 1 \in 1 .. Len(hs)
           /\ \A i \in 1 .. Len(hs) :
                 /\ hs[i] \in Huecos
                 /\ hs[i].base \in Nat /\ hs[i].tamanio \in Nat
                 /\ hs[i].libre \in BOOLEAN
<1>1. hs \in Seq(Huecos) /\ hs # <<>>
  BY DEF EnFila
<1> QED
  BY <1>1, ListaTipo

\* A hole ends where a later one begins, or before.
LEMMA FilaOrden ==
    ASSUME NEW hs, EnFila(hs)
    PROVE  \A j \in 1 .. Len(hs) : \A i \in 1 .. Len(hs) :
              i < j => hs[i].base + hs[i].tamanio <= hs[j].base
<1> DEFINE N == Len(hs)
           S == {n \in 0 .. N : \A i, j \in 1 .. N :
                    i < j /\ j <= n => hs[i].base + hs[i].tamanio <= hs[j].base}
<1>1. /\ N \in Nat
      /\ \A i \in 1 .. N : hs[i].base \in Nat /\ hs[i].tamanio \in Nat
      /\ \A i \in 1 .. (N - 1) : hs[i + 1].base = hs[i].base + hs[i].tamanio
  BY FilaTipo DEF EnFila
<1> HIDE DEF N
<1>2. 0 \in S
  BY <1>1
<1>3. ASSUME NEW n \in 0 .. (N - 1), n \in S
      PROVE  n + 1 \in S
  <2>1. ASSUME NEW i \in 1 .. N, NEW j \in 1 .. N, i < j, j <= n + 1
        PROVE  hs[i].base + hs[i].tamanio <= hs[j].base
    <3>1. CASE j <= n
      BY <1>3, <2>1, <3>1
    <3>2. CASE j = n + 1
      <4>1. i <= n /\ n \in 1 .. (N - 1) /\ n \in 1 .. N
        BY <1>1, <2>1, <3>2
      <4>2. hs[j].base = hs[n].base + hs[n].tamanio
        BY <1>1, <3>2, <4>1
      <4>3. CASE i = n
        BY <1>1, <4>2, <4>3
      <4>4. CASE i < n
        <5>1. hs[i].base + hs[i].tamanio <= hs[n].base
          BY <1>3, <4>1, <4>4
        <5> QED
          BY <1>1, <4>1, <4>2, <5>1
      <4> QED
        BY <1>1, <4>1, <4>3, <4>4
    <3> QED
      BY <1>1, <2>1, <3>1, <3>2
  <2> QED
    BY <1>1, <2>1
<1>4. N \in S
  <2> HIDE DEF S
  <2>1. 0 .. N \subseteq S
    BY <1>1, <1>2, <1>3, Induccion, Zenon
  <2> QED
    BY <1>1, <2>1
<1> QED
  BY <1>1, <1>4 DEF N

\* In a list that is divided a free hole is the first with its base, and before
\* an occupied one there is at most an empty free hole with the same base.
LEMMA FilaBases ==
    ASSUME NEW hs, Dividida(hs), NEW i \in 1 .. Len(hs), NEW j \in 1 .. Len(hs),
           i < j, hs[i].base = hs[j].base
    PROVE  /\ i + 1 = j /\ hs[i].libre /\ ~hs[j].libre
           /\ hs[i].tamanio = 0 /\ i > 1
<1> USE DEF Dividida
<1>1. /\ Len(hs) \in Nat /\ i \in Nat /\ j \in Nat
      /\ \A k \in 1 .. Len(hs) : hs[k].base \in Nat /\ hs[k].tamanio \in Nat
      /\ \A k \in 1 .. Len(hs) : hs[k].libre \in BOOLEAN
  BY FilaTipo
<1>2. \A k, l \in 1 .. Len(hs) : k < l => hs[k].base + hs[k].tamanio <= hs[l].base
  BY FilaOrden
<1>3. ASSUME NEW k \in 1 .. Len(hs), i <= k, k < j
      PROVE  hs[k].tamanio = 0 /\ hs[k].libre /\ hs[k].base = hs[j].base
  <2>1. hs[k].base + hs[k].tamanio <= hs[j].base
    BY <1>2, <1>3
  <2>2. i = k \/ hs[i].base + hs[i].tamanio <= hs[k].base
    BY <1>1, <1>2, <1>3
  <2>3. hs[k].tamanio = 0 /\ hs[k].base = hs[j].base
    BY <1>1, <2>1, <2>2, SMTT(30)
  <2> QED
    BY <2>3 DEF LlenosOcupados
<1>4. i + 1 = j
  <2>1. SUFFICES ASSUME i + 1 < j
                 PROVE  FALSE
    BY <1>1
  <2>2. i + 1 \in 1 .. Len(hs) /\ i <= i + 1 /\ i \in 1 .. (Len(hs) - 1)
    BY <1>1, <2>1
  <2>3. hs[i].libre /\ hs[i + 1].libre
    BY <1>1, <1>3, <2>1, <2>2
  <2>4. i \in Pares(hs)
    BY <2>2, <2>3 DEF Pares
  <2> QED
    BY <2>4
<1>5. hs[i].libre /\ hs[i].tamanio = 0
  BY <1>1, <1>3
<1>6. ~hs[j].libre
  <2>1. SUFFICES ASSUME hs[j].libre
                 PROVE  FALSE
    OBVIOUS
  <2>2. i \in 1 .. (Len(hs) - 1) /\ hs[i + 1].libre
    BY <1>1, <1>4, <2>1
  <2>3. i \in Pares(hs)
    BY <1>5, <2>2 DEF Pares
  <2> QED
    BY <2>3
<1>7. i # 1
  BY <1>5 DEF EnFila
<1> QED
  BY <1>1, <1>4, <1>5, <1>6, <1>7

-----------------------------------------------------------------------------
(* What the requests make of a list that is divided *)

\* A hole that takes in a free one.
LEMMA UnirFila ==
    ASSUME NEW hs, EnFila(hs), LlenosOcupados(hs),
           NEW i \in 1 .. (Len(hs) - 1), hs[i + 1].libre
    PROVE  /\ EnFila(Unir(hs, i)) /\ LlenosOcupados(Unir(hs, i))
           /\ \A j \in 2 .. Len(hs) : j # i /\ ~hs[j].libre =>
                 \E k \in 2 .. Len(Unir(hs, i)) : Unir(hs, i)[k] = hs[j]
<1> DEFINE N == Len(hs)
           g == Unir(hs, i)
           h == Hueco(hs[i].base, hs[i].tamanio + hs[i + 1].tamanio, hs[i].libre)
<1>1. /\ hs \in Seq(Huecos) /\ N \in Nat /\ i \in Nat /\ N >= 2 /\ i <= N - 1
      /\ i \in 1 .. N /\ i + 1 \in 1 .. N
      /\ \A j \in 1 .. N : /\ hs[j].base \in Nat /\ hs[j].tamanio \in Nat
                           /\ hs[j].libre \in BOOLEAN
  BY FilaTipo
<1>2. /\ g \in Seq(Huecos) /\ Len(g) = N - 1
      /\ \A j \in 1 .. (N - 1) :
            g[j] = IF j < i THEN hs[j] ELSE IF j = i THEN h ELSE hs[j + 1]
  BY <1>1, UnirValores
<1>3. /\ h.base = hs[i].base /\ h.tamanio = hs[i].tamanio + hs[i + 1].tamanio
      /\ h.libre = hs[i].libre
  BY DEF Hueco
<1> HIDE DEF g, h, N
<1>4. \A j \in 1 .. (N - 1) : j < i => g[j] = hs[j]
  BY <1>2
<1>5. i \in 1 .. (N - 1) /\ g[i] = h
  BY <1>1, <1>2
<1>6. \A j \in 1 .. (N - 1) : j > i => g[j] = hs[j + 1] /\ j + 1 \in 1 .. N
  BY <1>1, <1>2
<1>7. /\ \A j \in 1 .. (N - 1) : hs[j + 1].base = hs[j].base + hs[j].tamanio
      /\ hs[N].base + hs[N].tamanio = TAM_MEMORIA
      /\ hs[1].base = 0 /\ ~hs[1].libre
  BY DEF EnFila, N
<1>8. g \in Seq(Huecos) \ {<<>>}
  BY <1>1, <1>2
<1>9. 1 \in 1 .. (N - 1) /\ g[1].base = 0 /\ ~g[1].libre
  <2>1. 1 \in 1 .. (N - 1) /\ (1 < i \/ 1 = i)
    BY <1>1
  <2>2. CASE 1 < i
    BY <1>4, <1>7, <2>1, <2>2
  <2>3. CASE 1 = i
    BY <1>3, <1>5, <1>7, <2>1, <2>3
  <2> QED
    BY <2>1, <2>2, <2>3
<1>10. hs[i + 1].base = hs[i].base + hs[i].tamanio
  BY <1>5, <1>7
<1>11. ASSUME NEW j \in 1 .. (N - 2)
       PROVE  g[j + 1].base = g[j].base + g[j].tamanio
  <2>1. /\ j \in 1 .. (N - 1) /\ j + 1 \in 1 .. (N - 1) /\ j \in Nat
        /\ j + 2 \in 1 .. N /\ j \in 1 .. N /\ j + 1 \in 1 .. N
    BY <1>1
  <2>2. CASE j + 1 < i
    <3>1. g[j] = hs[j] /\ g[j + 1] = hs[j + 1]
      BY <1>1, <1>4, <2>1, <2>2
    <3> QED
      BY <1>7, <2>1, <3>1
  <2>3. CASE j + 1 = i
    <3>1. g[j] = hs[j] /\ g[j + 1].base = hs[j + 1].base
      BY <1>1, <1>3, <1>4, <1>5, <2>1, <2>3
    <3> QED
      BY <1>7, <2>1, <3>1
  <2>4. CASE j = i
    <3>1. g[j + 1] = hs[(j + 1) + 1] /\ g[j] = h
      BY <1>1, <1>5, <1>6, <2>1, <2>4
    <3>2. hs[(j + 1) + 1].base = hs[j + 1].base + hs[j + 1].tamanio
      BY <1>7, <2>1
    <3> QED
      BY <1>1, <1>3, <1>10, <2>1, <2>4, <3>1, <3>2
  <2>5. CASE j > i
    <3>1. g[j] = hs[j + 1] /\ g[j + 1] = hs[(j + 1) + 1]
      BY <1>1, <1>6, <2>1, <2>5
    <3>2. hs[(j + 1) + 1].base = hs[j + 1].base + hs[j + 1].tamanio
      BY <1>7, <2>1
    <3> QED
      BY <3>1, <3>2
  <2> QED
    BY <1>1, <2>1, <2>2, <2>3, <2>4, <2>5
<1>12. g[N - 1].base + g[N - 1].tamanio = TAM_MEMORIA
  <2>1. N - 1 \in 1 .. (N - 1) /\ (N - 1) + 1 = N
    BY <1>1
  <2>2. CASE i = N - 1
    <3>1. i + 1 = N /\ g[N - 1] = h
      BY <1>1, <1>5, <2>2
    <3>2. hs[i + 1].base + hs[i + 1].tamanio = TAM_MEMORIA
      BY <1>7, <3>1
    <3>3. /\ hs[i].base \in Nat /\ hs[i].tamanio \in Nat
          /\ hs[i + 1].tamanio \in Nat
      BY <1>1
    <3>4. h.base + h.tamanio = TAM_MEMORIA
      BY <1>3, <1>10, <3>2, <3>3
    <3> QED
      BY <3>1, <3>4
  <2>3. CASE i < N - 1
    <3>1. g[N - 1] = hs[N]
      BY <1>1, <1>6, <2>1, <2>3
    <3> QED
      BY <1>7, <3>1
  <2> QED
    BY <1>1, <2>2, <2>3
<1>13. EnFila(g)
  <2>1. (N - 1) - 1 = N - 2
    BY <1>1
  <2> QED
    BY <1>2, <1>8, <1>9, <1>11, <1>12, <2>1 DEF EnFila
<1>14. ASSUME NEW j \in 1 .. (N - 1), ~g[j].libre
       PROVE  g[j].tamanio > 0
  <2>0. \A k \in 1 .. N : ~hs[k].libre => hs[k].tamanio > 0
    BY DEF LlenosOcupados, N
  <2>1. CASE j < i
    BY <1>1, <1>4, <1>14, <2>0, <2>1
  <2>2. CASE j = i
    BY <1>1, <1>3, <1>5, <1>14, <2>0, <2>2
  <2>3. CASE j > i
    BY <1>1, <1>6, <1>14, <2>0, <2>3
  <2> QED
    BY <1>1, <2>1, <2>2, <2>3
<1>15. LlenosOcupados(g)
  BY <1>2, <1>14 DEF LlenosOcupados
<1>16. ASSUME NEW j \in 2 .. N, j # i, ~hs[j].libre
       PROVE  \E k \in 2 .. (N - 1) : g[k] = hs[j]
  <2>1. CASE j < i
    <3>1. j \in 2 .. (N - 1) /\ j \in 1 .. (N - 1)
      BY <1>1, <2>1
    <3>2. g[j] = hs[j]
      BY <1>4, <2>1, <3>1
    <3> QED
      BY <3>1, <3>2
  <2>2. CASE j > i
    <3> DEFINE k == j - 1
    <3>1. j # i + 1
      BY <1>16
    <3>2. k \in 2 .. (N - 1) /\ k \in 1 .. (N - 1) /\ k > i /\ k + 1 = j
      BY <1>1, <2>2, <3>1
    <3> HIDE DEF k
    <3>3. g[k] = hs[j]
      BY <1>6, <3>2
    <3> QED
      BY <3>2, <3>3
  <2> QED
    BY <1>1, <1>16, <2>1, <2>2
<1> QED
  BY <1>2, <1>13, <1>15, <1>16 DEF g, N

\* No other free holes come together.
LEMMA UnirPares ==
    ASSUME NEW hs, EnFila(hs), NEW i \in 1 .. (Len(hs) - 1), hs[i + 1].libre,
           Pares(hs) \subseteq {i, i + 1}
    PROVE  /\ Pares(Unir(hs, i)) \subseteq {i}
           /\ i + 1 \notin Pares(hs) => Pares(Unir(hs, i)) = {}
           /\ Len(Unir(hs, i)) = Len(hs) - 1
           /\ Unir(hs, i)[i].libre = hs[i].libre
           /\ \A j \in (i + 1) .. (Len(hs) - 1) :
                 Unir(hs, i)[j].libre = hs[j + 1].libre
<1> DEFINE N == Len(hs)
           g == Unir(hs, i)
           h == Hueco(hs[i].base, hs[i].tamanio + hs[i + 1].tamanio, hs[i].libre)
<1>1. hs \in Seq(Huecos) /\ N \in Nat /\ i \in Nat /\ i <= N - 1 /\ i >= 1
  BY FilaTipo
<1>2. /\ g \in Seq(Huecos) /\ Len(g) = N - 1
      /\ \A j \in 1 .. (N - 1) :
            g[j] = IF j < i THEN hs[j] ELSE IF j = i THEN h ELSE hs[j + 1]
  BY <1>1, UnirValores
<1>3. h.libre = hs[i].libre
  BY DEF Hueco
<1> HIDE DEF g, h
<1>4. /\ \A j \in 1 .. (N - 1) : j < i => g[j].libre = hs[j].libre
      /\ g[i].libre = hs[i].libre
      /\ \A j \in 1 .. (N - 1) : j > i => g[j].libre = hs[j + 1].libre
  BY <1>1, <1>2, <1>3
<1>5. ASSUME NEW k \in Pares(g)
      PROVE  k = i /\ i + 1 \in Pares(hs)
  <2>1. /\ k \in 1 .. (N - 2) /\ k \in 1 .. (N - 1) /\ k + 1 \in 1 .. (N - 1)
        /\ k \in Nat /\ g[k].libre /\ g[k + 1].libre
    BY <1>1, <1>2 DEF Pares
  <2>2. CASE k + 1 < i
    <3>1. hs[k].libre /\ hs[k + 1].libre
      BY <1>1, <1>4, <2>1, <2>2
    <3>2. k \in Pares(hs)
      BY <2>1, <3>1 DEF Pares
    <3> QED
      BY <1>1, <2>1, <2>2, <3>2
  <2>3. CASE k + 1 = i
    <3>1. hs[k].libre /\ hs[k + 1].libre
      BY <1>1, <1>4, <2>1, <2>3
    <3>2. k \in Pares(hs)
      BY <2>1, <3>1 DEF Pares
    <3> QED
      BY <1>1, <2>1, <2>3, <3>2
  <2>4. CASE k = i
    <3>1. hs[(k + 1) + 1].libre
      BY <1>1, <1>4, <2>1, <2>4
    <3>2. k + 1 \in Pares(hs)
      BY <2>1, <2>4, <3>1 DEF Pares
    <3> QED
      BY <2>4, <3>2
  <2>5. CASE k > i
    <3>1. hs[k + 1].libre /\ hs[(k + 1) + 1].libre
      BY <1>1, <1>4, <2>1, <2>5
    <3>2. k + 1 \in Pares(hs)
      BY <2>1, <3>1 DEF Pares
    <3> QED
      BY <1>1, <2>1, <2>5, <3>2
  <2> QED
    BY <1>1, <2>1, <2>2, <2>3, <2>4, <2>5
<1>6. \A j \in (i + 1) .. (N - 1) : g[j].libre = hs[j + 1].libre
  BY <1>1, <1>4
<1> QED
  BY <1>2, <1>4, <1>5, <1>6 DEF g

\* eliminar_segmento frees hole i, or consolidates that of segment 0.
LEMMA ConsolidarDividida ==
    ASSUME NEW hs, EnFila(hs), LlenosOcupados(hs), NEW i \in 1 .. Len(hs),
           i = 1 \/ hs[i].libre,
           \A k \in Pares(hs) : k = i \/ k + 1 = i
    PROVE  Dividida(Consolidar(hs, i)) /\ Guarda(Consolidar(hs, i), hs)
<1> DEFINE N == Len(hs)
           anterior == i > 2 /\ hs[i - 1].libre
           siguiente == i < N /\ hs[i + 1].libre
           u == Unir(hs, i - 1)
<1>1. /\ N \in Nat /\ i \in Nat /\ i >= 1 /\ i <= N
      /\ \A j \in 1 .. N : hs[j].libre \in BOOLEAN
      /\ ~hs[1].libre
  BY FilaTipo DEF EnFila
<1>2. CASE anterior
  <2> DEFINE a == i - 1
  <2>1. /\ a \in 1 .. (N - 1) /\ a + 1 = i /\ hs[a].libre /\ hs[a + 1].libre
        /\ a \in Nat /\ a >= 2
    BY <1>1, <1>2
  <2>2. Pares(hs) \subseteq {a, a + 1}
    BY <1>1, <2>1 DEF Pares
  <2>3. u = Unir(hs, a)
    OBVIOUS
  <2> HIDE DEF a, u
  <2>4. /\ EnFila(u) /\ LlenosOcupados(u)
        /\ \A j \in 2 .. N : j # a /\ ~hs[j].libre =>
              \E k \in 2 .. Len(u) : u[k] = hs[j]
    BY <2>1, <2>3, UnirFila
  <2>5. /\ Pares(u) \subseteq {a}
        /\ a + 1 \notin Pares(hs) => Pares(u) = {}
        /\ Len(u) = N - 1 /\ u[a].libre = hs[a].libre
        /\ \A j \in (a + 1) .. (N - 1) : u[j].libre = hs[j + 1].libre
    <3>1. /\ Pares(Unir(hs, a)) \subseteq {a}
          /\ a + 1 \notin Pares(hs) => Pares(Unir(hs, a)) = {}
          /\ Len(Unir(hs, a)) = Len(hs) - 1
          /\ Unir(hs, a)[a].libre = hs[a].libre
          /\ \A j \in (a + 1) .. (Len(hs) - 1) :
                Unir(hs, a)[j].libre = hs[j + 1].libre
      BY <2>1, <2>2, UnirPares, Zenon
    <3> QED
      BY <2>3, <3>1
  <2>6. CASE siguiente
    <3>1. Consolidar(hs, i) = Unir(u, a)
      BY <1>2, <2>6 DEF Consolidar, u, a
    <3>2. /\ a \in 1 .. (Len(u) - 1) /\ a + 1 \in (a + 1) .. (N - 1)
          /\ (a + 1) + 1 = i + 1
      BY <1>1, <2>1, <2>5, <2>6
    <3>3. u[a + 1].libre
      BY <2>5, <2>6, <3>2
    <3>4. /\ EnFila(Unir(u, a)) /\ LlenosOcupados(Unir(u, a))
          /\ \A j \in 2 .. Len(u) : j # a /\ ~u[j].libre =>
                \E k \in 2 .. Len(Unir(u, a)) : Unir(u, a)[k] = u[j]
      BY <2>4, <3>2, <3>3, UnirFila
    <3>5. Pares(Unir(u, a)) = {}
      <4>1. a + 1 \notin Pares(u) /\ Pares(u) \subseteq {a, a + 1}
        BY <2>1, <2>5
      <4> QED
        BY <2>4, <3>2, <3>3, <4>1, UnirPares
    <3>6. ASSUME NEW j \in 2 .. N, ~hs[j].libre
          PROVE  \E k \in 2 .. Len(Unir(u, a)) : Unir(u, a)[k] = hs[j]
      <4>1. j # a
        BY <2>1, <3>6
      <4>2. PICK k \in 2 .. Len(u) : u[k] = hs[j]
        BY <2>4, <3>6, <4>1
      <4>3. k # a /\ ~u[k].libre
        BY <2>1, <2>5, <3>6, <4>2
      <4> QED
        BY <3>4, <4>2, <4>3
    <3> QED
      BY <3>1, <3>4, <3>5, <3>6 DEF Dividida, Guarda
  <2>7. CASE ~siguiente
    <3>1. Consolidar(hs, i) = u
      BY <1>2, <2>7 DEF Consolidar, u
    <3>2. a + 1 \notin Pares(hs)
      BY <1>1, <2>1, <2>7 DEF Pares
    <3>3. Pares(u) = {}
      BY <2>5, <3>2
    <3>4. Guarda(u, hs)
      BY <2>1, <2>4 DEF Guarda
    <3> QED
      BY <2>4, <3>1, <3>3, <3>4 DEF Dividida
  <2> QED
    BY <2>6, <2>7
<1>3. CASE ~anterior
  <2>1. Pares(hs) \subseteq {i}
    <3> SUFFICES ASSUME NEW k \in Pares(hs), k # i
                 PROVE  FALSE
      OBVIOUS
    <3>1. k + 1 = i /\ k \in 1 .. (N - 1) /\ hs[k].libre
      BY DEF Pares
    <3>2. k = i - 1 /\ k # 1
      BY <1>1, <3>1
    <3>3. i > 2
      BY <1>1, <3>1, <3>2
    <3> QED
      BY <1>3, <3>1, <3>2, <3>3
  <2>2. CASE siguiente
    <3>1. Consolidar(hs, i) = Unir(hs, i)
      BY <1>3, <2>2 DEF Consolidar
    <3>2. i \in 1 .. (N - 1) /\ hs[i + 1].libre /\ i + 1 # i
      BY <1>1, <2>2
    <3>3. /\ EnFila(Unir(hs, i)) /\ LlenosOcupados(Unir(hs, i))
          /\ \A j \in 2 .. N : j # i /\ ~hs[j].libre =>
                \E k \in 2 .. Len(Unir(hs, i)) : Unir(hs, i)[k] = hs[j]
      BY <3>2, UnirFila
    <3>4. Pares(Unir(hs, i)) = {}
      <4>1. i + 1 \notin Pares(hs) /\ Pares(hs) \subseteq {i, i + 1}
        BY <2>1, <3>2
      <4> QED
        BY <3>2, <4>1, UnirPares
    <3>5. Guarda(Unir(hs, i), hs)
      BY <1>1, <3>3 DEF Guarda
    <3> QED
      BY <3>1, <3>3, <3>4, <3>5 DEF Dividida
  <2>3. CASE ~siguiente
    <3>1. Consolidar(hs, i) = hs
      BY <1>3, <2>3 DEF Consolidar
    <3>2. i \notin Pares(hs)
      BY <1>1, <2>3 DEF Pares
    <3>3. Pares(hs) = {}
      BY <2>1, <3>2
    <3>4. Guarda(hs, hs)
      BY DEF Guarda
    <3> QED
      BY <3>1, <3>3, <3>4 DEF Dividida
  <2> QED
    BY <2>2, <2>3
<1> QED
  BY <1>2, <1>3

\* Partir gives hole i its size, and puts the rest after the first hole with the
\* same base.
LEMMA PartirValores ==
    ASSUME lista_huecos \in Seq(Huecos), NEW i \in 1 .. Len(lista_huecos),
           NEW tamanio \in Nat, tamanio <= lista_huecos[i].tamanio
    PROVE  LET n == Indice(lista_huecos[i].base)
               g == Partir(i, tamanio)
           IN  /\ n \in 1 .. Len(lista_huecos)
               /\ lista_huecos[n].base = lista_huecos[i].base /\ n <= i
               /\ g \in Seq(Huecos) /\ g # <<>>
               /\ Len(g) = Len(lista_huecos) + 1
               /\ n = i =>
                     /\ \A j \in 1 .. Len(g) : j < i => g[j] = lista_huecos[j]
                     /\ g[i] = Hueco(lista_huecos[i].base, tamanio, FALSE)
                     /\ g[i + 1] = Hueco(lista_huecos[i].base + tamanio,
                                         lista_huecos[i].tamanio - tamanio, TRUE)
                     /\ \A j \in 1 .. Len(g) :
                           j > i + 1 => g[j] = lista_huecos[j - 1]
<1> DEFINE N == Len(lista_huecos)
           b == lista_huecos[i].base
           n == Indice(b)
           m == n + 1
           f == [lista_huecos EXCEPT ![i] = Hueco(b, tamanio, FALSE)]
           r == Hueco(b + tamanio, lista_huecos[i].tamanio - tamanio, TRUE)
           g == Partir(i, tamanio)
<1>1. /\ N \in Nat /\ i \in Nat /\ i \in 1 .. N /\ lista_huecos[i] \in Huecos
      /\ b \in Nat /\ lista_huecos[i].tamanio \in Nat
      /\ DOMAIN lista_huecos = 1 .. N
      /\ \A j \in 1 .. N : lista_huecos[j] \in Huecos
  BY ListaTipo
<1>2. n \in 1 .. N /\ lista_huecos[n].base = b /\ n <= i
  BY <1>1, IndiceValores
<1>3. r \in Huecos
  <2>1. b + tamanio \in Nat /\ lista_huecos[i].tamanio - tamanio \in Nat
    BY <1>1
  <2> QED
    BY <2>1, HuecoTipo, Zenon
<1>5. /\ f \in Seq(Huecos) /\ Len(f) = N
      /\ f[i] = Hueco(b, tamanio, FALSE)
      /\ \A j \in 1 .. N : j # i => f[j] = lista_huecos[j]
  <2>1. Hueco(b, tamanio, FALSE) \in Huecos
    BY <1>1, HuecoTipo
  <2>2. f = [j \in 1 .. N |-> IF j = i THEN Hueco(b, tamanio, FALSE)
                                       ELSE lista_huecos[j]]
    BY <1>1
  <2> HIDE DEF f, b, N
  <2>3. f \in [1 .. N -> Huecos]
    BY <1>1, <2>1, <2>2
  <2>4. f \in Seq(Huecos) /\ Len(f) = N
    BY <1>1, <2>3
  <2> QED
    BY <1>1, <2>2, <2>4
<1>6. g = InsertAt(f, m, r)
  BY DEF Partir
<1> HIDE DEF n, f, r, g
<1>7. m \in 1 .. (Len(f) + 1)
  BY <1>2, <1>5
<1> HIDE DEF m
<1>8. /\ InsertAt(f, m, r) \in Seq(Huecos)
      /\ Len(InsertAt(f, m, r)) = Len(f) + 1
      /\ \A j \in 1 .. (Len(f) + 1) :
            InsertAt(f, m, r)[j] = IF j < m THEN f[j]
                                    ELSE IF j = m THEN r ELSE f[j - 1]
  BY <1>3, <1>5, <1>7, InsertAtValores, ZenonT(40)
<1>9. /\ g \in Seq(Huecos) /\ Len(g) = N + 1 /\ g # <<>>
      /\ \A j \in 1 .. (N + 1) :
            g[j] = IF j < m THEN f[j] ELSE IF j = m THEN r ELSE f[j - 1]
  BY <1>1, <1>5, <1>6, <1>8
<1>10. ASSUME n = i
       PROVE  /\ \A j \in 1 .. Len(g) : j < i => g[j] = lista_huecos[j]
              /\ g[i] = Hueco(b, tamanio, FALSE) /\ g[i + 1] = r
              /\ \A j \in 1 .. Len(g) : j > i + 1 => g[j] = lista_huecos[j - 1]
  <2>1. /\ m = i + 1 /\ i < m /\ i \in 1 .. (N + 1) /\ i + 1 \in 1 .. (N + 1)
        /\ ~(m < m)
    BY <1>1, <1>10 DEF m
  <2>2. g[i] = Hueco(b, tamanio, FALSE) /\ g[i + 1] = r
    BY <1>5, <1>9, <2>1
  <2>3. ASSUME NEW j \in 1 .. (N + 1), j < i
        PROVE  g[j] = lista_huecos[j]
    <3>1. j < m /\ j # i /\ j \in 1 .. N
      BY <1>1, <2>1, <2>3
    <3> QED
      BY <1>5, <1>9, <3>1
  <2>4. ASSUME NEW j \in 1 .. (N + 1), j > i + 1
        PROVE  g[j] = lista_huecos[j - 1]
    <3>1. ~(j < m) /\ j # m /\ j - 1 # i /\ j - 1 \in 1 .. N
      BY <1>1, <2>1, <2>4
    <3> QED
      BY <1>5, <1>9, <3>1
  <2> QED
    BY <1>9, <2>2, <2>3, <2>4
<1> QED
  BY <1>2, <1>9, <1>10 DEF n, r, g

\* Splitting a free hole where the segment fits.
LEMMA PartirDividida ==
    ASSUME Dividida(lista_huecos), NEW i \in 1 .. Len(lista_huecos),
           lista_huecos[i].libre,
           NEW tamanio \in Nat \ {0}, tamanio <= lista_huecos[i].tamanio
    PROVE  /\ Dividida(Partir(i, tamanio)) /\ Guarda(Partir(i, tamanio), lista_huecos)
           /\ i \in 2 .. Len(Partir(i, tamanio))
           /\ Partir(i, tamanio)[i] = Hueco(lista_huecos[i].base, tamanio, FALSE)
           /\ \A j \in 2 .. Len(lista_huecos) : ~lista_huecos[j].libre =>
                 \E k \in 2 .. Len(Partir(i, tamanio)) :
                    k # i /\ Partir(i, tamanio)[k] = lista_huecos[j]
<1> DEFINE hs == lista_huecos
           N == Len(hs)
           g == Partir(i, tamanio)
           s == Hueco(hs[i].base, tamanio, FALSE)
           r == Hueco(hs[i].base + tamanio, hs[i].tamanio - tamanio, TRUE)
<1>1. /\ EnFila(hs) /\ LlenosOcupados(hs) /\ Pares(hs) = {}
      /\ hs \in Seq(Huecos) /\ N \in Nat /\ i \in Nat /\ i \in 1 .. N
      /\ \A j \in 1 .. N : /\ hs[j].base \in Nat /\ hs[j].tamanio \in Nat
                           /\ hs[j].libre \in BOOLEAN
  BY FilaTipo DEF Dividida
<1>2. /\ \A j \in 1 .. (N - 1) : hs[j + 1].base = hs[j].base + hs[j].tamanio
      /\ hs[N].base + hs[N].tamanio = TAM_MEMORIA
      /\ hs[1].base = 0 /\ ~hs[1].libre
  BY <1>1 DEF EnFila
<1>3. /\ s.base = hs[i].base /\ s.tamanio = tamanio /\ ~s.libre
      /\ r.base = hs[i].base + tamanio /\ r.tamanio = hs[i].tamanio - tamanio
      /\ r.libre
  BY DEF Hueco
<1>4. /\ g \in Seq(Huecos) /\ g # <<>> /\ Len(g) = N + 1
      /\ \A j \in 1 .. (N + 1) : j < i => g[j] = hs[j]
      /\ g[i] = s /\ g[i + 1] = r
      /\ \A j \in 1 .. (N + 1) : j > i + 1 => g[j] = hs[j - 1]
  <2> DEFINE n == Indice(hs[i].base)
  <2>1. /\ n \in 1 .. N /\ hs[n].base = hs[i].base /\ n <= i
        /\ g \in Seq(Huecos) /\ g # <<>> /\ Len(g) = N + 1
        /\ n = i =>
              /\ \A j \in 1 .. Len(g) : j < i => g[j] = hs[j]
              /\ g[i] = s /\ g[i + 1] = r
              /\ \A j \in 1 .. Len(g) : j > i + 1 => g[j] = hs[j - 1]
    <3> DEFINE t == tamanio
    <3>1. t \in Nat /\ t <= hs[i].tamanio /\ hs \in Seq(Huecos)
      BY <1>1
    <3> HIDE DEF t
    <3>2. LET m == Indice(lista_huecos[i].base)
              f == Partir(i, t)
          IN  /\ m \in 1 .. Len(lista_huecos)
              /\ lista_huecos[m].base = lista_huecos[i].base /\ m <= i
              /\ f \in Seq(Huecos) /\ f # <<>>
              /\ Len(f) = Len(lista_huecos) + 1
              /\ m = i =>
                    /\ \A j \in 1 .. Len(f) : j < i => f[j] = lista_huecos[j]
                    /\ f[i] = Hueco(lista_huecos[i].base, t, FALSE)
                    /\ f[i + 1] = Hueco(lista_huecos[i].base + t,
                                        lista_huecos[i].tamanio - t, TRUE)
                    /\ \A j \in 1 .. Len(f) :
                          j > i + 1 => f[j] = lista_huecos[j - 1]
      BY <3>1, PartirValores, Zenon
    <3> QED
      BY <3>2 DEF t
  <2> HIDE DEF n, g, s, r
  <2>2. n = i
    <3>1. SUFFICES ASSUME n < i
                   PROVE  FALSE
      BY <1>1, <2>1
    <3>2. ~hs[i].libre
      BY <2>1, <3>1, FilaBases
    <3> QED
      BY <3>2
  <2> QED
    BY <2>1, <2>2
<1> HIDE DEF g, s, r
<1>5. i \in 2 .. N /\ N >= 2
  <2>1. i # 1
    BY <1>2
  <2> QED
    BY <1>1, <2>1
<1>6. /\ \A j \in 1 .. (N + 1) : j < i => g[j] = hs[j] /\ j \in 1 .. N
      /\ \A j \in 1 .. (N + 1) : j > i + 1 => g[j] = hs[j - 1] /\ j - 1 \in 1 .. N
      /\ \A j \in 1 .. (N + 1) : j < i \/ j = i \/ j = i + 1 \/ j > i + 1
  BY <1>1, <1>4
<1>7. ASSUME NEW j \in 1 .. N
      PROVE  g[j + 1].base = g[j].base + g[j].tamanio
  <2>1. j \in 1 .. (N + 1) /\ j + 1 \in 1 .. (N + 1) /\ j \in Nat
    BY <1>1
  <2>2. CASE j + 1 < i
    <3>1. g[j] = hs[j] /\ g[j + 1] = hs[j + 1] /\ j \in 1 .. (N - 1)
      BY <1>1, <1>6, <2>1, <2>2
    <3> QED
      BY <1>2, <3>1
  <2>3. CASE j + 1 = i
    <3>1. g[j] = hs[j] /\ g[j + 1].base = hs[j + 1].base /\ j \in 1 .. (N - 1)
      BY <1>1, <1>3, <1>4, <1>6, <2>1, <2>3
    <3> QED
      BY <1>2, <3>1
  <2>4. CASE j = i
    BY <1>3, <1>4, <2>4
  <2>5. CASE j = i + 1
    <3>1. g[j + 1] = hs[(j + 1) - 1] /\ (j + 1) - 1 = i + 1 /\ i \in 1 .. (N - 1)
      BY <1>1, <1>6, <2>1, <2>5
    <3>2. g[j + 1].base = hs[i].base + hs[i].tamanio
      BY <1>2, <3>1
    <3>3. /\ g[j].base = hs[i].base + tamanio
          /\ g[j].tamanio = hs[i].tamanio - tamanio
      BY <1>3, <1>4, <2>5
    <3>4. /\ hs[i].base \in Nat /\ hs[i].tamanio \in Nat /\ tamanio \in Nat
      BY <1>1
    <3> QED
      BY <3>2, <3>3, <3>4
  <2>6. CASE j > i + 1
    <3> DEFINE k == j - 1
    <3>1. g[j + 1] = hs[(j + 1) - 1] /\ (j + 1) - 1 = k + 1 /\ g[j] = hs[k]
          /\ k \in 1 .. (N - 1)
      BY <1>1, <1>6, <2>1, <2>6
    <3> HIDE DEF k
    <3>2. g[j + 1] = hs[k + 1]
      BY <3>1
    <3> QED
      BY <1>2, <3>1, <3>2
  <2> QED
    BY <1>6, <2>1, <2>2, <2>3, <2>4, <2>5, <2>6
<1>8. g[N + 1].base + g[N + 1].tamanio = TAM_MEMORIA
  <2>1. N + 1 \in 1 .. (N + 1)
    BY <1>1
  <2>2. CASE i = N
    <3>1. g[N + 1] = r
      BY <1>4, <2>2
    <3>2. hs[i].base + hs[i].tamanio = TAM_MEMORIA
      BY <1>2, <2>2
    <3>3. /\ hs[i].base \in Nat /\ hs[i].tamanio \in Nat /\ tamanio \in Nat
      BY <1>1
    <3>4. r.base + r.tamanio = TAM_MEMORIA
      BY <1>3, <3>2, <3>3
    <3> QED
      BY <3>1, <3>4
  <2>3. CASE i < N
    <3>1. g[N + 1] = hs[(N + 1) - 1] /\ (N + 1) - 1 = N
      BY <1>1, <1>6, <2>1, <2>3
    <3>2. g[N + 1] = hs[N]
      BY <3>1
    <3> QED
      BY <1>2, <3>2
  <2> QED
    BY <1>1, <2>2, <2>3
<1>9. 1 \in 1 .. (N + 1) /\ g[1] = hs[1]
  BY <1>1, <1>5, <1>6
<1>10. EnFila(g)
  <2>1. (N + 1) - 1 = N
    BY <1>1
  <2> QED
    BY <1>2, <1>4, <1>7, <1>8, <1>9, <2>1 DEF EnFila
<1>11. ASSUME NEW j \in 1 .. (N + 1), ~g[j].libre
       PROVE  g[j].tamanio > 0
  <2>0. \A k \in 1 .. N : ~hs[k].libre => hs[k].tamanio > 0
    BY <1>1 DEF LlenosOcupados
  <2>1. CASE j < i
    BY <1>6, <1>11, <2>0, <2>1
  <2>2. CASE j = i
    BY <1>3, <1>4, <2>2
  <2>3. CASE j = i + 1
    BY <1>3, <1>4, <1>11, <2>3
  <2>4. CASE j > i + 1
    BY <1>6, <1>11, <2>0, <2>4
  <2> QED
    BY <1>6, <2>1, <2>2, <2>3, <2>4
<1>12. LlenosOcupados(g)
  BY <1>4, <1>11 DEF LlenosOcupados
<1>13. Pares(g) = {}
  <2> SUFFICES ASSUME NEW j \in Pares(g)
               PROVE  FALSE
    OBVIOUS
  <2>1. /\ j \in 1 .. (N + 1) /\ j + 1 \in 1 .. (N + 1) /\ j \in Nat
        /\ j \in 1 .. N /\ g[j].libre /\ g[j + 1].libre
    BY <1>1, <1>4 DEF Pares
  <2>2. \A k \in 1 .. (N - 1) : ~(hs[k].libre /\ hs[k + 1].libre)
    BY <1>1 DEF Pares
  <2>3. CASE j + 1 < i
    <3>1. g[j] = hs[j] /\ g[j + 1] = hs[j + 1] /\ j \in 1 .. (N - 1)
      BY <1>1, <1>6, <2>1, <2>3
    <3> QED
      BY <2>1, <2>2, <3>1
  <2>4. CASE j + 1 = i \/ j = i
    <3>1. ~g[i].libre
      BY <1>3, <1>4
    <3> QED
      BY <2>1, <2>4, <3>1
  <2>5. CASE j = i + 1
    <3>1. g[j + 1] = hs[(j + 1) - 1] /\ (j + 1) - 1 = i + 1 /\ i \in 1 .. (N - 1)
      BY <1>1, <1>6, <2>1, <2>5
    <3>2. hs[i + 1].libre /\ hs[i].libre
      BY <2>1, <3>1
    <3> QED
      BY <2>2, <3>1, <3>2
  <2>6. CASE j > i + 1
    <3> DEFINE k == j - 1
    <3>1. g[j + 1] = hs[(j + 1) - 1] /\ (j + 1) - 1 = k + 1 /\ g[j] = hs[k]
          /\ k \in 1 .. (N - 1)
      BY <1>1, <1>6, <2>1, <2>6
    <3> HIDE DEF k
    <3>2. g[j + 1] = hs[k + 1]
      BY <3>1
    <3> QED
      BY <2>1, <2>2, <3>1, <3>2
  <2> QED
    BY <1>6, <2>1, <2>3, <2>4, <2>5, <2>6
<1>14. ASSUME NEW j \in 2 .. N, ~hs[j].libre
       PROVE  \E k \in 2 .. (N + 1) : k # i /\ g[k] = hs[j]
  <2>1. j # i /\ j \in Nat
    BY <1>1, <1>14
  <2>2. CASE j < i
    <3>1. j \in 2 .. (N + 1) /\ j \in 1 .. (N + 1)
      BY <1>1
    <3> QED
      BY <1>6, <2>1, <2>2, <3>1
  <2>3. CASE j > i
    <3> DEFINE k == j + 1
    <3>1. k \in 2 .. (N + 1) /\ k \in 1 .. (N + 1) /\ k > i + 1 /\ k - 1 = j /\ k # i
      BY <1>1, <2>1, <2>3
    <3> HIDE DEF k
    <3>2. g[k] = hs[j]
      BY <1>6, <3>1
    <3> QED
      BY <3>1, <3>2
  <2> QED
    BY <1>1, <2>1, <2>2, <2>3
<1>15. i \in 2 .. (N + 1)
  BY <1>1, <1>5
<1>16. Guarda(g, hs)
  BY <1>4, <1>14 DEF Guarda
<1> QED
  BY <1>4, <1>10, <1>12, <1>13, <1>14, <1>15, <1>16 DEF Dividida, g, s

-----------------------------------------------------------------------------
(* Compaction: the holes that are chosen, their sizes and their bases *)

\* Filtrar takes the holes it is asked for, each and in their order.
LEMMA FiltrarValores ==
    ASSUME NEW hs \in Seq(Huecos), NEW libre \in BOOLEAN
    PROVE  LET f == Filtrar(hs, libre)
           IN  /\ f \in Seq(Huecos)
               /\ \A j \in 1 .. Len(f) : \E i \in 1 .. Len(hs) :
                     f[j] = hs[i] /\ hs[i].libre = libre
               /\ \A i \in 1 .. Len(hs) : hs[i].libre = libre =>
                     \E j \in 1 .. Len(f) : f[j] = hs[i]
               /\ \A k \in 1 .. Len(f) : \A j \in 1 .. Len(f) : j < k =>
                     \E a, b \in 1 .. Len(hs) :
                        a < b /\ f[j] = hs[a] /\ f[k] = hs[b]
               /\ hs # <<>> /\ hs[1].libre = libre => f # <<>> /\ f[1] = hs[1]
<1> DEFINE N == Len(hs)
<1>1. PICK e : /\ e \in [0 .. N -> Seq(Huecos)] /\ e[0] = <<>>
               /\ \A i \in 1 .. N :
                     e[i] = IF hs[i].libre = libre
                            THEN Append(e[i - 1], hs[i]) ELSE e[i - 1]
               /\ Filtrar(hs, libre) = e[N]
  BY FiltrarDefinida
<1> DEFINE Estan(n) == \A j \in 1 .. Len(e[n]) : \E i \in 1 .. n :
                          e[n][j] = hs[i] /\ hs[i].libre = libre
           Todos(n) == \A i \in 1 .. n : hs[i].libre = libre =>
                          \E j \in 1 .. Len(e[n]) : e[n][j] = hs[i]
           Orden(n) == \A k \in 1 .. Len(e[n]) : \A j \in 1 .. Len(e[n]) : j < k =>
                          \E a, b \in 1 .. n :
                             a < b /\ e[n][j] = hs[a] /\ e[n][k] = hs[b]
           Primero(n) == n >= 1 /\ hs[1].libre = libre =>
                            e[n] # <<>> /\ e[n][1] = hs[1]
           Bien(n) == Estan(n) /\ Todos(n) /\ Orden(n) /\ Primero(n)
           S == {n \in 0 .. N : Bien(n)}
<1>2. N \in Nat /\ \A i \in 1 .. N : hs[i] \in Huecos
  BY ListaTipo
<1>3. \A n \in 0 .. N : e[n] \in Seq(Huecos) /\ Len(e[n]) \in Nat
  BY <1>1
<1> HIDE DEF N
<1>4. 0 \in S
  <2>1. Len(e[0]) = 0
    BY <1>1
  <2>2. 1 .. Len(e[0]) = {} /\ 1 .. 0 = {} /\ ~(0 >= 1)
    BY <2>1
  <2>3. Bien(0)
    BY <2>2
  <2> QED
    BY <1>2, <2>3
<1>5. ASSUME NEW n \in 0 .. (N - 1), n \in S
      PROVE  n + 1 \in S
  <2> DEFINE m == n + 1
  <2>1. /\ m \in 1 .. N /\ m \in Nat /\ n \in Nat /\ m - 1 = n /\ n < m
        /\ n \in 0 .. N /\ m \in 0 .. N
        /\ \A i \in 1 .. m : i \in 1 .. n \/ i = m
        /\ \A i \in 1 .. n : i \in 1 .. m /\ i < m
    BY <1>2
  <2> HIDE DEF m
  <2>2. Estan(n) /\ Todos(n) /\ Orden(n) /\ Primero(n)
    BY <1>5
  <2>3. CASE hs[m].libre = libre
    <3> DEFINE L == Len(e[n])
    <3>1. e[m] = Append(e[n], hs[m])
      BY <1>1, <2>1, <2>3
    <3>2. /\ Len(e[m]) = L + 1 /\ L \in Nat
          /\ \A j \in 1 .. L : e[m][j] = e[n][j] /\ j < L + 1
          /\ e[m][L + 1] = hs[m] /\ L + 1 \in 1 .. (L + 1)
          /\ \A j \in 1 .. (L + 1) : j \in 1 .. L \/ j = L + 1
          /\ \A j \in 1 .. L : j \in 1 .. (L + 1)
      <4>1. e[n] \in Seq(Huecos) /\ L \in Nat /\ hs[m] \in Huecos
        BY <1>2, <1>3, <2>1
      <4> DEFINE s == e[n]
                 h == hs[m]
      <4>2. s \in Seq(Huecos) /\ h \in Huecos /\ e[m] = Append(s, h) /\ L = Len(s)
        BY <3>1, <4>1
      <4> HIDE DEF s, h
      <4>3. /\ Len(e[m]) = Len(s) + 1 /\ Len(s) \in Nat
            /\ \A j \in 1 .. Len(s) : e[m][j] = s[j]
            /\ e[m][Len(s) + 1] = h
        BY <4>2
      <4> QED
        BY <4>1, <4>2, <4>3 DEF s, h
    <3> HIDE DEF L
    <3>3. Estan(m)
      <4> SUFFICES ASSUME NEW j \in 1 .. (L + 1)
                   PROVE  \E i \in 1 .. m : e[m][j] = hs[i] /\ hs[i].libre = libre
        BY <3>2
      <4>1. CASE j \in 1 .. L
        <5>1. \E i \in 1 .. n : e[n][j] = hs[i] /\ hs[i].libre = libre
          BY <2>2, <4>1 DEF L
        <5> QED
          BY <2>1, <3>2, <4>1, <5>1
      <4>2. CASE j = L + 1
        <5>1. m \in 1 .. m
          BY <2>1
        <5> QED
          BY <2>3, <3>2, <4>2, <5>1
      <4> QED
        BY <3>2, <4>1, <4>2
    <3>4. Todos(m)
      <4> SUFFICES ASSUME NEW i \in 1 .. m, hs[i].libre = libre
                   PROVE  \E j \in 1 .. (L + 1) : e[m][j] = hs[i]
        BY <3>2
      <4>1. CASE i \in 1 .. n
        <5>1. \E j \in 1 .. L : e[n][j] = hs[i]
          BY <2>2, <4>1 DEF L
        <5> QED
          BY <3>2, <5>1
      <4>2. CASE i = m
        BY <3>2, <4>2
      <4> QED
        BY <2>1, <4>1, <4>2
    <3>5. Orden(m)
      <4> SUFFICES ASSUME NEW k \in 1 .. Len(e[m]), NEW j \in 1 .. Len(e[m]), j < k
                   PROVE  \E a, b \in 1 .. m :
                             a < b /\ e[m][j] = hs[a] /\ e[m][k] = hs[b]
        OBVIOUS
      <4>0. k \in 1 .. (L + 1) /\ j \in 1 .. L
        BY <3>2
      <4>1. CASE k \in 1 .. L
        <5>1. \E a, b \in 1 .. n : a < b /\ e[n][j] = hs[a] /\ e[n][k] = hs[b]
          BY <2>2, <4>0, <4>1 DEF L
        <5>2. e[m][j] = e[n][j] /\ e[m][k] = e[n][k]
          BY <3>2, <4>0, <4>1
        <5> QED
          BY <2>1, <5>1, <5>2
      <4>2. CASE k = L + 1
        <5>1. PICK a \in 1 .. n : e[n][j] = hs[a]
          BY <2>2, <4>0 DEF L
        <5>2. e[m][j] = hs[a] /\ e[m][k] = hs[m] /\ a < m /\ a \in 1 .. m /\ m \in 1 .. m
          BY <2>1, <3>2, <4>0, <4>2, <5>1
        <5> QED
          BY <5>2
      <4> QED
        BY <3>2, <4>0, <4>1, <4>2
    <3>6. Primero(m)
      <4> SUFFICES ASSUME hs[1].libre = libre
                   PROVE  e[m] # <<>> /\ e[m][1] = hs[1]
        OBVIOUS
      <4>1. e[m] # <<>>
        BY <3>2
      <4>2. CASE n = 0
        <5>1. e[n] = <<>> /\ m = 1
          BY <1>1, <2>1, <4>2
        <5>2. L = 0
          BY <5>1 DEF L
        <5> QED
          BY <3>2, <4>1, <5>1, <5>2
      <4>3. CASE n # 0
        <5>1. e[n] # <<>> /\ e[n][1] = hs[1]
          BY <2>1, <2>2, <4>3
        <5>2. L >= 1
          <6>1. e[n] \in Seq(Huecos)
            BY <1>3, <2>1
          <6> DEFINE s == e[n]
          <6> HIDE DEF s
          <6>2. s \in Seq(Huecos) /\ s # <<>> => Len(s) >= 1
            OBVIOUS
          <6> QED
            BY <5>1, <6>1, <6>2 DEF s, L
        <5>3. 1 \in 1 .. L
          BY <3>2, <5>2
        <5> QED
          BY <3>2, <4>1, <5>1, <5>3
      <4> QED
        BY <4>2, <4>3
    <3>7. Bien(m)
      BY <3>3, <3>4, <3>5, <3>6
    <3> HIDE DEF Bien
    <3> QED
      BY <2>1, <3>7 DEF m
  <2>4. CASE hs[m].libre # libre
    <3>1. e[m] = e[n]
      BY <1>1, <2>1, <2>4
    <3>2. Estan(m)
      BY <2>1, <2>2, <3>1
    <3>3. Todos(m)
      BY <2>1, <2>2, <2>4, <3>1
    <3>4. Orden(m)
      <4> SUFFICES ASSUME NEW k \in 1 .. Len(e[m]), NEW j \in 1 .. Len(e[m]), j < k
                   PROVE  \E a, b \in 1 .. m :
                             a < b /\ e[m][j] = hs[a] /\ e[m][k] = hs[b]
        OBVIOUS
      <4>0. k \in 1 .. Len(e[n]) /\ j \in 1 .. Len(e[n])
        BY <3>1
      <4>1. \E a, b \in 1 .. n : a < b /\ e[n][j] = hs[a] /\ e[n][k] = hs[b]
        BY <2>2, <4>0
      <4>2. \E a, b \in 1 .. m : a < b /\ e[n][j] = hs[a] /\ e[n][k] = hs[b]
        BY <2>1, <4>1
      <4> QED
        BY <3>1, <4>2
    <3>5. Primero(m)
      <4>1. n = 0 => m = 1
        BY <2>1
      <4> QED
        BY <2>1, <2>2, <2>4, <3>1, <4>1
    <3>6. Bien(m)
      BY <3>2, <3>3, <3>4, <3>5
    <3> HIDE DEF Bien
    <3> QED
      BY <2>1, <3>6 DEF m
  <2> QED
    BY <2>3, <2>4
<1>6. Bien(N)
  <2> HIDE DEF Bien
  <2>1. 0 .. N \subseteq S
    <3> HIDE DEF S
    <3> QED
      BY <1>2, <1>4, <1>5, Induccion, Zenon
  <2>2. N \in 0 .. N
    BY <1>2
  <2> QED
    BY <2>1, <2>2
<1>7. hs # <<>> => N >= 1
  BY DEF N
<1> QED
  BY <1>1, <1>2, <1>3, <1>6, <1>7 DEF N

LEMMA FiltrarTipo ==
    ASSUME NEW hs \in Seq(Huecos), NEW libre \in BOOLEAN
    PROVE  /\ Filtrar(hs, libre) \in Seq(Huecos)
           /\ (\E i \in 1 .. Len(hs) : hs[i].libre = libre) =>
                 Filtrar(hs, libre) # <<>>
<1> DEFINE f == Filtrar(hs, libre)
<1>1. /\ f \in Seq(Huecos)
      /\ \A i \in 1 .. Len(hs) : hs[i].libre = libre =>
            \E j \in 1 .. Len(f) : f[j] = hs[i]
  BY FiltrarValores
<1>2. f = <<>> => 1 .. Len(f) = {}
  OBVIOUS
<1> HIDE DEF f
<1>3. (\E i \in 1 .. Len(hs) : hs[i].libre = libre) => f # <<>>
  BY <1>1, <1>2
<1> QED
  BY <1>1, <1>3 DEF f

LEMMA ParadaTipo ==
    ASSUME lista_huecos \in Seq(Huecos)
    PROVE  /\ Parada \in 1 .. (Len(lista_huecos) + 1)
           /\ (\A j \in 1 .. Len(lista_huecos) :
                  lista_huecos[j].base = lista_huecos[PrimerLibre].base =>
                     ~(j > PrimerLibre))
                 => Parada = Len(lista_huecos) + 1
<1> DEFINE R == {j \in DOMAIN lista_huecos :
                    j > PrimerLibre
                    /\ lista_huecos[j].base = lista_huecos[PrimerLibre].base}
<1>1. Len(lista_huecos) \in Nat /\ DOMAIN lista_huecos = 1 .. Len(lista_huecos)
  BY ListaTipo
<1>2. Parada = IF R = {} THEN Len(lista_huecos) + 1 ELSE Min(R)
  BY DEF Parada
<1>3. R \in SUBSET Nat /\ R \subseteq 1 .. Len(lista_huecos)
  BY <1>1
<1>4. R # {} => Min(R) \in R
  <2> HIDE DEF R
  <2> QED
    BY <1>3, MinNat
<1>5. (\A j \in 1 .. Len(lista_huecos) :
          lista_huecos[j].base = lista_huecos[PrimerLibre].base =>
             ~(j > PrimerLibre)) => R = {}
  BY <1>1
<1> HIDE DEF R
<1> QED
  BY <1>1, <1>2, <1>3, <1>4, <1>5

LEMMA SumaTipo ==
    \A hs \in Seq(Huecos) : Suma(hs) \in Nat
<1> TAKE hs \in Seq(Huecos)
<1>1. PICK s : s \in [0 .. Len(hs) -> Nat] /\ Suma(hs) = s[Len(hs)]
  BY SumaDefinida
<1> QED
  BY <1>1

LEMMA JuntarTipo ==
    ASSUME lista_huecos \in Seq(Huecos), lista_huecos # <<>>
    PROVE  Juntar \in Seq(Huecos) /\ Juntar # <<>>
<1> DEFINE antes == SubSeq(lista_huecos, 1, Parada - 1)
           cola == SubSeq(lista_huecos, Parada, Len(lista_huecos))
           resto == cola \o Libres(antes)
           h == [Head(resto) EXCEPT !.tamanio = Suma(Libres(antes))]
           q == QuitarAlternados(Tail(resto))
<1>1. CASE PrimerLibre = 0
  BY <1>1 DEF Juntar
<1>2. CASE PrimerLibre # 0
  <2>1. /\ PrimerLibre \in 1 .. Len(lista_huecos)
        /\ lista_huecos[PrimerLibre].libre
    BY <1>2, PrimerLibreValores
  <2>2. Parada \in 1 .. (Len(lista_huecos) + 1) /\ Len(lista_huecos) \in Nat
    BY ParadaTipo
  <2>3. /\ antes \in Seq(Huecos) /\ cola \in Seq(Huecos)
        /\ Parada <= Len(lista_huecos) => cola # <<>>
        /\ Parada = Len(lista_huecos) + 1 => antes = lista_huecos
    <3> DEFINE p == Parada
               hs == lista_huecos
    <3>1. p \in 1 .. (Len(hs) + 1) /\ Len(hs) \in Nat /\ hs \in Seq(Huecos)
      BY <2>2
    <3> HIDE DEF p, hs
    <3>2. SubSeq(hs, 1, p - 1) \in Seq(Huecos) /\ SubSeq(hs, p, Len(hs)) \in Seq(Huecos)
      BY <3>1
    <3>3. p <= Len(hs) => SubSeq(hs, p, Len(hs)) # <<>>
      <4>1. p <= Len(hs) => Len(SubSeq(hs, p, Len(hs))) = Len(hs) - p + 1
        BY <3>1
      <4>2. p <= Len(hs) => Len(hs) - p + 1 # 0
        BY <3>1
      <4> QED
        BY <4>1, <4>2
    <3>4. SubSeq(hs, 1, Len(hs)) = hs
      BY <3>1
    <3>5. p = Len(hs) + 1 => p - 1 = Len(hs)
      BY <3>1
    <3> QED
      BY <3>2, <3>3, <3>4, <3>5 DEF p, hs
  <2>4. /\ Juntar = Ocupados(antes) \o <<h>> \o q
    BY <1>2 DEF Juntar
  <2> HIDE DEF antes, cola
  <2>5. /\ Libres(antes) \in Seq(Huecos) /\ Ocupados(antes) \in Seq(Huecos)
        /\ antes = lista_huecos => Libres(antes) # <<>>
    BY <2>1, <2>3, FiltrarTipo DEF Libres, Ocupados
  <2>6. resto \in Seq(Huecos) /\ resto # <<>>
    <3> DEFINE l == Libres(antes)
    <3>1. l \in Seq(Huecos) /\ cola \in Seq(Huecos) /\ (l # <<>> \/ cola # <<>>)
      BY <2>2, <2>3, <2>5
    <3> HIDE DEF l
    <3>2. cola \o l \in Seq(Huecos) /\ cola \o l # <<>>
      BY <3>1
    <3> QED
      BY <3>2 DEF l
  <2>7. Suma(Libres(antes)) \in Nat
    BY <2>5, SumaTipo
  <2> HIDE DEF resto
  <2>8. h \in Huecos
    <3>1. Head(resto) \in Huecos
      BY <2>6
    <3> QED
      BY <2>7, <3>1 DEF Huecos
  <2>9. q \in Seq(Huecos)
    <3> DEFINE t == Tail(resto)
    <3>1. t \in Seq(Huecos)
      BY <2>6
    <3> HIDE DEF t
    <3>2. /\ Len(t) \in Nat /\ Len(t) \div 2 \in Nat
          /\ \A j \in 1 .. (Len(t) \div 2) : 2 * j \in 1 .. Len(t)
      BY <3>1
    <3>3. \A j \in 1 .. (Len(t) \div 2) : t[2 * j] \in Huecos
      BY <3>1, <3>2
    <3>4. QuitarAlternados(t) \in [1 .. (Len(t) \div 2) -> Huecos]
      BY <3>3 DEF QuitarAlternados
    <3> DEFINE M == Len(t) \div 2
               f == QuitarAlternados(t)
    <3>5. M \in Nat /\ f \in [1 .. M -> Huecos]
      BY <3>2, <3>4
    <3> HIDE DEF M, f
    <3>6. f \in Seq(Huecos)
      BY <3>5
    <3> QED
      BY <3>6 DEF t, f
  <2> HIDE DEF h, q
  <2> DEFINE o == Ocupados(antes)
             u == <<h>>
  <2>10. o \in Seq(Huecos) /\ u \in Seq(Huecos) /\ u # <<>>
    BY <2>5, <2>8
  <2> HIDE DEF o, u
  <2>11. (o \o u) \o q \in Seq(Huecos) /\ (o \o u) \o q # <<>>
    BY <2>9, <2>10
  <2> QED
    BY <2>4, <2>11 DEF o, u
<1> QED
  BY <1>1, <1>2

-----------------------------------------------------------------------------
(* Types *)

LEMMA ListaMovida ==
    ASSUME NEW hs \in Seq(Huecos), hs # <<>>
    PROVE  LET g == [i \in DOMAIN hs |->
                        [hs[i] EXCEPT !.base = BasesNuevas(hs)[i]]]
           IN  /\ g \in Seq(Huecos) /\ g # <<>> /\ Len(g) = Len(hs)
               /\ \A i \in 1 .. Len(hs) :
                     /\ g[i].base = BasesNuevas(hs)[i]
                     /\ g[i].tamanio = hs[i].tamanio /\ g[i].libre = hs[i].libre
<1> DEFINE N == Len(hs)
           b == BasesNuevas(hs)
           g == [i \in DOMAIN hs |-> [hs[i] EXCEPT !.base = b[i]]]
<1>1. N \in Nat /\ DOMAIN hs = 1 .. N /\ \A i \in 1 .. N : hs[i] \in Huecos
  BY ListaTipo
<1>2. \A i \in 1 .. N : b[i] \in Nat
  BY <1>1, BasesNuevasDefinida
<1> HIDE DEF b
<1>3. ASSUME NEW i \in 1 .. N
      PROVE  /\ g[i] \in Huecos /\ g[i].base = b[i]
             /\ g[i].tamanio = hs[i].tamanio /\ g[i].libre = hs[i].libre
  <2> DEFINE h == hs[i]
             n == b[i]
  <2>1. h \in Huecos /\ n \in Nat /\ g[i] = [h EXCEPT !.base = n]
    BY <1>1, <1>2
  <2> HIDE DEF h, n, g
  <2>2. /\ [h EXCEPT !.base = n] \in Huecos /\ [h EXCEPT !.base = n].base = n
        /\ [h EXCEPT !.base = n].tamanio = h.tamanio
        /\ [h EXCEPT !.base = n].libre = h.libre
    BY <2>1 DEF Huecos
  <2> QED
    BY <2>1, <2>2 DEF h, n
<1>4. g \in [1 .. N -> Huecos] /\ DOMAIN g = 1 .. N
  <2>1. DOMAIN g = 1 .. N /\ g = [i \in 1 .. N |-> g[i]]
    BY <1>1
  <2> HIDE DEF g
  <2> QED
    BY <1>3, <2>1
<1> HIDE DEF g
<1>5. g \in Seq(Huecos) /\ Len(g) = N
  BY <1>1, <1>4
<1>6. N # 0
  BY <1>1
<1>7. g # <<>>
  BY <1>5, <1>6
<1> QED
  BY <1>3, <1>5, <1>7 DEF g, b

\* The process whose request runs again is in the hands of its handler.
EnMano == pedido.pid \in Pids => lugar[pedido.pid] = "mano"

Tipos == TypeOK /\ EnMano

LEMMA TablaConOtro ==
    ASSUME NEW tabla \in Tablas, NEW id \in Ids,
           NEW b \in Nat \cup {NULL}, NEW n \in Nat
    PROVE  [tabla EXCEPT ![id] = [base |-> b, size |-> n]] \in Tablas
  BY DEF Tablas

LEMMA CambiarTabla ==
    ASSUME MemoriaTypeOK, NEW p, NEW tabla \in Tablas,
           lista_huecos' \in Seq(Huecos) \ {<<>>},
           tabla_segmentos_global' = [tabla_segmentos_global EXCEPT ![p] = tabla],
           UNCHANGED ALGORITMO_ASIGNACION
    PROVE  /\ MemoriaTypeOK'
           /\ DOMAIN tabla_segmentos_global' = DOMAIN tabla_segmentos_global
           /\ p \in DOMAIN tabla_segmentos_global =>
                 tabla_segmentos_global'[p] = tabla
           /\ \A q \in DOMAIN tabla_segmentos_global :
                 q # p => tabla_segmentos_global'[q] = tabla_segmentos_global[q]
<1> DEFINE T == tabla_segmentos_global
<1>1. DOMAIN T' = DOMAIN T
  OBVIOUS
<1>2. /\ p \in DOMAIN T => T'[p] = tabla
      /\ \A q \in DOMAIN T : q # p => T'[q] = T[q]
  OBVIOUS
<1>3. \A q \in DOMAIN T' : T'[q] \in Tablas
  BY <1>1, <1>2 DEF MemoriaTypeOK
<1> QED
  BY <1>1, <1>2, <1>3 DEF MemoriaTypeOK

\* What makes a segment, and what removes it, change one table.
SeCrea(p, tabla, id, tamanio) ==
    LET i == Elegido(tamanio)
        nueva == [tabla EXCEPT ![id] = [base |-> lista_huecos[i].base,
                                        size |-> tamanio]]
    IN  /\ i \in 1 .. Len(lista_huecos) /\ lista_huecos[i].libre
        /\ tamanio <= lista_huecos[i].tamanio
        /\ lista_huecos' = Partir(i, tamanio)
        /\ nueva \in Tablas
        /\ MemoriaTypeOK'
        /\ DOMAIN tabla_segmentos_global' = DOMAIN tabla_segmentos_global
        /\ p \in DOMAIN tabla_segmentos_global =>
              tabla_segmentos_global'[p] = nueva
        /\ \A q \in DOMAIN tabla_segmentos_global :
              q # p => tabla_segmentos_global'[q] = tabla_segmentos_global[q]

LEMMA CrearSegmentoTipo ==
    ASSUME MemoriaTypeOK, NEW p, NEW tabla \in Tablas, NEW id \in Ids,
           NEW tamanio \in Nat, Alcanzan(tamanio) # {},
           CrearSegmento(p, tabla, id, tamanio), UNCHANGED ALGORITMO_ASIGNACION
    PROVE  SeCrea(p, tabla, id, tamanio)
<1> DEFINE i == Elegido(tamanio)
           nueva == [tabla EXCEPT ![id] = [base |-> lista_huecos[i].base,
                                           size |-> tamanio]]
<1>1. lista_huecos \in Seq(Huecos) /\ lista_huecos # <<>>
  BY DEF MemoriaTypeOK
<1>2. i \in Alcanzan(tamanio)
  BY ElegidoEsta
<1>3. /\ i \in 1 .. Len(lista_huecos) /\ lista_huecos[i].libre
      /\ tamanio <= lista_huecos[i].tamanio /\ lista_huecos[i].base \in Nat
  <2>1. /\ i \in DOMAIN lista_huecos /\ lista_huecos[i].libre
        /\ lista_huecos[i].tamanio >= tamanio
    BY <1>2 DEF Alcanzan
  <2> HIDE DEF i
  <2> QED
    BY <1>1, <2>1, ListaTipo
<1>4. /\ lista_huecos' = Partir(i, tamanio)
      /\ tabla_segmentos_global' = [tabla_segmentos_global EXCEPT ![p] = nueva]
  BY DEF CrearSegmento
<1> HIDE DEF i
<1>5. Partir(i, tamanio) \in Seq(Huecos) /\ Partir(i, tamanio) # <<>>
  BY <1>1, <1>3, PartirValores
<1>6. nueva \in Tablas
  BY <1>3, TablaConOtro
<1> HIDE DEF nueva
<1>7. lista_huecos' \in Seq(Huecos) \ {<<>>}
  BY <1>4, <1>5
<1>8. /\ MemoriaTypeOK'
      /\ DOMAIN tabla_segmentos_global' = DOMAIN tabla_segmentos_global
      /\ p \in DOMAIN tabla_segmentos_global => tabla_segmentos_global'[p] = nueva
      /\ \A q \in DOMAIN tabla_segmentos_global :
            q # p => tabla_segmentos_global'[q] = tabla_segmentos_global[q]
  BY <1>4, <1>6, <1>7, CambiarTabla
<1> QED
  BY <1>3, <1>4, <1>6, <1>8, Zenon DEF i, nueva, SeCrea

LEMMA UnirTipo ==
    ASSUME NEW hs \in Seq(Huecos), NEW i \in 1 .. (Len(hs) - 1)
    PROVE  Unir(hs, i) \in Seq(Huecos) \ {<<>>} /\ Len(Unir(hs, i)) = Len(hs) - 1
<1>1. Unir(hs, i) \in Seq(Huecos) /\ Len(Unir(hs, i)) = Len(hs) - 1
  BY UnirValores
<1>2. Len(hs) - 1 > 0
  BY ListaTipo
<1> DEFINE u == Unir(hs, i)
<1>3. u \in Seq(Huecos) /\ Len(u) > 0
  BY <1>1, <1>2
<1> HIDE DEF u
<1>4. u # <<>>
  BY <1>3
<1> QED
  BY <1>1, <1>4 DEF u

LEMMA ConsolidarTipo ==
    ASSUME NEW hs \in Seq(Huecos), NEW i \in 1 .. Len(hs)
    PROVE  Consolidar(hs, i) \in Seq(Huecos) \ {<<>>}
<1> DEFINE u == Unir(hs, i - 1)
           a == i - 1
<1>1. Len(hs) \in Nat /\ i \in Nat /\ Len(hs) >= i /\ i >= 1 /\ hs # <<>>
  BY ListaTipo
<1>2. CASE i > 2 /\ hs[i - 1].libre
  <2>1. a \in 1 .. (Len(hs) - 1)
    BY <1>1, <1>2
  <2>2. u \in Seq(Huecos) \ {<<>>} /\ Len(u) = Len(hs) - 1
    BY <2>1, UnirTipo
  <2>3. CASE i < Len(hs) /\ hs[i + 1].libre
    <3>1. Consolidar(hs, i) = Unir(u, a)
      BY <1>2, <2>3 DEF Consolidar
    <3>2. a \in 1 .. (Len(u) - 1)
      BY <1>1, <1>2, <2>2, <2>3
    <3> HIDE DEF u, a
    <3> QED
      BY <2>2, <3>1, <3>2, UnirTipo
  <2>4. CASE ~(i < Len(hs) /\ hs[i + 1].libre)
    <3>1. Consolidar(hs, i) = u
      BY <1>2, <2>4 DEF Consolidar
    <3> QED
      BY <2>2, <3>1
  <2> QED
    BY <2>3, <2>4
<1>3. CASE ~(i > 2 /\ hs[i - 1].libre)
  <2>1. CASE i < Len(hs) /\ hs[i + 1].libre
    <3>1. Consolidar(hs, i) = Unir(hs, i)
      BY <1>3, <2>1 DEF Consolidar
    <3>2. i \in 1 .. (Len(hs) - 1)
      BY <1>1, <2>1
    <3> QED
      BY <3>1, <3>2, UnirTipo
  <2>2. CASE ~(i < Len(hs) /\ hs[i + 1].libre)
    <3>1. Consolidar(hs, i) = hs
      BY <1>3, <2>2 DEF Consolidar
    <3> QED
      BY <1>1, <3>1
  <2> QED
    BY <2>1, <2>2
<1> QED
  BY <1>2, <1>3

\* The list with a hole freed.
LEMMA Liberada ==
    ASSUME NEW hs \in Seq(Huecos), NEW i \in 1 .. Len(hs)
    PROVE  LET g == [hs EXCEPT ![i].libre = TRUE]
           IN  /\ g \in Seq(Huecos) /\ Len(g) = Len(hs)
               /\ g[i].libre /\ g[i].base = hs[i].base
               /\ g[i].tamanio = hs[i].tamanio
               /\ \A j \in 1 .. Len(hs) : j # i => g[j] = hs[j]
<1> DEFINE g == [hs EXCEPT ![i].libre = TRUE]
           h == hs[i]
           n == [h EXCEPT !.libre = TRUE]
<1>1. /\ h \in Huecos /\ Len(hs) \in Nat /\ DOMAIN hs = 1 .. Len(hs)
      /\ \A j \in 1 .. Len(hs) : hs[j] \in Huecos
  BY ListaTipo
<1>2. g = [j \in 1 .. Len(hs) |-> IF j = i THEN n ELSE hs[j]]
  BY <1>1
<1> HIDE DEF h, g
<1>3. /\ n \in Huecos /\ n.libre /\ n.base = h.base /\ n.tamanio = h.tamanio
  BY <1>1 DEF Huecos
<1> HIDE DEF n
<1>4. g \in [1 .. Len(hs) -> Huecos]
  BY <1>1, <1>2, <1>3
<1>5. g \in Seq(Huecos) /\ Len(g) = Len(hs)
  BY <1>1, <1>4
<1> QED
  BY <1>2, <1>3, <1>5 DEF g, h

SeBorra(p, tabla, id) ==
    LET nueva == [tabla EXCEPT ![id] = [base |-> NULL, size |-> 0]]
    IN  /\ nueva \in Tablas
        /\ MemoriaTypeOK'
        /\ DOMAIN tabla_segmentos_global' = DOMAIN tabla_segmentos_global
        /\ p \in DOMAIN tabla_segmentos_global =>
              tabla_segmentos_global'[p] = nueva
        /\ \A q \in DOMAIN tabla_segmentos_global :
              q # p => tabla_segmentos_global'[q] = tabla_segmentos_global[q]

LEMMA EliminarSegmentoTipo ==
    ASSUME MemoriaTypeOK, NEW p, NEW tabla \in Tablas, NEW id \in Ids,
           EliminarSegmento(p, tabla, id), UNCHANGED ALGORITMO_ASIGNACION
    PROVE  SeBorra(p, tabla, id)
<1> DEFINE nueva == [tabla EXCEPT ![id] = [base |-> NULL, size |-> 0]]
           i == Indice(tabla[id].base)
           g == [lista_huecos EXCEPT ![i].libre = TRUE]
<1>1. lista_huecos \in Seq(Huecos) /\ lista_huecos # <<>>
  BY DEF MemoriaTypeOK
<1>2. /\ tabla_segmentos_global' = [tabla_segmentos_global EXCEPT ![p] = nueva]
      /\ lista_huecos' = IF i = 0 THEN Consolidar(lista_huecos, 1)
                                  ELSE Consolidar(g, i)
  BY DEF EliminarSegmento
<1>3. i = 0 \/ i \in 1 .. Len(lista_huecos)
  BY <1>1, IndiceValores
<1> HIDE DEF i
<1>4. nueva \in Tablas
  BY TablaConOtro
<1> HIDE DEF nueva
<1>5. lista_huecos' \in Seq(Huecos) \ {<<>>}
  <2>1. CASE i = 0
    <3>1. 1 \in 1 .. Len(lista_huecos)
      BY <1>1, ListaTipo
    <3> QED
      BY <1>1, <1>2, <2>1, <3>1, ConsolidarTipo
  <2>2. CASE i # 0
    <3>1. i \in 1 .. Len(lista_huecos)
      BY <1>3, <2>2
    <3>2. g \in Seq(Huecos) /\ Len(g) = Len(lista_huecos)
      BY <1>1, <3>1, Liberada
    <3> HIDE DEF g
    <3> QED
      BY <1>2, <2>2, <3>1, <3>2, ConsolidarTipo
  <2> QED
    BY <2>1, <2>2
<1>6. /\ MemoriaTypeOK'
      /\ DOMAIN tabla_segmentos_global' = DOMAIN tabla_segmentos_global
      /\ p \in DOMAIN tabla_segmentos_global => tabla_segmentos_global'[p] = nueva
      /\ \A q \in DOMAIN tabla_segmentos_global :
            q # p => tabla_segmentos_global'[q] = tabla_segmentos_global[q]
  BY <1>2, <1>4, <1>5, CambiarTabla
<1> QED
  BY <1>4, <1>6, Zenon DEF nueva, SeBorra

LEMMA CompactarTipo ==
    ASSUME MemoriaTypeOK, Compactar, UNCHANGED ALGORITMO_ASIGNACION
    PROVE  /\ MemoriaTypeOK'
           /\ DOMAIN tabla_segmentos_global' = DOMAIN tabla_segmentos_global
<1> DEFINE hs == Juntar
           g == [i \in DOMAIN hs |-> [hs[i] EXCEPT !.base = BasesNuevas(hs)[i]]]
<1>1. hs \in Seq(Huecos) /\ hs # <<>>
  BY JuntarTipo DEF MemoriaTypeOK
<1>2. /\ lista_huecos' = g
      /\ tabla_segmentos_global' =
            [p \in DOMAIN tabla_segmentos_global |->
                MoverSegmentos(tabla_segmentos_global[p], hs)]
  BY DEF Compactar
<1> HIDE DEF hs
<1>3. g \in Seq(Huecos) /\ g # <<>>
  BY <1>1, ListaMovida
<1> HIDE DEF g
<1>4. ASSUME NEW p \in DOMAIN tabla_segmentos_global
      PROVE  MoverSegmentos(tabla_segmentos_global[p], hs) \in Tablas
  <2>1. tabla_segmentos_global[p] \in Tablas
    BY DEF MemoriaTypeOK
  <2>2. PICK m : /\ m \in [0 .. Len(hs) -> Tablas]
                 /\ MoverSegmentos(tabla_segmentos_global[p], hs) = m[Len(hs)]
    BY <1>1, <2>1, MoverSegmentosDefinida
  <2>3. Len(hs) \in 0 .. Len(hs)
    BY <1>1, ListaTipo
  <2> QED
    BY <2>2, <2>3
<1> QED
  BY <1>2, <1>3, <1>4 DEF MemoriaTypeOK

\* What the parameters are.
LEMMA Valores ==
    /\ 0 \in Ids /\ NULL \notin Nat
    /\ \A tamanio \in Tamanios : tamanio \in Nat \ {0}
    /\ TAM_SEGMENTO_0 \in Nat /\ TAM_MEMORIA \in Nat
    /\ TablaInicial \in Tablas
    /\ \A p \in Pids : p # Nadie
  BY TamanioAssumption, SegmentosAssumption, TamaniosAssumption, NadieAssumption
     DEF Ids, NULL, TablaInicial, Tablas

LEMMA TiposInit == Init => Tipos
<1> SUFFICES ASSUME Init
             PROVE  Tipos
  OBVIOUS
<1>0. /\ ALGORITMO_ASIGNACION \in Algoritmos
      /\ lista_huecos = <<Hueco(0, TAM_SEGMENTO_0, FALSE),
                          Hueco(TAM_SEGMENTO_0, TAM_MEMORIA - TAM_SEGMENTO_0, TRUE)>>
      /\ tabla_segmentos_global = <<>>
      /\ lista_segmentos = [p \in Pids |-> TablaInicial]
      /\ lugar = [p \in Pids |-> "fuera"]
      /\ pedido = SinPedido
      /\ sobra = FALSE /\ mutex_memoria = FALSE
  BY DEF Init, MemoriaInit
<1>1. lista_huecos \in Seq(Huecos) \ {<<>>}
  <2> DEFINE a == Hueco(0, TAM_SEGMENTO_0, FALSE)
             r == TAM_MEMORIA - TAM_SEGMENTO_0
             b == Hueco(TAM_SEGMENTO_0, r, TRUE)
  <2>1. r \in Nat /\ TAM_SEGMENTO_0 \in Nat
    BY TamanioAssumption
  <2>2. a \in Huecos /\ b \in Huecos
    <3> HIDE DEF r
    <3> QED
      BY <2>1, HuecoTipo
  <2>3. lista_huecos = <<a, b>>
    BY <1>0
  <2> HIDE DEF a, b
  <2>4. <<a, b>> \in Seq(Huecos) /\ <<a, b>> # <<>>
    BY <2>2
  <2> QED
    BY <2>3, <2>4
<1>a. DOMAIN tabla_segmentos_global = {}
  BY <1>0
<1>2. MemoriaTypeOK
  BY <1>0, <1>1, <1>a DEF MemoriaTypeOK
<1>3. /\ lista_segmentos \in [Pids -> Tablas] /\ lugar \in [Pids -> Lugares]
      /\ sobra \in BOOLEAN /\ mutex_memoria \in BOOLEAN
  BY <1>0, Valores DEF Lugares
<1>4. pedido \in [pid : Pids \cup {Nadie}, id : Ids, tamanio : Tamanios \cup {0}]
  BY <1>0, Valores DEF SinPedido, Pedido
<1>5. DOMAIN tabla_segmentos_global = {p \in Pids : lugar[p] # "fuera"}
  BY <1>0, <1>a
<1>6. EnMano
  BY <1>0, NadieAssumption DEF EnMano, SinPedido, Pedido
<1> QED
  BY <1>2, <1>3, <1>4, <1>5, <1>6 DEF Tipos, TypeOK

\* The effect of a step on where the PCBs are.
LEMMA VaTipo ==
    ASSUME TypeOK, NEW p \in Pids, NEW a \in Lugares, Va(p, a)
    PROVE  /\ lugar' \in [Pids -> Lugares] /\ lugar'[p] = a
           /\ \A q \in Pids : q # p => lugar'[q] = lugar[q]
           /\ lugar[p] # "fuera" /\ a # "fuera" =>
                 {q \in Pids : lugar'[q] # "fuera"}
                    = {q \in Pids : lugar[q] # "fuera"}
<1>1. lugar \in [Pids -> Lugares]
  BY DEF TypeOK
<1>2. /\ lugar' \in [Pids -> Lugares] /\ lugar'[p] = a
      /\ \A q \in Pids : q # p => lugar'[q] = lugar[q]
  BY <1>1 DEF Va
<1> QED
  BY <1>2

LEMMA PedidoTipo ==
    ASSUME NEW p \in Pids, NEW id \in Ids, NEW tamanio \in Tamanios
    PROVE  /\ Pedido(p, id, tamanio)
                 \in [pid : Pids \cup {Nadie}, id : Ids, tamanio : Tamanios \cup {0}]
           /\ Pedido(p, id, tamanio).pid = p
           /\ SinPedido
                 \in [pid : Pids \cup {Nadie}, id : Ids, tamanio : Tamanios \cup {0}]
           /\ SinPedido.pid = Nadie
           /\ Pedido(p, id, tamanio) # SinPedido
<1>1. /\ Pedido(p, id, tamanio).pid = p /\ SinPedido.pid = Nadie
  BY DEF Pedido, SinPedido
<1>2. /\ Pedido(p, id, tamanio)
            \in [pid : Pids \cup {Nadie}, id : Ids, tamanio : Tamanios \cup {0}]
      /\ SinPedido
            \in [pid : Pids \cup {Nadie}, id : Ids, tamanio : Tamanios \cup {0}]
  BY Valores DEF Pedido, SinPedido
<1> QED
  BY <1>1, <1>2, Valores

LEMMA RespuestaOK ==
    ASSUME NEW tamanio, Respuesta(tamanio) = "AUX_OK"
    PROVE  Alcanzan(tamanio) # {}
  BY DEF Respuesta

\* A request changes the place of its process only.
LEMMA PedirSegmentoLugar ==
    ASSUME Tipos, NEW p \in Pids, NEW id \in Ids \ {0}, NEW tamanio \in Tamanios,
           PedirSegmento(p, id, tamanio)
    PROVE  /\ lugar[p] # "fuera" /\ p \in DOMAIN tabla_segmentos_global
           /\ pedido = SinPedido \/ pedido.pid = p
<1>1. \/ pedido = SinPedido /\ lugar[p] = "lista"
      \/ pedido = Pedido(p, id, tamanio)
  BY DEF PedirSegmento
<1>2. pedido = Pedido(p, id, tamanio) => pedido.pid = p
  BY PedidoTipo
<1>3. lugar[p] # "fuera"
  BY <1>1, <1>2 DEF Tipos, EnMano
<1> QED
  BY <1>1, <1>2, <1>3 DEF Tipos, TypeOK

LEMMA PedirSegmentoTipo ==
    ASSUME Tipos, NEW p \in Pids, NEW id \in Ids \ {0}, NEW tamanio \in Tamanios,
           PedirSegmento(p, id, tamanio), UNCHANGED ALGORITMO_ASIGNACION
    PROVE  Tipos'
<1> DEFINE T == tabla_segmentos_global
           Pedidos == [pid : Pids \cup {Nadie}, id : Ids, tamanio : Tamanios \cup {0}]
           Dentro == {q \in Pids : lugar[q] # "fuera"}
<1>1. /\ MemoriaTypeOK /\ lista_segmentos \in [Pids -> Tablas]
      /\ lista_segmentos[p] \in Tablas
      /\ pedido \in Pedidos /\ sobra \in BOOLEAN /\ mutex_memoria \in BOOLEAN
      /\ DOMAIN T = Dentro /\ EnMano
  BY DEF Tipos, TypeOK
<1>2. lugar[p] # "fuera" /\ p \in DOMAIN T /\ (pedido = SinPedido \/ pedido.pid = p)
  BY PedirSegmentoLugar
<1>3. /\ Pedido(p, id, tamanio) \in Pedidos /\ Pedido(p, id, tamanio).pid = p
      /\ SinPedido \in Pedidos /\ SinPedido.pid = Nadie /\ Nadie \notin Pids
  BY PedidoTipo, NadieAssumption
<1>4. tamanio \in Nat /\ id \in Ids
  BY Valores
<1>5. CASE Creado(p, id, tamanio)
  <2>1. /\ CrearSegmento(p, lista_segmentos[p], id, tamanio)
        /\ Alcanzan(tamanio) # {} /\ Va(p, "lista") /\ pedido' = SinPedido
        /\ sobra' = sobra /\ mutex_memoria' = mutex_memoria
        /\ lista_segmentos' =
              [lista_segmentos EXCEPT
                  ![p][id] = [base |-> lista_huecos[Elegido(tamanio)].base,
                              size |-> tamanio]]
    BY <1>5, RespuestaOK DEF Creado, conexion
  <2>2. /\ [lista_segmentos[p] EXCEPT
               ![id] = [base |-> lista_huecos[Elegido(tamanio)].base,
                        size |-> tamanio]] \in Tablas
        /\ MemoriaTypeOK' /\ DOMAIN T' = DOMAIN T
    <3> DEFINE tabla == lista_segmentos[p]
    <3>1. tabla \in Tablas /\ CrearSegmento(p, tabla, id, tamanio)
      BY <1>1, <2>1
    <3> HIDE DEF tabla
    <3>2. /\ [tabla EXCEPT ![id] = [base |-> lista_huecos[Elegido(tamanio)].base,
                                    size |-> tamanio]] \in Tablas
          /\ MemoriaTypeOK' /\ DOMAIN T' = DOMAIN T
      <4>1. SeCrea(p, tabla, id, tamanio)
        BY <1>1, <1>4, <2>1, <3>1, CrearSegmentoTipo
      <4> QED
        BY <4>1, Zenon DEF SeCrea
    <3> QED
      BY <3>2 DEF tabla
  <2>3. lista_segmentos' \in [Pids -> Tablas]
    BY <1>1, <2>1, <2>2
  <2>4. /\ lugar' \in [Pids -> Lugares]
        /\ {q \in Pids : lugar'[q] # "fuera"} = Dentro
    BY <1>2, <2>1, VaTipo DEF Tipos, Lugares
  <2>5. EnMano'
    BY <1>3, <2>1 DEF EnMano
  <2> QED
    BY <1>1, <1>3, <2>1, <2>2, <2>3, <2>4, <2>5 DEF Tipos, TypeOK
<1>6. CASE Compactado(p, id, tamanio)
  <2>1. /\ Compactar /\ ActualizarTablas(p)
        /\ sobra' = sobra /\ mutex_memoria' = mutex_memoria
        /\ \/ Va(p, "mano") /\ pedido' = Pedido(p, id, tamanio)
           \/ Va(p, "perdido") /\ pedido' = SinPedido
    BY <1>6 DEF Compactado, conexion
  <2>2. MemoriaTypeOK' /\ DOMAIN T' = DOMAIN T
    BY <1>1, <2>1, CompactarTipo
  <2>3. lista_segmentos' \in [Pids -> Tablas]
    <3>1. \A q \in Pids : lugar[q] = "lista" => T'[q] \in Tablas
      BY <1>1, <2>2 DEF MemoriaTypeOK
    <3> QED
      BY <1>1, <2>1, <3>1 DEF ActualizarTablas
  <2>4. /\ lugar' \in [Pids -> Lugares]
        /\ {q \in Pids : lugar'[q] # "fuera"} = Dentro
    BY <1>2, <2>1, VaTipo DEF Tipos, Lugares
  <2>5. EnMano'
    <3>1. Va(p, "mano") => lugar'[p] = "mano"
      BY VaTipo DEF Tipos, Lugares
    <3> QED
      BY <1>3, <2>1, <3>1 DEF EnMano
  <2>6. pedido' \in Pedidos
    BY <1>3, <2>1
  <2> QED
    BY <1>1, <2>1, <2>2, <2>3, <2>4, <2>5, <2>6 DEF Tipos, TypeOK
<1>7. CASE SinMemoria(p, tamanio)
  <2>1. /\ Va(p, "fin") /\ pedido' = SinPedido /\ sobra' = TRUE
        /\ UNCHANGED <<lista_huecos, T, lista_segmentos, mutex_memoria>>
    BY <1>7 DEF SinMemoria, memoria
  <2>2. MemoriaTypeOK' /\ DOMAIN T' = DOMAIN T
    BY <1>1, <2>1 DEF MemoriaTypeOK
  <2>3. /\ lugar' \in [Pids -> Lugares]
        /\ {q \in Pids : lugar'[q] # "fuera"} = Dentro
    BY <1>2, <2>1, VaTipo DEF Tipos, Lugares
  <2>4. EnMano'
    BY <1>3, <2>1 DEF EnMano
  <2> QED
    BY <1>1, <1>3, <2>1, <2>2, <2>3, <2>4 DEF Tipos, TypeOK
<1>8. CASE Desfasado(p, id, tamanio)
  <2>1. /\ Va(p, "mano") /\ pedido' = Pedido(p, id, tamanio)
        /\ mutex_memoria' = TRUE /\ UNCHANGED <<lista_segmentos, sobra>>
        /\ \/ /\ CrearSegmento(p, lista_segmentos[p], id, tamanio)
              /\ Alcanzan(tamanio) # {}
           \/ UNCHANGED <<lista_huecos, T>>
    BY <1>8, RespuestaOK DEF Desfasado, memoria
  <2>2. MemoriaTypeOK' /\ DOMAIN T' = DOMAIN T
    <3>1. CASE UNCHANGED <<lista_huecos, T>>
      BY <1>1, <3>1 DEF MemoriaTypeOK
    <3>2. CASE /\ CrearSegmento(p, lista_segmentos[p], id, tamanio)
               /\ Alcanzan(tamanio) # {}
      <4> DEFINE tabla == lista_segmentos[p]
      <4>1. tabla \in Tablas /\ CrearSegmento(p, tabla, id, tamanio)
        BY <1>1, <3>2
      <4> HIDE DEF tabla
      <4>2. SeCrea(p, tabla, id, tamanio)
        BY <1>1, <1>4, <3>2, <4>1, CrearSegmentoTipo
      <4> QED
        BY <4>2, Zenon DEF SeCrea
    <3> QED
      BY <2>1, <3>1, <3>2
  <2>3. /\ lugar' \in [Pids -> Lugares] /\ lugar'[p] = "mano"
        /\ {q \in Pids : lugar'[q] # "fuera"} = Dentro
    BY <1>2, <2>1, VaTipo DEF Tipos, Lugares
  <2>4. EnMano'
    BY <1>3, <2>1, <2>3 DEF EnMano
  <2> QED
    BY <1>1, <1>3, <2>1, <2>2, <2>3, <2>4 DEF Tipos, TypeOK
<1> QED
  BY <1>5, <1>6, <1>7, <1>8 DEF PedirSegmento

LEMMA CrearPcbTipo ==
    ASSUME Tipos, NEW p \in Pids, CrearPcb(p), UNCHANGED ALGORITMO_ASIGNACION
    PROVE  /\ Tipos'
           /\ lugar[p] = "fuera" /\ lugar'[p] = "lista"
           /\ p \notin DOMAIN tabla_segmentos_global
           /\ DOMAIN tabla_segmentos_global' = {p} \cup DOMAIN tabla_segmentos_global
           /\ tabla_segmentos_global'[p] = TablaInicial
           /\ lista_segmentos'[p] = TablaInicial
           /\ \A q \in Pids \ {p} :
                 lugar'[q] = lugar[q] /\ lista_segmentos'[q] = lista_segmentos[q]
           /\ \A q \in DOMAIN tabla_segmentos_global :
                 tabla_segmentos_global'[q] = tabla_segmentos_global[q]
<1> DEFINE T == tabla_segmentos_global
<1>1. /\ MemoriaTypeOK /\ lista_segmentos \in [Pids -> Tablas]
      /\ lugar \in [Pids -> Lugares]
      /\ DOMAIN T = {q \in Pids : lugar[q] # "fuera"} /\ EnMano
  BY DEF Tipos, TypeOK
<1>2. /\ lugar[p] = "fuera"
      /\ T' = [q \in {p} \cup DOMAIN T |-> IF q = p THEN TablaInicial ELSE T[q]]
      /\ lista_segmentos' = [lista_segmentos EXCEPT ![p] = TablaInicial]
      /\ Va(p, "lista") /\ UNCHANGED <<lista_huecos, pedido, sobra, mutex_memoria>>
  BY DEF CrearPcb, CrearTabla, conexion
<1>3. p \notin DOMAIN T
  BY <1>1, <1>2
<1>4. /\ DOMAIN T' = {p} \cup DOMAIN T /\ T'[p] = TablaInicial
      /\ \A q \in DOMAIN T : T'[q] = T[q]
  BY <1>2, <1>3
<1>5. MemoriaTypeOK'
  BY <1>1, <1>2, <1>4, Valores DEF MemoriaTypeOK
<1>6. /\ lugar' \in [Pids -> Lugares] /\ lugar'[p] = "lista"
      /\ \A q \in Pids \ {p} : lugar'[q] = lugar[q]
  BY <1>2, VaTipo DEF Tipos, Lugares
<1>7. /\ lista_segmentos' \in [Pids -> Tablas] /\ lista_segmentos'[p] = TablaInicial
      /\ \A q \in Pids \ {p} : lista_segmentos'[q] = lista_segmentos[q]
  BY <1>1, <1>2, Valores
<1>8. DOMAIN T' = {q \in Pids : lugar'[q] # "fuera"}
  BY <1>1, <1>4, <1>6
<1>9. EnMano'
  BY <1>1, <1>2, <1>6 DEF EnMano
<1>10. TypeOK'
  BY <1>2, <1>5, <1>6, <1>7, <1>8 DEF Tipos, TypeOK
<1> QED
  BY <1>2, <1>3, <1>4, <1>6, <1>7, <1>9, <1>10 DEF Tipos

LEMMA BorrarSegmentoTipo ==
    ASSUME Tipos, NEW p \in Pids, NEW id \in Ids \ {0}, BorrarSegmento(p, id),
           UNCHANGED ALGORITMO_ASIGNACION
    PROVE  Tipos'
<1> DEFINE T == tabla_segmentos_global
<1>1. /\ MemoriaTypeOK /\ lista_segmentos \in [Pids -> Tablas]
      /\ lugar \in [Pids -> Lugares] /\ EnMano
      /\ DOMAIN T = {q \in Pids : lugar[q] # "fuera"}
  BY DEF Tipos, TypeOK
<1>2. /\ lugar[p] = "lista" /\ EliminarSegmento(p, lista_segmentos[p], id)
      /\ UNCHANGED <<lugar, pedido, sobra>>
      /\ \/ mutex_memoria' = TRUE /\ UNCHANGED lista_segmentos
         \/ /\ lista_segmentos' = [lista_segmentos EXCEPT ![p] = T'[p]]
            /\ UNCHANGED mutex_memoria
  BY DEF BorrarSegmento
<1>3. MemoriaTypeOK' /\ DOMAIN T' = DOMAIN T
  <2> DEFINE tabla == lista_segmentos[p]
  <2>1. tabla \in Tablas /\ EliminarSegmento(p, tabla, id)
    BY <1>1, <1>2
  <2> HIDE DEF tabla
  <2>2. SeBorra(p, tabla, id)
    BY <1>1, <2>1, EliminarSegmentoTipo
  <2> QED
    BY <2>2, Zenon DEF SeBorra
<1>4. T'[p] \in Tablas
  BY <1>1, <1>2, <1>3 DEF MemoriaTypeOK
<1>5. lista_segmentos' \in [Pids -> Tablas]
  BY <1>1, <1>2, <1>4
<1> QED
  BY <1>1, <1>2, <1>3, <1>5 DEF Tipos, TypeOK, EnMano

\* The steps of the planner, which do not go to Memoria.
LEMMA PlanificadorTipo ==
    ASSUME Tipos, NEW p \in Pids, Bloquear(p) \/ Despertar(p) \/ Terminar(p),
           UNCHANGED ALGORITMO_ASIGNACION
    PROVE  /\ Tipos' /\ pedido = SinPedido
           /\ lugar[p] \in {"lista", "recurso"}
           /\ lugar'[p] \in {"lista", "recurso", "fin"}
           /\ \A q \in Pids \ {p} : lugar'[q] = lugar[q]
           /\ UNCHANGED <<lista_huecos, tabla_segmentos_global, lista_segmentos,
                          pedido, sobra, mutex_memoria>>
<1>1. /\ MemoriaTypeOK /\ lista_segmentos \in [Pids -> Tablas]
      /\ lugar \in [Pids -> Lugares] /\ EnMano
      /\ DOMAIN tabla_segmentos_global = {q \in Pids : lugar[q] # "fuera"}
  BY DEF Tipos, TypeOK
<1>2. /\ pedido = SinPedido /\ lugar[p] \in {"lista", "recurso"}
      /\ Va(p, "recurso") \/ Va(p, "lista") \/ Va(p, "fin")
      /\ UNCHANGED <<lista_huecos, tabla_segmentos_global, lista_segmentos,
                     pedido, sobra, mutex_memoria>>
  BY DEF Bloquear, Despertar, Terminar, memoria, conexion
<1>3. /\ lugar' \in [Pids -> Lugares] /\ lugar'[p] \in {"lista", "recurso", "fin"}
      /\ \A q \in Pids \ {p} : lugar'[q] = lugar[q]
      /\ {q \in Pids : lugar'[q] # "fuera"} = {q \in Pids : lugar[q] # "fuera"}
  BY <1>1, <1>2, VaTipo DEF Tipos, Lugares
<1>4. EnMano'
  BY <1>2, NadieAssumption DEF EnMano, SinPedido, Pedido
<1>5. TypeOK'
  BY <1>1, <1>2, <1>3 DEF Tipos, TypeOK, MemoriaTypeOK
<1> QED
  BY <1>2, <1>3, <1>4, <1>5 DEF Tipos

LEMMA TiposStep == Tipos /\ [Next]_vars => Tipos'
<1> SUFFICES ASSUME Tipos, [Next]_vars
             PROVE  Tipos'
  OBVIOUS
<1>1. CASE UNCHANGED vars
  BY <1>1 DEF Tipos, TypeOK, MemoriaTypeOK, EnMano, vars, memoria, conexion
<1>2. CASE Next
  <2>1. PICK p \in Pids :
           \/ CrearPcb(p)
           \/ \E id \in Ids \ {0}, tamanio \in Tamanios :
                 PedirSegmento(p, id, tamanio)
           \/ \E id \in Ids \ {0} : BorrarSegmento(p, id)
           \/ Bloquear(p) \/ Despertar(p) \/ Terminar(p)
    BY <1>2 DEF Next
  <2>2. UNCHANGED ALGORITMO_ASIGNACION
    BY <1>2 DEF Next
  <2>3. CASE CrearPcb(p)
    BY <2>2, <2>3, CrearPcbTipo
  <2>4. CASE \E id \in Ids \ {0}, tamanio \in Tamanios :
                PedirSegmento(p, id, tamanio)
    BY <2>2, <2>4, PedirSegmentoTipo
  <2>5. CASE \E id \in Ids \ {0} : BorrarSegmento(p, id)
    BY <2>2, <2>5, BorrarSegmentoTipo
  <2>6. CASE Bloquear(p) \/ Despertar(p) \/ Terminar(p)
    BY <2>2, <2>6, PlanificadorTipo
  <2> QED
    BY <2>1, <2>3, <2>4, <2>5, <2>6
<1> QED
  BY <1>1, <1>2

\* Lists, tables, places and requests are always what TypeOK says: a loop of
\* Memoria never reads out of its list, whatever compaction left in it.
THEOREM TypeOKTeorema == Spec => []TypeOK
<1>1. Tipos => TypeOK
  BY DEF Tipos
<1> QED
  BY <1>1, TiposInit, TiposStep, PTL DEF Spec

-----------------------------------------------------------------------------
(* The partition, of any list and any tables *)

\* The segments but 0 of some tables that have been created.
De(T) == {s \in (DOMAIN T) \X (Ids \ {0}) : T[s[1]][s[2]].base # NULL}

Suyo(hs, segmento, i) ==
    ~hs[i].libre /\ hs[i].base = segmento.base /\ hs[i].tamanio = segmento.size

\* Each has a hole, and no two the same.
Suyos(hs, T) ==
    /\ \A s \in De(T) : \E i \in 2 .. Len(hs) : Suyo(hs, T[s[1]][s[2]], i)
    /\ \A s, t \in De(T) :
          s # t => T[s[1]][s[2]].base # T[t[1]][t[2]].base

Separados(T) ==
    \A s, t \in De(T) :
        s # t =>
          \/ T[s[1]][s[2]].base + T[s[1]][s[2]].size <= T[t[1]][t[2]].base
          \/ T[t[1]][t[2]].base + T[t[1]][t[2]].size <= T[s[1]][s[2]].base

\* With a hole each, segments are separated when their bases are not the same.
LEMMA SeparadosBases ==
    ASSUME NEW hs, NEW T, Dividida(hs),
           \A s \in De(T) : \E i \in 2 .. Len(hs) : Suyo(hs, T[s[1]][s[2]], i)
    PROVE  Separados(T) <=> \A s, t \in De(T) :
                               s # t => T[s[1]][s[2]].base # T[t[1]][t[2]].base
<1>1. EnFila(hs) /\ LlenosOcupados(hs)
  BY DEF Dividida
<1>2. /\ Len(hs) \in Nat
      /\ \A i \in 1 .. Len(hs) : hs[i].base \in Nat /\ hs[i].tamanio \in Nat
  BY <1>1, FilaTipo
<1>3. \A j \in 1 .. Len(hs) : \A i \in 1 .. Len(hs) :
         i < j => hs[i].base + hs[i].tamanio <= hs[j].base
  BY <1>1, FilaOrden
<1>4. ASSUME NEW s \in De(T), NEW t \in De(T), s # t
      PROVE  (\/ T[s[1]][s[2]].base + T[s[1]][s[2]].size <= T[t[1]][t[2]].base
              \/ T[t[1]][t[2]].base + T[t[1]][t[2]].size <= T[s[1]][s[2]].base)
             <=> T[s[1]][s[2]].base # T[t[1]][t[2]].base
  <2> DEFINE x == T[s[1]][s[2]]
             y == T[t[1]][t[2]]
  <2>1. PICK i \in 2 .. Len(hs) : Suyo(hs, x, i)
    OBVIOUS
  <2>2. PICK j \in 2 .. Len(hs) : Suyo(hs, y, j)
    OBVIOUS
  <2> HIDE DEF x, y
  <2>3. /\ i \in 1 .. Len(hs) /\ hs[i].tamanio > 0
        /\ hs[i].base = x.base /\ hs[i].tamanio = x.size
    BY <1>1, <1>2, <2>1 DEF Suyo, LlenosOcupados
  <2>4. /\ j \in 1 .. Len(hs) /\ hs[j].tamanio > 0
        /\ hs[j].base = y.base /\ hs[j].tamanio = y.size
    BY <1>1, <1>2, <2>2 DEF Suyo, LlenosOcupados
  <2>5. /\ i < j => hs[i].base + hs[i].tamanio <= hs[j].base
        /\ j < i => hs[j].base + hs[j].tamanio <= hs[i].base
        /\ i = j => hs[i].base = hs[j].base
    BY <1>3, <2>3, <2>4
  <2>6. /\ hs[i].base \in Nat /\ hs[i].tamanio \in Nat
        /\ hs[j].base \in Nat /\ hs[j].tamanio \in Nat
        /\ i < j \/ j < i \/ i = j
    BY <1>2, <2>3, <2>4, SMTT(30)
  <2>7. (x.base + x.size <= y.base \/ y.base + y.size <= x.base)
           <=> x.base # y.base
    BY <2>3, <2>4, <2>5, <2>6
  <2> QED
    BY <2>7 DEF x, y
<1> QED
  BY <1>4, Zenon DEF Separados

\* What Particion says of a state.
LEMMA ParticionEs ==
    ASSUME lista_huecos \in Seq(Huecos) \ {<<>>}
    PROVE  Particion <=> /\ Dividida(lista_huecos)
                         /\ Suyos(lista_huecos, tabla_segmentos_global)
<1> DEFINE hs == lista_huecos
           T == tabla_segmentos_global
<1>1. Len(hs) \in Nat /\ Len(hs) >= 1 /\ DOMAIN hs = 1 .. Len(hs)
  BY ListaTipo
<1>2. /\ Contiguos <=> EnFila(hs)
      /\ OcupadosLlenos <=> LlenosOcupados(hs)
      /\ LibresSueltos <=> Pares(hs) = {}
  BY <1>1 DEF Contiguos, EnFila, OcupadosLlenos, LlenosOcupados, LibresSueltos,
              Pares, Llenos, Fin
<1>3. Creados = De(T)
  BY DEF Creados, De
<1>4. /\ CadaUnoElSuyo <=> \A s \in De(T) :
                              \E i \in 2 .. Len(hs) : Suyo(hs, T[s[1]][s[2]], i)
      /\ SegmentosSeparados <=> Separados(T)
  BY <1>3, Zenon DEF CadaUnoElSuyo, EnSuHueco, Segmento, Suyo, SegmentosSeparados,
                     Separados
<1> QED
  BY <1>2, <1>4, SeparadosBases DEF Particion, Dividida, Suyos

LEMMA ParticionSera ==
    ASSUME lista_huecos' \in Seq(Huecos) \ {<<>>},
           Dividida(lista_huecos'), Suyos(lista_huecos', tabla_segmentos_global')
    PROVE  Particion'
<1> DEFINE hs == lista_huecos'
           T == tabla_segmentos_global'
<1>1. Len(hs) \in Nat /\ Len(hs) >= 1 /\ DOMAIN hs = 1 .. Len(hs)
  BY ListaTipo
<1>2. Contiguos' /\ OcupadosLlenos' /\ LibresSueltos'
  BY <1>1 DEF Contiguos, EnFila, OcupadosLlenos, LlenosOcupados, LibresSueltos,
              Pares, Llenos, Fin, Dividida
<1>3. Creados' = De(T)
  BY DEF Creados, De
<1>4. /\ CadaUnoElSuyo' <=> \A s \in De(T) :
                              \E i \in 2 .. Len(hs) : Suyo(hs, T[s[1]][s[2]], i)
      /\ SegmentosSeparados' <=> Separados(T)
  BY <1>3, Zenon DEF CadaUnoElSuyo, EnSuHueco, Segmento, Suyo, SegmentosSeparados,
                     Separados
<1> QED
  BY <1>2, <1>4, SeparadosBases DEF Particion, Suyos

-----------------------------------------------------------------------------
(* What the requests do to the partition *)

\* The tables with a segment of one of them changed.
Cambiada(T, U, p, id, segmento) ==
    /\ \A q \in DOMAIN T : T[q] \in Tablas
    /\ DOMAIN U = DOMAIN T /\ p \in DOMAIN T
    /\ U[p] = [T[p] EXCEPT ![id] = segmento]
    /\ \A q \in DOMAIN T : q # p => U[q] = T[q]

Cambia(T, U, p, id, segmento) ==
    /\ U[p][id] = segmento
    /\ \A s \in De(U) : s # <<p, id>> =>
          s \in De(T) /\ U[s[1]][s[2]] = T[s[1]][s[2]]

LEMMA CambiadaValores ==
    ASSUME NEW T, NEW U, NEW p, NEW id, NEW segmento,
           id \in Ids \ {0}, Cambiada(T, U, p, id, segmento)
    PROVE  Cambia(T, U, p, id, segmento)
<1>1. T[p] \in Tablas /\ DOMAIN T[p] = Ids
  BY DEF Cambiada, Tablas
<1>2. U[p][id] = segmento /\ \A k \in Ids : k # id => U[p][k] = T[p][k]
  BY <1>1 DEF Cambiada
<1>3. ASSUME NEW s \in De(U), s # <<p, id>>
      PROVE  s \in De(T) /\ U[s[1]][s[2]] = T[s[1]][s[2]]
  <2>1. s = <<s[1], s[2]>> /\ s[1] \in DOMAIN T /\ s[2] \in Ids \ {0}
        /\ U[s[1]][s[2]].base # NULL
    BY DEF De, Cambiada
  <2>2. U[s[1]][s[2]] = T[s[1]][s[2]]
    BY <1>2, <1>3, <2>1 DEF Cambiada
  <2> QED
    BY <2>1, <2>2 DEF De
<1> QED
  BY <1>2, <1>3 DEF Cambia

\* A segment has hole i, and the occupied ones of before are other holes.
Cabe(hs, gs, i, segmento) ==
    /\ i \in 2 .. Len(gs) /\ Suyo(gs, segmento, i)
    /\ \A j \in 2 .. Len(hs) : ~hs[j].libre =>
          \E k \in 2 .. Len(gs) : k # i /\ gs[k] = hs[j]

\* The new segment has a hole that no other had.
LEMMA SuyosCrear ==
    ASSUME NEW hs, NEW gs, NEW T, NEW U, NEW p, NEW id, NEW nuevo, NEW i,
           id \in Ids \ {0}, Suyos(hs, T), Dividida(gs),
           Cambiada(T, U, p, id, nuevo), Cabe(hs, gs, i, nuevo)
    PROVE  Suyos(gs, U)
<1>1. /\ U[p][id] = nuevo
      /\ \A s \in De(U) : s # <<p, id>> =>
            s \in De(T) /\ U[s[1]][s[2]] = T[s[1]][s[2]]
  <2>1. Cambia(T, U, p, id, nuevo)
    BY CambiadaValores, Zenon
  <2> QED
    BY <2>1 DEF Cambia
<1>2. i \in 2 .. Len(gs) /\ ~gs[i].libre /\ gs[i].base = nuevo.base
  BY DEF Cabe, Suyo
<1>4. Suyo(gs, nuevo, i)
  BY DEF Cabe
<1>5. ASSUME NEW s \in De(U), s # <<p, id>>
      PROVE  \E k \in 2 .. Len(gs) : k # i /\ Suyo(gs, U[s[1]][s[2]], k)
  <2>1. PICK j \in 2 .. Len(hs) : Suyo(hs, T[s[1]][s[2]], j)
    BY <1>1, <1>5 DEF Suyos
  <2>2. PICK k \in 2 .. Len(gs) : k # i /\ gs[k] = hs[j]
    BY <2>1 DEF Suyo, Cabe
  <2> QED
    BY <1>1, <1>5, <2>1, <2>2 DEF Suyo
<1>6. Len(gs) \in Nat
  BY FilaTipo DEF Dividida
<1>7. ASSUME NEW k \in 2 .. Len(gs), k # i, ~gs[k].libre
      PROVE  gs[k].base # gs[i].base
  <2>1. k \in 1 .. Len(gs) /\ i \in 1 .. Len(gs) /\ (k < i \/ i < k)
    BY <1>2, <1>6, <1>7
  <2>2. k < i => gs[k].base # gs[i].base
    BY <1>7, <2>1, FilaBases
  <2>3. i < k => gs[i].base # gs[k].base
    BY <1>2, <2>1, FilaBases
  <2> QED
    BY <2>1, <2>2, <2>3
<1>8. ASSUME NEW s \in De(U), s # <<p, id>>
      PROVE  U[s[1]][s[2]].base # nuevo.base
  BY <1>2, <1>5, <1>7, <1>8 DEF Suyo
<1>9. \A s \in De(U) : \E k \in 2 .. Len(gs) : Suyo(gs, U[s[1]][s[2]], k)
  <2> SUFFICES ASSUME NEW s \in De(U)
               PROVE  \E k \in 2 .. Len(gs) : Suyo(gs, U[s[1]][s[2]], k)
    OBVIOUS
  <2>1. CASE s = <<p, id>>
    BY <1>1, <1>2, <1>4, <2>1
  <2>2. CASE s # <<p, id>>
    BY <1>5, <2>2
  <2> QED
    BY <2>1, <2>2
<1>10. ASSUME NEW s \in De(U), NEW t \in De(U), s # t
       PROVE  U[s[1]][s[2]].base # U[t[1]][t[2]].base
  <2>1. CASE s = <<p, id>>
    BY <1>1, <1>8, <1>10, <2>1
  <2>2. CASE t = <<p, id>>
    BY <1>1, <1>8, <1>10, <2>2
  <2>3. CASE s # <<p, id>> /\ t # <<p, id>>
    BY <1>1, <1>10, <2>3 DEF Suyos
  <2> QED
    BY <2>1, <2>2, <2>3
<1> QED
  BY <1>9, <1>10 DEF Suyos

Borrado == [base |-> NULL, size |-> 0]

\* The occupied holes that do not have a base are left.
Quedan(hs, gs, b) ==
    \A j \in 2 .. Len(hs) : ~hs[j].libre /\ hs[j].base # b =>
        \E k \in 2 .. Len(gs) : gs[k] = hs[j]

\* The other segments keep theirs.
LEMMA SuyosBorrar ==
    ASSUME NEW hs, NEW gs, NEW T, NEW U, NEW p, NEW id,
           id \in Ids \ {0}, Suyos(hs, T), Cambiada(T, U, p, id, Borrado),
           Quedan(hs, gs, T[p][id].base)
    PROVE  Suyos(gs, U)
<1>1. /\ U[p][id].base = NULL
      /\ \A s \in De(U) : s # <<p, id>> =>
            s \in De(T) /\ U[s[1]][s[2]] = T[s[1]][s[2]]
  <2>1. Cambia(T, U, p, id, Borrado)
    BY CambiadaValores, Zenon
  <2> QED
    BY <2>1 DEF Cambia, Borrado
<1>2. ASSUME NEW s \in De(U)
      PROVE  /\ s # <<p, id>> /\ s \in De(T)
             /\ U[s[1]][s[2]] = T[s[1]][s[2]]
  <2>1. U[s[1]][s[2]].base # NULL
    BY DEF De
  <2> QED
    BY <1>1, <2>1
<1>3. ASSUME NEW s \in De(U)
      PROVE  T[s[1]][s[2]].base # T[p][id].base
  <2>1. T[s[1]][s[2]].base # NULL
    BY <1>2 DEF De
  <2>2. CASE T[p][id].base = NULL
    BY <2>1, <2>2
  <2>3. CASE T[p][id].base # NULL
    <3>1. <<p, id>> \in De(T)
      BY <2>3 DEF De, Cambiada
    <3> QED
      BY <1>2, <3>1 DEF Suyos
  <2> QED
    BY <2>2, <2>3
<1>4. ASSUME NEW s \in De(U)
      PROVE  \E k \in 2 .. Len(gs) : Suyo(gs, U[s[1]][s[2]], k)
  <2>1. PICK j \in 2 .. Len(hs) : Suyo(hs, T[s[1]][s[2]], j)
    BY <1>2 DEF Suyos
  <2>2. ~hs[j].libre /\ hs[j].base # T[p][id].base
    BY <1>3, <2>1 DEF Suyo
  <2>3. PICK k \in 2 .. Len(gs) : gs[k] = hs[j]
    BY <2>2 DEF Quedan
  <2> QED
    BY <1>2, <2>1, <2>3 DEF Suyo
<1> QED
  BY <1>2, <1>4 DEF Suyos

LEMMA CrearParticion ==
    ASSUME MemoriaTypeOK, NEW p \in DOMAIN tabla_segmentos_global,
           NEW id \in Ids \ {0}, NEW tamanio \in Nat \ {0}, Alcanzan(tamanio) # {},
           CrearSegmento(p, tabla_segmentos_global[p], id, tamanio),
           UNCHANGED ALGORITMO_ASIGNACION, Particion
    PROVE  Particion'
<1> DEFINE hs == lista_huecos
           gs == lista_huecos'
           T == tabla_segmentos_global
           U == tabla_segmentos_global'
           i == Elegido(tamanio)
           nuevo == [base |-> hs[i].base, size |-> tamanio]
<1>1. /\ T[p] \in Tablas /\ id \in Ids /\ tamanio \in Nat
      /\ \A q \in DOMAIN T : T[q] \in Tablas
  BY DEF MemoriaTypeOK
<1>2. Dividida(hs) /\ Suyos(hs, T)
  BY ParticionEs DEF MemoriaTypeOK
<1>3. /\ i \in 1 .. Len(hs) /\ hs[i].libre /\ tamanio <= hs[i].tamanio
      /\ gs = Partir(i, tamanio)
      /\ MemoriaTypeOK' /\ DOMAIN U = DOMAIN T
      /\ U[p] = [T[p] EXCEPT ![id] = nuevo]
      /\ \A q \in DOMAIN T : q # p => U[q] = T[q]
  <2>1. SeCrea(p, T[p], id, tamanio)
    BY <1>1, CrearSegmentoTipo
  <2> QED
    BY <2>1 DEF SeCrea
<1>4. hs[i].base \in Nat
  BY <1>2, <1>3, FilaTipo DEF Dividida
<1>5. nuevo.base = hs[i].base /\ nuevo.size = tamanio
  OBVIOUS
<1> HIDE DEF i, nuevo
<1>6. Cambiada(T, U, p, id, nuevo)
  BY <1>1, <1>3 DEF Cambiada
<1>7. Dividida(gs) /\ Cabe(hs, gs, i, nuevo)
  <2> DEFINE ls == Partir(i, tamanio)
  <2>1. /\ Dividida(ls) /\ i \in 2 .. Len(ls)
        /\ ls[i] = Hueco(hs[i].base, tamanio, FALSE)
        /\ \A j \in 2 .. Len(hs) : ~hs[j].libre =>
              \E k \in 2 .. Len(ls) : k # i /\ ls[k] = hs[j]
    BY <1>2, <1>3, PartirDividida
  <2> HIDE DEF ls
  <2>2. Cabe(hs, ls, i, nuevo)
    BY <1>5, <2>1 DEF Cabe, Suyo, Hueco
  <2>3. gs = ls
    BY <1>3 DEF ls
  <2> QED
    BY <2>1, <2>2, <2>3
<1>8. Suyos(gs, U)
  BY <1>2, <1>6, <1>7, SuyosCrear
<1> QED
  BY <1>3, <1>7, <1>8, ParticionSera DEF MemoriaTypeOK

LEMMA BorrarParticion ==
    ASSUME MemoriaTypeOK, NEW p \in DOMAIN tabla_segmentos_global,
           NEW id \in Ids \ {0},
           EliminarSegmento(p, tabla_segmentos_global[p], id), UNCHANGED ALGORITMO_ASIGNACION,
           Particion
    PROVE  Particion'
<1> DEFINE hs == lista_huecos
           gs == lista_huecos'
           T == tabla_segmentos_global
           U == tabla_segmentos_global'
           b == T[p][id].base
           i == Indice(b)
<1>1. /\ T[p] \in Tablas /\ id \in Ids /\ hs \in Seq(Huecos)
      /\ \A q \in DOMAIN T : T[q] \in Tablas
  BY DEF MemoriaTypeOK
<1>2. Dividida(hs) /\ Suyos(hs, T)
  BY ParticionEs DEF MemoriaTypeOK
<1>3. /\ EnFila(hs) /\ LlenosOcupados(hs) /\ Pares(hs) = {}
      /\ Len(hs) \in Nat /\ 1 \in 1 .. Len(hs)
      /\ \A j \in 1 .. Len(hs) : hs[j].base \in Nat /\ hs[j].libre \in BOOLEAN
                                 /\ hs[j].tamanio \in Nat
  BY <1>2, FilaTipo DEF Dividida
<1>4. /\ MemoriaTypeOK' /\ DOMAIN U = DOMAIN T
      /\ U[p] = [T[p] EXCEPT ![id] = Borrado]
      /\ \A q \in DOMAIN T : q # p => U[q] = T[q]
  <2>1. SeBorra(p, T[p], id)
    BY <1>1, EliminarSegmentoTipo
  <2> QED
    BY <2>1 DEF SeBorra, Borrado
<1>6. gs = IF i = 0 THEN Consolidar(hs, 1)
           ELSE Consolidar([hs EXCEPT ![i].libre = TRUE], i)
  BY DEF EliminarSegmento
<1>7. \/ i = 0 /\ \A j \in 1 .. Len(hs) : hs[j].base # b
      \/ /\ i \in 1 .. Len(hs) /\ hs[i].base = b
         /\ \A j \in 1 .. Len(hs) : hs[j].base = b => i <= j
  BY <1>1, IndiceValores
<1> HIDE DEF i
<1>8. Cambiada(T, U, p, id, Borrado)
  BY <1>1, <1>4 DEF Cambiada
<1>9. SUFFICES Dividida(gs) /\ Quedan(hs, gs, b)
  <2>1. ASSUME Quedan(hs, gs, b)
        PROVE  Suyos(gs, U)
    BY <1>2, <1>8, <2>1, SuyosBorrar
  <2> QED
    BY <1>4, <2>1, ParticionSera DEF MemoriaTypeOK
<1>10. CASE i = 0
  <2>1. gs = Consolidar(hs, 1) /\ \A k \in Pares(hs) : k = 1 \/ k + 1 = 1
    BY <1>3, <1>6, <1>10
  <2>2. Dividida(gs) /\ Guarda(gs, hs)
    BY <1>3, <2>1, ConsolidarDividida
  <2> QED
    BY <2>2 DEF Guarda, Quedan
<1>11. CASE i # 0
  <2> DEFINE ls == [hs EXCEPT ![i].libre = TRUE]
  <2>1. /\ i \in 1 .. Len(hs) /\ hs[i].base = b
        /\ \A j \in 1 .. Len(hs) : hs[j].base = b => i <= j
    BY <1>7, <1>11
  <2>2. i # 1
    <3> SUFFICES ASSUME i = 1
                 PROVE  FALSE
      OBVIOUS
    <3>1. b # NULL
      BY <1>3, <2>1, Valores
    <3>2. <<p, id>> \in De(T)
      BY <1>1, <3>1 DEF De
    <3>3. PICK j \in 2 .. Len(hs) : Suyo(hs, T[p][id], j)
      BY <1>2, <3>2 DEF Suyos
    <3>4. j \in 1 .. Len(hs) /\ 1 < j /\ hs[j].base = b
      BY <1>3, <3>3 DEF Suyo
    <3> QED
      BY <1>2, <1>3, <2>1, <3>4, FilaBases
  <2>3. /\ ls \in Seq(Huecos) /\ Len(ls) = Len(hs) /\ ls[i].libre
        /\ ls[i].base = hs[i].base /\ ls[i].tamanio = hs[i].tamanio
        /\ \A j \in 1 .. Len(hs) : j # i => ls[j] = hs[j]
    BY <1>1, <2>1, Liberada
  <2>4. gs = Consolidar(ls, i)
    BY <1>6, <1>11
  <2> HIDE DEF ls
  <2>5. \A j \in 1 .. Len(hs) : ls[j].base = hs[j].base
                                /\ ls[j].tamanio = hs[j].tamanio
    BY <2>3
  <2>6. EnFila(ls)
    <3>1. ls # <<>> /\ Len(hs) \in 1 .. Len(hs)
      BY <1>3, <2>3
    <3>2. ls[1] = hs[1]
      BY <1>3, <2>2, <2>3
    <3>3. \A j \in 1 .. (Len(hs) - 1) : j \in 1 .. Len(hs) /\ j + 1 \in 1 .. Len(hs)
      BY <1>3
    <3> QED
      BY <1>3, <2>3, <2>5, <3>1, <3>2, <3>3 DEF EnFila
  <2>7. LlenosOcupados(ls)
    BY <1>3, <2>3, <2>5 DEF LlenosOcupados
  <2>8. \A k \in Pares(ls) : k = i \/ k + 1 = i
    <3> SUFFICES ASSUME NEW k \in Pares(ls), k # i, k + 1 # i
                 PROVE  FALSE
      OBVIOUS
    <3>1. k \in 1 .. (Len(hs) - 1) /\ ls[k].libre /\ ls[k + 1].libre
      BY <2>3 DEF Pares
    <3>2. k \in 1 .. Len(hs) /\ k + 1 \in 1 .. Len(hs)
      BY <1>3, <3>1
    <3>3. hs[k] = ls[k] /\ hs[k + 1] = ls[k + 1]
      BY <2>3, <3>2
    <3> QED
      BY <1>3, <3>1, <3>3 DEF Pares
  <2>9. Dividida(gs) /\ Guarda(gs, ls)
    BY <2>1, <2>3, <2>4, <2>6, <2>7, <2>8, ConsolidarDividida
  <2>10. ASSUME NEW j \in 2 .. Len(hs), ~hs[j].libre, hs[j].base # b
         PROVE  \E k \in 2 .. Len(gs) : gs[k] = hs[j]
    <3>1. j \in 1 .. Len(hs) /\ j # i
      BY <1>3, <2>1, <2>10
    <3>2. ls[j] = hs[j]
      BY <2>3, <3>1
    <3> QED
      BY <2>3, <2>9, <2>10, <3>2 DEF Guarda
  <2> QED
    BY <2>9, <2>10 DEF Quedan
<1> QED
  BY <1>10, <1>11

-----------------------------------------------------------------------------
(* The sizes of the free holes and of the others make the whole memory *)

LEMMA SumaAppend ==
    ASSUME NEW hs \in Seq(Huecos), NEW h \in Huecos
    PROVE  Suma(Append(hs, h)) = Suma(hs) + h.tamanio
<1> DEFINE gs == Append(hs, h)
           N == Len(hs)
<1>1. /\ gs \in Seq(Huecos) /\ N \in Nat /\ Len(gs) = N + 1
      /\ gs[N + 1] = h /\ \A i \in 1 .. N : gs[i] = hs[i]
  OBVIOUS
<1> HIDE DEF gs
<1>2. PICK s : /\ s \in [0 .. N -> Nat] /\ s[0] = 0
               /\ \A i \in 1 .. N : s[i] = s[i - 1] + hs[i].tamanio
               /\ Suma(hs) = s[N]
  BY SumaDefinida
<1>3. PICK g : /\ g \in [0 .. Len(gs) -> Nat] /\ g[0] = 0
               /\ \A i \in 1 .. Len(gs) : g[i] = g[i - 1] + gs[i].tamanio
               /\ Suma(gs) = g[Len(gs)]
  BY <1>1, SumaDefinida
<1>4. \A i \in 0 .. N : g[i] = s[i]
  <2> DEFINE S == {i \in 0 .. N : g[i] = s[i]}
  <2>1. 0 \in S
    BY <1>1, <1>2, <1>3
  <2>2. ASSUME NEW i \in 0 .. (N - 1), i \in S
        PROVE  i + 1 \in S
    <3>1. i + 1 \in 1 .. N /\ i + 1 \in 1 .. Len(gs) /\ (i + 1) - 1 = i
      BY <1>1
    <3>2. s[i + 1] = s[i] + hs[i + 1].tamanio /\ g[i + 1] = g[i] + gs[i + 1].tamanio
      BY <1>2, <1>3, <3>1
    <3> QED
      BY <1>1, <2>2, <3>1, <3>2
  <2> HIDE DEF S
  <2>3. 0 .. N \subseteq S
    BY <1>1, <2>1, <2>2, Induccion
  <2> QED
    BY <2>3 DEF S
<1>5. N \in 0 .. N /\ N + 1 \in 1 .. Len(gs) /\ (N + 1) - 1 = N
  BY <1>1
<1>6. g[N + 1] = g[N] + h.tamanio
  BY <1>1, <1>3, <1>5
<1> QED
  BY <1>1, <1>2, <1>3, <1>4, <1>5, <1>6 DEF gs

LEMMA SumaVacia == Suma(<<>>) = 0
<1>1. <<>> \in Seq(Huecos) /\ Len(<<>>) = 0
  OBVIOUS
<1> QED
  BY <1>1, SumaDefinida

LEMMA SumaPartes ==
    ASSUME NEW hs \in Seq(Huecos)
    PROVE  Suma(Ocupados(hs)) + Suma(Libres(hs)) = Suma(hs)
<1> DEFINE N == Len(hs)
<1>1. N \in Nat /\ \A i \in 1 .. N : hs[i] \in Huecos /\ hs[i].libre \in BOOLEAN
                                     /\ hs[i].tamanio \in Nat
  BY ListaTipo
<1>2. PICK s : /\ s \in [0 .. N -> Nat] /\ s[0] = 0
               /\ \A i \in 1 .. N : s[i] = s[i - 1] + hs[i].tamanio
               /\ Suma(hs) = s[N]
  BY SumaDefinida
<1>3. PICK o : /\ o \in [0 .. N -> Seq(Huecos)] /\ o[0] = <<>>
               /\ \A i \in 1 .. N :
                     o[i] = IF hs[i].libre = FALSE
                            THEN Append(o[i - 1], hs[i]) ELSE o[i - 1]
               /\ Filtrar(hs, FALSE) = o[N]
  BY FiltrarDefinida
<1>4. PICK l : /\ l \in [0 .. N -> Seq(Huecos)] /\ l[0] = <<>>
               /\ \A i \in 1 .. N :
                     l[i] = IF hs[i].libre = TRUE
                            THEN Append(l[i - 1], hs[i]) ELSE l[i - 1]
               /\ Filtrar(hs, TRUE) = l[N]
  BY FiltrarDefinida
<1> DEFINE S == {i \in 0 .. N : Suma(o[i]) + Suma(l[i]) = s[i]}
<1>5. 0 \in S
  BY <1>1, <1>2, <1>3, <1>4, SumaVacia
<1>6. ASSUME NEW i \in 0 .. (N - 1), i \in S
      PROVE  i + 1 \in S
  <2> DEFINE j == i + 1
  <2>1. j \in 1 .. N /\ j \in 0 .. N /\ i \in 0 .. N /\ j - 1 = i
    BY <1>1
  <2>2. s[j] = s[i] + hs[j].tamanio
    BY <1>2, <2>1
  <2>3. /\ o[i] \in Seq(Huecos) /\ l[i] \in Seq(Huecos)
        /\ hs[j] \in Huecos /\ hs[j].tamanio \in Nat
    BY <1>1, <1>3, <1>4, <2>1
  <2>4. Suma(o[i]) \in Nat /\ Suma(l[i]) \in Nat
    BY <2>3, SumaTipo
  <2>5. Suma(o[i]) + Suma(l[i]) = s[i] /\ s[i] \in Nat /\ s[j] \in Nat
    BY <1>2, <1>6, <2>1
  <2>6. CASE hs[j].libre = TRUE
    <3>1. o[j] = o[i] /\ l[j] = Append(l[i], hs[j])
      BY <1>3, <1>4, <2>1, <2>6
    <3>2. Suma(l[j]) = Suma(l[i]) + hs[j].tamanio
      BY <2>3, <3>1, SumaAppend
    <3>3. Suma(o[j]) + Suma(l[j]) = s[j]
      BY <2>2, <2>3, <2>4, <2>5, <3>1, <3>2, SMTT(30)
    <3> QED
      BY <2>1, <3>3
  <2>7. CASE hs[j].libre = FALSE
    <3>1. l[j] = l[i] /\ o[j] = Append(o[i], hs[j])
      BY <1>3, <1>4, <2>1, <2>7
    <3>2. Suma(o[j]) = Suma(o[i]) + hs[j].tamanio
      BY <2>3, <3>1, SumaAppend
    <3>3. Suma(o[j]) + Suma(l[j]) = s[j]
      BY <2>2, <2>3, <2>4, <2>5, <3>1, <3>2, SMTT(30)
    <3> QED
      BY <2>1, <3>3
  <2> QED
    BY <1>1, <2>1, <2>6, <2>7
<1> HIDE DEF S
<1>7. 0 .. N \subseteq S
  BY <1>1, <1>5, <1>6, Induccion
<1>8. N \in S
  BY <1>1, <1>7
<1> QED
  BY <1>2, <1>3, <1>4, <1>8 DEF S, Ocupados, Libres

\* A list of holes one after the other sums the memory.
LEMMA SumaFila ==
    ASSUME NEW hs, EnFila(hs)
    PROVE  Suma(hs) = TAM_MEMORIA
<1> DEFINE N == Len(hs)
<1>1. /\ hs \in Seq(Huecos) /\ N \in Nat /\ N >= 1 /\ 1 \in 1 .. N
      /\ \A i \in 1 .. N : hs[i].base \in Nat /\ hs[i].tamanio \in Nat
  BY FilaTipo
<1>2. /\ hs[1].base = 0
      /\ \A i \in 1 .. (N - 1) : hs[i + 1].base = hs[i].base + hs[i].tamanio
      /\ hs[N].base + hs[N].tamanio = TAM_MEMORIA
  BY DEF EnFila
<1>3. PICK s : /\ s \in [0 .. N -> Nat] /\ s[0] = 0
               /\ \A i \in 1 .. N : s[i] = s[i - 1] + hs[i].tamanio
               /\ Suma(hs) = s[N]
  BY <1>1, SumaDefinida
<1> DEFINE S == {i \in 0 .. N : i > 0 => s[i] = hs[i].base + hs[i].tamanio}
<1>4. 0 \in S
  BY <1>1
<1>5. ASSUME NEW i \in 0 .. (N - 1), i \in S
      PROVE  i + 1 \in S
  <2> DEFINE j == i + 1
  <2>1. j \in 1 .. N /\ j - 1 = i /\ j > 0
    BY <1>1
  <2>2. s[j] = s[i] + hs[j].tamanio
    BY <1>3, <2>1
  <2>3. s[i] = hs[j].base
    <3>1. CASE i = 0
      BY <1>2, <1>3, <3>1
    <3>2. CASE i # 0
      <4>1. i \in 1 .. (N - 1) /\ i > 0
        BY <1>1, <3>2
      <4> QED
        BY <1>2, <1>5, <4>1
    <3> QED
      BY <3>1, <3>2
  <2> QED
    BY <1>1, <2>1, <2>2, <2>3
<1> HIDE DEF S
<1>6. 0 .. N \subseteq S
  BY <1>1, <1>4, <1>5, Induccion
<1>7. N \in S /\ N > 0
  BY <1>1, <1>6
<1> QED
  BY <1>2, <1>3, <1>7 DEF S

-----------------------------------------------------------------------------
(* A clean compaction *)

\* A list with the occupied holes of another, and after them a free one with
\* what the free ones had.
Juntado(hs, js) ==
    /\ js \in Seq(Huecos)
    /\ Len(js) = Len(Ocupados(hs)) + 1
    /\ \A j \in 1 .. Len(Ocupados(hs)) : js[j] = Ocupados(hs)[j]
    /\ js[Len(js)].libre /\ js[Len(js)].tamanio = Suma(Libres(hs))

Filtrado(hs, f, libre) ==
    /\ f \in Seq(Huecos)
    /\ \A j \in 1 .. Len(f) : \E i \in 1 .. Len(hs) :
          f[j] = hs[i] /\ hs[i].libre = libre
    /\ \A i \in 1 .. Len(hs) : hs[i].libre = libre =>
          \E j \in 1 .. Len(f) : f[j] = hs[i]
    /\ \A k \in 1 .. Len(f) : \A j \in 1 .. Len(f) : j < k =>
          \E a, b \in 1 .. Len(hs) :
             a < b /\ f[j] = hs[a] /\ f[k] = hs[b]
    /\ hs # <<>> /\ hs[1].libre = libre => f # <<>> /\ f[1] = hs[1]

LEMMA FiltradoEs ==
    ASSUME NEW hs \in Seq(Huecos)
    PROVE  Filtrado(hs, Libres(hs), TRUE) /\ Filtrado(hs, Ocupados(hs), FALSE)
<1>1. ASSUME NEW libre \in BOOLEAN
      PROVE  Filtrado(hs, Filtrar(hs, libre), libre)
  BY FiltrarValores, Zenon DEF Filtrado
<1>2. Filtrado(hs, Filtrar(hs, TRUE), TRUE) /\ Filtrado(hs, Filtrar(hs, FALSE), FALSE)
  BY <1>1
<1> QED
  BY <1>2, Zenon DEF Libres, Ocupados

\* With one free hole or two and no base twice, that is what is left of the first
\* loop.
LEMMA JuntarLimpia ==
    ASSUME lista_huecos \in Seq(Huecos) \ {<<>>}, SinRepetir, PrimerLibre # 0,
           Len(Libres(lista_huecos)) <= 2
    PROVE  Juntado(lista_huecos, Juntar)
<1> DEFINE hs == lista_huecos
           l == Libres(hs)
           o == Ocupados(hs)
           h == [Head(l) EXCEPT !.tamanio = Suma(l)]
<1>1. /\ hs \in Seq(Huecos) /\ Len(hs) \in Nat /\ DOMAIN hs = 1 .. Len(hs)
      /\ PrimerLibre \in 1 .. Len(hs) /\ hs[PrimerLibre].libre = TRUE
  BY ListaTipo, PrimerLibreValores
<1>2. Parada = Len(hs) + 1
  <2>1. \A j \in 1 .. Len(hs) : hs[j].base = hs[PrimerLibre].base => j = PrimerLibre
    BY <1>1 DEF SinRepetir, IsInjective
  <2>2. \A j \in 1 .. Len(hs) :
           hs[j].base = hs[PrimerLibre].base => ~(j > PrimerLibre)
    BY <1>1, <2>1
  <2> QED
    BY <1>1, <2>2, ParadaTipo
<1>3. l \in Seq(Huecos) /\ o \in Seq(Huecos) /\ l # <<>>
  BY <1>1, FiltrarTipo DEF Libres, Ocupados
<1>4. SubSeq(hs, 1, Parada - 1) = hs
  <2> DEFINE gs == hs
  <2>1. gs \in Seq(Huecos) /\ Len(gs) \in Nat
    BY <1>1
  <2> HIDE DEF gs
  <2>2. SubSeq(gs, 1, Len(gs)) = gs /\ (Len(gs) + 1) - 1 = Len(gs)
    BY <2>1
  <2> QED
    BY <1>2, <2>2 DEF gs
<1>5. SubSeq(hs, Parada, Len(hs)) \o l = l
  <2> DEFINE gs == hs
             n == Len(hs)
             ls == l
  <2>1. gs \in Seq(Huecos) /\ ls \in Seq(Huecos) /\ n \in Nat /\ n = Len(gs)
    BY <1>1, <1>3
  <2> HIDE DEF gs, n, ls
  <2>2. SubSeq(gs, n + 1, n) = <<>>
    BY <2>1
  <2>3. <<>> \o ls = ls
    BY <2>1
  <2> QED
    BY <1>2, <2>2, <2>3 DEF gs, n, ls
<1>6. Juntar = o \o <<h>> \o QuitarAlternados(Tail(l))
  <2>1. Juntar = LET antes == SubSeq(lista_huecos, 1, Parada - 1)
                     resto == SubSeq(lista_huecos, Parada, Len(lista_huecos))
                                 \o Libres(antes)
                 IN  Ocupados(antes)
                        \o <<[Head(resto) EXCEPT !.tamanio = Suma(Libres(antes))]>>
                        \o QuitarAlternados(Tail(resto))
    BY Zenon DEF Juntar
  <2> QED
    BY <1>4, <1>5, <2>1
<1>7. Len(l) <= 2
  OBVIOUS
<1> HIDE DEF l, o
<1>8. QuitarAlternados(Tail(l)) = <<>>
  <2> DEFINE t == Tail(l)
  <2>1. t \in Seq(Huecos) /\ Len(t) \in Nat /\ Len(t) <= 1
    BY <1>3, <1>7
  <2> HIDE DEF t
  <2>2. Len(t) \div 2 = 0
    BY <2>1
  <2> DEFINE q == QuitarAlternados(t)
  <2>3. q = [j \in 1 .. 0 |-> t[2 * j]]
    BY <2>2 DEF QuitarAlternados
  <2>4. q \in [1 .. 0 -> Huecos]
    BY <2>3
  <2> HIDE DEF q
  <2>5. q \in Seq(Huecos) /\ Len(q) = 0
    BY <2>4
  <2>6. q = <<>>
    BY <2>5, EmptySeq
  <2> QED
    BY <2>6 DEF q, t
<1>9. h \in Huecos /\ h.libre /\ h.tamanio = Suma(l)
  <2>1. Head(l) = l[1] /\ 1 \in 1 .. Len(l)
    BY <1>3
  <2>2. \E i \in 1 .. Len(hs) : l[1] = hs[i] /\ hs[i].libre = TRUE
    <3>1. hs \in Seq(Huecos)
      BY <1>1
    <3> HIDE DEF hs
    <3>2. Filtrado(hs, l, TRUE)
      BY <3>1, FiltradoEs, Zenon DEF l
    <3>3. \A j \in 1 .. Len(l) :
             \E i \in 1 .. Len(hs) : l[j] = hs[i] /\ hs[i].libre = TRUE
      BY <3>2, Zenon DEF Filtrado
    <3> QED
      BY <2>1, <3>3, Zenon
  <2>3. Head(l) \in Huecos /\ Head(l).libre = TRUE /\ Suma(l) \in Nat
    BY <1>3, <2>1, <2>2, SumaTipo
  <2> DEFINE x == Head(l)
             n == Suma(l)
  <2>4. x \in Huecos /\ x.libre = TRUE /\ n \in Nat
    BY <2>3
  <2> HIDE DEF x, n
  <2>5. [x EXCEPT !.tamanio = n] = Hueco(x.base, n, x.libre)
    BY <2>4, SMTT(30) DEF Hueco, Huecos
  <2>6. x.base \in Nat /\ x.libre \in BOOLEAN
    BY <2>4, HuecoTipo
  <2>7. Hueco(x.base, n, x.libre) \in Huecos
    BY <2>4, <2>6, HuecoTipo
  <2>8. /\ Hueco(x.base, n, x.libre).libre = x.libre
        /\ Hueco(x.base, n, x.libre).tamanio = n
    BY DEF Hueco
  <2> QED
    BY <2>4, <2>5, <2>7, <2>8 DEF x, n
<1> HIDE DEF h
<1>10. Juntar = o \o <<h>>
  <2> DEFINE u == o \o <<h>>
  <2>1. u \in Seq(Huecos)
    BY <1>3, <1>9
  <2>2. Juntar = u \o <<>>
    BY <1>6, <1>8
  <2> HIDE DEF u
  <2> QED
    BY <2>1, <2>2 DEF u
<1>11. /\ o \o <<h>> \in Seq(Huecos) /\ Len(o \o <<h>>) = Len(o) + 1
       /\ \A j \in 1 .. Len(o) : (o \o <<h>>)[j] = o[j]
       /\ (o \o <<h>>)[Len(o) + 1] = h
  BY <1>3, <1>9
<1> QED
  BY <1>9, <1>10, <1>11, Zenon DEF Juntado, o, l

\* The bases of a list with the last hole free, and the others occupied: each
\* begins where the previous one ends.
LEMMA BasesSeguidas ==
    ASSUME NEW js \in Seq(Huecos), NEW m \in Nat, m >= 1, Len(js) = m + 1,
           js[1].base = 0, \A j \in 1 .. m : ~js[j].libre, js[m + 1].libre
    PROVE  /\ BasesNuevas(js) \in [1 .. (m + 1) -> Nat]
           /\ BasesNuevas(js)[1] = 0
           /\ \A j \in 1 .. m :
                 BasesNuevas(js)[j + 1] = BasesNuevas(js)[j] + js[j].tamanio
<1> DEFINE b == BasesNuevas(js)
<1>1. js # <<>> /\ DOMAIN js = 1 .. (m + 1)
  OBVIOUS
<1>2. PICK c : /\ c \in [0 .. Len(js) -> Nat]
               /\ c[1] = js[1].base
               /\ \A i \in 2 .. Len(js) :
                     /\ c[i] = IF js[i].libre THEN c[i - 1]
                               ELSE c[i - 1] + js[i - 1].tamanio
                     /\ b[i] = c[i - 1] + js[i - 1].tamanio
               /\ b[1] = js[1].base
               /\ b \in [DOMAIN js -> Nat]
  BY <1>1, BasesNuevasDefinida
<1> HIDE DEF b
<1>3. \A j \in 1 .. m : c[j] = b[j]
  <2> TAKE j \in 1 .. m
  <2>1. CASE j = 1
    BY <1>2, <2>1
  <2>2. CASE j # 1
    <3>1. j \in 2 .. Len(js) /\ ~js[j].libre
      BY <2>2
    <3> QED
      BY <1>2, <3>1
  <2> QED
    BY <2>1, <2>2
<1>4. ASSUME NEW j \in 1 .. m
      PROVE  b[j + 1] = b[j] + js[j].tamanio
  <2>1. j + 1 \in 2 .. Len(js) /\ (j + 1) - 1 = j
    OBVIOUS
  <2>2. b[j + 1] = c[j] + js[j].tamanio
    BY <1>2, <2>1
  <2> QED
    BY <1>3, <2>2
<1> QED
  BY <1>1, <1>2, <1>4 DEF b

\* In a table with the base of a hole once, what moves is its segment.
LEMMA MoverUno ==
    ASSUME NEW tabla \in Tablas, NEW vieja \in Nat, NEW nueva \in Nat,
           \A k, l \in Ids \ {0} :
              tabla[k].base = vieja /\ tabla[l].base = vieja => k = l
    PROVE  \A k \in Ids \ {0} :
              /\ MoverSegmento(tabla, vieja, nueva)[k].base
                    = IF tabla[k].base = vieja THEN nueva ELSE tabla[k].base
              /\ MoverSegmento(tabla, vieja, nueva)[k].size = tabla[k].size
<1> DEFINE ks == {k \in Ids \ {0} : tabla[k].base = vieja}
<1>1. MoverSegmento(tabla, vieja, nueva) =
         IF ks = {} THEN tabla ELSE [tabla EXCEPT ![Min(ks)].base = nueva]
  BY Zenon DEF MoverSegmento
<1>2. DOMAIN tabla = Ids /\ \A k \in Ids : tabla[k] \in [base : Nat \cup {NULL}, size : Nat]
  BY DEF Tablas
<1>3. ks \in SUBSET Nat
  BY SegmentosAssumption DEF Ids
<1>4. CASE ks = {}
  BY <1>1, <1>4
<1>5. CASE ks # {}
  <2> DEFINE x == Min(ks)
  <2>1. x \in ks
    BY <1>3, <1>5, MinNat
  <2>2. \A k \in ks : k = x
    BY <2>1
  <2>3. MoverSegmento(tabla, vieja, nueva) = [tabla EXCEPT ![x].base = nueva]
    BY <1>1, <1>5
  <2> HIDE DEF x
  <2>4. x \in Ids /\ x # 0
    BY <2>1
  <2> DEFINE t == [tabla EXCEPT ![x].base = nueva]
  <2>5. t[x].base = nueva /\ t[x].size = tabla[x].size
    BY <1>2, <2>4
  <2>6. \A k \in Ids : k # x => t[k] = tabla[k]
    BY <1>2
  <2> HIDE DEF t
  <2> SUFFICES ASSUME NEW k \in Ids \ {0}
               PROVE  /\ t[k].base = IF tabla[k].base = vieja THEN nueva
                                     ELSE tabla[k].base
                      /\ t[k].size = tabla[k].size
    BY <2>3 DEF t
  <2>7. CASE k = x
    BY <2>1, <2>5, <2>7
  <2>8. CASE k # x
    <3>1. k \notin ks /\ t[k] = tabla[k]
      BY <2>2, <2>6, <2>8
    <3> QED
      BY <3>1
  <2> QED
    BY <2>7, <2>8
<1> QED
  BY <1>4, <1>5

\* A table whose segments with the bases of holes 2 to i of a list have the new
\* ones, and the others what they had.
Movida(t, tabla, js, b, i) ==
    \A k \in Ids \ {0} :
        /\ t[k].size = tabla[k].size
        /\ (\A j \in 2 .. i : tabla[k].base # js[j].base) =>
              t[k].base = tabla[k].base
        /\ \A j \in 2 .. i : tabla[k].base = js[j].base => t[k].base = b[j]

\* A table with no base twice has each segment moved once: a new base is never
\* the old one of a later hole.
LEMMA TablaMovida ==
    ASSUME NEW js \in Seq(Huecos), NEW m \in Nat, m >= 1, Len(js) = m + 1,
           js[1].base = 0, \A j \in 1 .. m : ~js[j].libre, js[m + 1].libre,
           \A j \in 1 .. m : \A i \in 1 .. m :
              i < j => js[i].base + js[i].tamanio <= js[j].base,
           \A j \in 1 .. m : js[j].tamanio > 0,
           NEW tabla \in Tablas,
           \A k, l \in Ids \ {0} :
              tabla[k].base # NULL /\ tabla[k].base = tabla[l].base => k = l
    PROVE  Movida(MoverSegmentos(tabla, js), tabla, js, BasesNuevas(js), m)
<1> DEFINE b == BasesNuevas(js)
<1>1. /\ b \in [1 .. (m + 1) -> Nat] /\ b[1] = 0
      /\ \A j \in 1 .. m : b[j + 1] = b[j] + js[j].tamanio
  BY BasesSeguidas
<1>2. PICK t : /\ t \in [0 .. Len(js) -> Tablas]
               /\ t[1] = tabla
               /\ \A i \in 2 .. Len(js) :
                     t[i] = IF js[i].libre THEN t[i - 1]
                            ELSE MoverSegmento(t[i - 1], js[i].base, b[i])
               /\ MoverSegmentos(tabla, js) = t[Len(js)]
  BY MoverSegmentosDefinida
<1> HIDE DEF b
<1>3. \A j \in 1 .. (m + 1) : js[j].base \in Nat /\ js[j].tamanio \in Nat /\ b[j] \in Nat
  BY <1>1, ListaTipo
<1>4. \A j \in 1 .. m : b[j] <= js[j].base
  <2> DEFINE S == {j \in 0 .. m : j > 0 => b[j] <= js[j].base}
  <2>1. 0 \in S
    OBVIOUS
  <2>2. ASSUME NEW j \in 0 .. (m - 1), j \in S
        PROVE  j + 1 \in S
    <3>1. CASE j = 0
      BY <1>1, <1>3, <3>1
    <3>2. CASE j # 0
      <4> DEFINE n == j + 1
      <4>1. j \in 1 .. m /\ n \in 1 .. m /\ j < n /\ j \in 1 .. (m + 1) /\ n \in 1 .. (m + 1)
        BY <3>2
      <4>2. b[n] = b[j] + js[j].tamanio /\ b[j] <= js[j].base
        BY <1>1, <2>2, <4>1
      <4> HIDE DEF n
      <4>3. js[j].base + js[j].tamanio <= js[n].base
        BY <4>1
      <4>4. /\ b[n] \in Nat /\ b[j] \in Nat /\ js[j].base \in Nat
            /\ js[j].tamanio \in Nat /\ js[n].base \in Nat
        BY <1>3, <4>1
      <4>5. b[n] <= js[n].base /\ n \in 0 .. m
        BY <4>1, <4>2, <4>3, <4>4
      <4> QED
        BY <4>5 DEF n
    <3> QED
      BY <3>1, <3>2
  <2> HIDE DEF S
  <2>3. 0 .. m \subseteq S
    BY <2>1, <2>2, Induccion
  <2>4. \A j \in 1 .. m : j \in S /\ j > 0
    BY <2>3
  <2> QED
    BY <2>4 DEF S
<1>5. ASSUME NEW j \in 1 .. m, NEW i \in 1 .. m, j < i
      PROVE  b[j] # js[i].base /\ js[j].base # js[i].base
  <2>1. b[j] <= js[j].base /\ js[j].base + js[j].tamanio <= js[i].base
        /\ js[j].tamanio > 0
    BY <1>4, <1>5
  <2>2. /\ j \in 1 .. (m + 1) /\ i \in 1 .. (m + 1)
    OBVIOUS
  <2>3. /\ b[j] \in Nat /\ js[j].base \in Nat
        /\ js[j].tamanio \in Nat /\ js[i].base \in Nat
    BY <1>3, <2>2
  <2> QED
    BY <2>1, <2>3
<1> DEFINE S == {i \in 0 .. m : i > 0 => Movida(t[i], tabla, js, b, i)}
<1>6. 0 \in S
  OBVIOUS
<1>7. ASSUME NEW i \in 0 .. (m - 1), i \in S
      PROVE  i + 1 \in S
  <2>1. CASE i = 0
    <3>1. 2 .. 1 = {}
      OBVIOUS
    <3>2. Movida(t[1], tabla, js, b, 1)
      BY <1>2, <3>1 DEF Movida
    <3> QED
      BY <2>1, <3>2
  <2>2. CASE i # 0
    <3> DEFINE n == i + 1
               vieja == js[n].base
               x == t[i]
               y == t[n]
    <3>1. /\ n \in 2 .. Len(js) /\ n \in 1 .. m /\ i \in 1 .. m /\ n - 1 = i
          /\ n \in 1 .. (m + 1) /\ n \in 0 .. m /\ i \in 0 .. Len(js)
          /\ \A j \in 2 .. n : j = n \/ j \in 2 .. i
          /\ \A j \in 2 .. i : j \in 2 .. n /\ j \in 1 .. m /\ j < n
      BY <2>2
    <3> HIDE DEF n
    <3>2. Movida(x, tabla, js, b, i) /\ x \in Tablas
      BY <1>2, <1>7, <3>1
    <3>3. y = MoverSegmento(x, vieja, b[n])
      BY <1>2, <3>1
    <3>4. vieja \in Nat /\ b[n] \in Nat /\ vieja # NULL
      BY <1>3, <3>1 DEF NULL
    <3>5. \A j \in 2 .. i : b[j] # vieja /\ js[j].base # vieja
      BY <1>5, <3>1
    <3> HIDE DEF vieja, x, y
    <3>6. ASSUME NEW k \in Ids \ {0}
          PROVE  x[k].base = vieja <=> tabla[k].base = vieja
      <4>1. CASE \E j \in 2 .. i : tabla[k].base = js[j].base
        <5>1. PICK j \in 2 .. i : tabla[k].base = js[j].base
          BY <4>1
        <5>2. x[k].base = b[j]
          BY <3>2, <5>1 DEF Movida
        <5> QED
          BY <3>5, <5>1, <5>2
      <4>2. CASE \A j \in 2 .. i : tabla[k].base # js[j].base
        BY <3>2, <4>2 DEF Movida
      <4> QED
        BY <4>1, <4>2
    <3>7. \A k, l \in Ids \ {0} : x[k].base = vieja /\ x[l].base = vieja => k = l
      BY <3>4, <3>6
    <3>8. \A k \in Ids \ {0} :
             /\ y[k].base = IF x[k].base = vieja THEN b[n] ELSE x[k].base
             /\ y[k].size = x[k].size
      BY <3>2, <3>3, <3>4, <3>7, MoverUno
    <3>9. ASSUME NEW k \in Ids \ {0}
          PROVE  /\ y[k].size = tabla[k].size
                 /\ (\A j \in 2 .. n : tabla[k].base # js[j].base) =>
                       y[k].base = tabla[k].base
                 /\ \A j \in 2 .. n : tabla[k].base = js[j].base => y[k].base = b[j]
      <4>1. y[k].size = tabla[k].size
        BY <3>2, <3>8 DEF Movida
      <4>2. ASSUME \A j \in 2 .. n : tabla[k].base # js[j].base
            PROVE  y[k].base = tabla[k].base
        <5>1. tabla[k].base # vieja
          BY <3>1, <4>2 DEF vieja
        <5>2. \A j \in 2 .. i : tabla[k].base # js[j].base
          BY <3>1, <4>2
        <5>3. x[k].base = tabla[k].base
          BY <3>2, <5>2 DEF Movida
        <5> QED
          BY <3>8, <5>1, <5>3
      <4>3. ASSUME NEW j \in 2 .. n, tabla[k].base = js[j].base
            PROVE  y[k].base = b[j]
        <5>1. CASE j = n
          BY <3>6, <3>8, <4>3, <5>1 DEF vieja
        <5>2. CASE j \in 2 .. i
          <6>1. x[k].base = b[j]
            BY <3>2, <4>3, <5>2 DEF Movida
          <6> QED
            BY <3>5, <3>8, <5>2, <6>1
        <5> QED
          BY <3>1, <5>1, <5>2
      <4> QED
        BY <4>1, <4>2, <4>3
    <3>10. Movida(y, tabla, js, b, n)
      BY <3>9 DEF Movida
    <3> QED
      BY <3>1, <3>10 DEF n, y
  <2> QED
    BY <2>1, <2>2
<1> HIDE DEF S
<1>8. 0 .. m \subseteq S
  BY <1>6, <1>7, Induccion
<1>9. m \in S /\ m > 0
  BY <1>8
<1>10. Movida(t[m], tabla, js, b, m)
  BY <1>9 DEF S
<1>11. MoverSegmentos(tabla, js) = t[m]
  <2>1. m + 1 \in 2 .. Len(js) /\ (m + 1) - 1 = m
    OBVIOUS
  <2> QED
    BY <1>2, <2>1
<1> QED
  BY <1>10, <1>11 DEF b

\* The occupied holes of a list that is divided, and one after them.
LEMMA JuntadoValores ==
    ASSUME NEW hs, Dividida(hs), NEW js, Juntado(hs, js)
    PROVE  \E m \in Nat :
              /\ m >= 1 /\ js \in Seq(Huecos) /\ Len(js) = m + 1
              /\ js[1].base = 0
              /\ \A j \in 1 .. m : ~js[j].libre /\ js[j].tamanio > 0
              /\ js[m + 1].libre
              /\ \A j \in 1 .. m : \A i \in 1 .. m :
                    i < j => js[i].base + js[i].tamanio <= js[j].base
              /\ \A i \in 2 .. Len(hs) : ~hs[i].libre =>
                    \E j \in 2 .. m : js[j] = hs[i]
              /\ m = Len(Ocupados(hs))
<1> DEFINE o == Ocupados(hs)
           m == Len(o)
<1>1. /\ EnFila(hs) /\ LlenosOcupados(hs) /\ hs \in Seq(Huecos) /\ hs # <<>>
      /\ Len(hs) \in Nat /\ 1 \in 1 .. Len(hs)
      /\ \A i \in 1 .. Len(hs) : hs[i].base \in Nat /\ hs[i].tamanio \in Nat
                                 /\ hs[i].libre \in BOOLEAN
  BY FilaTipo DEF Dividida
<1>2. Filtrado(hs, o, FALSE)
  BY <1>1, FiltradoEs
<1> HIDE DEF o
<1>3. /\ o \in Seq(Huecos)
      /\ \A j \in 1 .. m : \E i \in 1 .. Len(hs) : o[j] = hs[i] /\ hs[i].libre = FALSE
      /\ \A i \in 1 .. Len(hs) : hs[i].libre = FALSE => \E j \in 1 .. m : o[j] = hs[i]
      /\ \A k \in 1 .. m : \A j \in 1 .. m : j < k =>
            \E a, b \in 1 .. Len(hs) : a < b /\ o[j] = hs[a] /\ o[k] = hs[b]
  BY <1>2 DEF Filtrado
<1>4. hs[1].base = 0 /\ hs[1].libre = FALSE /\ hs[1].tamanio > 0
  BY <1>1 DEF EnFila, LlenosOcupados
<1>5. o # <<>> /\ o[1] = hs[1]
  BY <1>1, <1>2, <1>4 DEF Filtrado
<1>6. m \in Nat /\ m >= 1
  BY <1>3, <1>5
<1>7. /\ js \in Seq(Huecos) /\ Len(js) = m + 1 /\ js[m + 1].libre
      /\ \A j \in 1 .. m : js[j] = o[j]
  BY DEF Juntado, o
<1> HIDE DEF m
<1>8. js[1].base = 0
  BY <1>4, <1>5, <1>6, <1>7
<1>9. \A j \in 1 .. m : ~js[j].libre /\ js[j].tamanio > 0
  <2> TAKE j \in 1 .. m
  <2>1. PICK i \in 1 .. Len(hs) : o[j] = hs[i] /\ hs[i].libre = FALSE
    BY <1>3
  <2>2. hs[i].tamanio > 0
    BY <1>1, <2>1 DEF LlenosOcupados
  <2>3. js[j] = hs[i]
    BY <1>7, <2>1
  <2> QED
    BY <2>1, <2>2, <2>3
<1>10. \A j \in 1 .. Len(hs) : \A i \in 1 .. Len(hs) :
          i < j => hs[i].base + hs[i].tamanio <= hs[j].base
  BY <1>1, FilaOrden
<1>11. \A j \in 1 .. m : \A i \in 1 .. m :
          i < j => js[i].base + js[i].tamanio <= js[j].base
  <2> TAKE j \in 1 .. m
  <2> TAKE i \in 1 .. m
  <2> HAVE i < j
  <2>1. PICK a, b \in 1 .. Len(hs) : a < b /\ o[i] = hs[a] /\ o[j] = hs[b]
    BY <1>3
  <2> QED
    BY <1>7, <1>10, <2>1
<1>12. ASSUME NEW i \in 2 .. Len(hs), ~hs[i].libre
       PROVE  \E j \in 2 .. m : js[j] = hs[i]
  <2>1. i \in 1 .. Len(hs) /\ 1 < i /\ hs[i].libre = FALSE
    BY <1>1, <1>12
  <2>2. PICK j \in 1 .. m : o[j] = hs[i]
    BY <1>3, <2>1
  <2>3. hs[1].base + hs[1].tamanio <= hs[i].base
    BY <1>1, <1>10, <2>1
  <2>4. hs[i].base # 0
    BY <1>1, <1>4, <2>1, <2>3
  <2>5. j # 1
    BY <1>4, <1>5, <2>2, <2>4
  <2>6. j \in 2 .. m
    BY <2>5
  <2> QED
    BY <1>7, <2>2, <2>6
<1> QED
  BY <1>6, <1>7, <1>8, <1>9, <1>11, <1>12 DEF m, o

\* The list that a clean compaction leaves.
LEMMA ListaCompactada ==
    ASSUME NEW hs, Dividida(hs), NEW js, Juntado(hs, js),
           NEW gs, gs = [i \in DOMAIN js |->
                           [js[i] EXCEPT !.base = BasesNuevas(js)[i]]]
    PROVE  Dividida(gs)
<1>1. PICK m \in Nat :
         /\ m >= 1 /\ js \in Seq(Huecos) /\ Len(js) = m + 1
         /\ js[1].base = 0
         /\ \A j \in 1 .. m : ~js[j].libre /\ js[j].tamanio > 0
         /\ js[m + 1].libre
         /\ \A j \in 1 .. m : \A i \in 1 .. m :
               i < j => js[i].base + js[i].tamanio <= js[j].base
         /\ m = Len(Ocupados(hs))
  BY JuntadoValores
<1> DEFINE b == BasesNuevas(js)
<1>2. /\ b \in [1 .. (m + 1) -> Nat] /\ b[1] = 0
      /\ \A j \in 1 .. m : b[j + 1] = b[j] + js[j].tamanio
  BY <1>1, BasesSeguidas
<1>3. js # <<>>
  BY <1>1
<1>4. /\ gs \in Seq(Huecos) /\ gs # <<>> /\ Len(gs) = m + 1
      /\ \A i \in 1 .. (m + 1) :
            gs[i].base = b[i] /\ gs[i].tamanio = js[i].tamanio
            /\ gs[i].libre = js[i].libre
  <2> DEFINE g == [i \in DOMAIN js |-> [js[i] EXCEPT !.base = BasesNuevas(js)[i]]]
  <2>1. /\ g \in Seq(Huecos) /\ g # <<>> /\ Len(g) = Len(js)
        /\ \A i \in 1 .. Len(js) :
              /\ g[i].base = BasesNuevas(js)[i]
              /\ g[i].tamanio = js[i].tamanio /\ g[i].libre = js[i].libre
    BY <1>1, <1>3, ListaMovida, Zenon
  <2>2. gs = g
    OBVIOUS
  <2> HIDE DEF g, b
  <2> QED
    BY <1>1, <2>1, <2>2, Zenon DEF b
<1> HIDE DEF b
<1>5. hs \in Seq(Huecos) /\ EnFila(hs)
  BY DEF Dividida, EnFila
<1> DEFINE o == Ocupados(hs)
<1>6. o \in Seq(Huecos) /\ Len(o) = m /\ Libres(hs) \in Seq(Huecos)
  BY <1>1, <1>5, FiltrarTipo DEF Ocupados, Libres
<1>7. /\ \A j \in 1 .. m : js[j] = o[j]
      /\ js[m + 1].tamanio = Suma(Libres(hs))
  BY <1>1 DEF Juntado
<1>8. Suma(o) + Suma(Libres(hs)) = TAM_MEMORIA
  BY <1>5, SumaPartes, SumaFila
<1> HIDE DEF o
<1>9. PICK s : /\ s \in [0 .. m -> Nat] /\ s[0] = 0
               /\ \A i \in 1 .. m : s[i] = s[i - 1] + o[i].tamanio
               /\ Suma(o) = s[m]
  BY <1>6, SumaDefinida
<1>10. s[m] = b[m + 1]
  <2> DEFINE S == {i \in 0 .. m : s[i] = b[i + 1]}
  <2>1. 0 \in S
    BY <1>2, <1>9
  <2>2. ASSUME NEW i \in 0 .. (m - 1), i \in S
        PROVE  i + 1 \in S
    <3> DEFINE n == i + 1
    <3>1. n \in 1 .. m /\ n - 1 = i /\ n \in 0 .. m
      OBVIOUS
    <3>2. s[n] = s[i] + o[n].tamanio /\ b[n + 1] = b[n] + js[n].tamanio
      BY <1>2, <1>9, <3>1
    <3>3. s[i] = b[n] /\ js[n] = o[n]
      BY <1>7, <2>2, <3>1
    <3>4. s[n] = b[n + 1]
      BY <3>2, <3>3
    <3> QED
      BY <3>1, <3>4
  <2> HIDE DEF S
  <2>3. 0 .. m \subseteq S
    BY <2>1, <2>2, Induccion
  <2>4. m \in S
    BY <2>3
  <2> QED
    BY <2>4 DEF S
<1>11. EnFila(gs)
  <2>1. 1 \in 1 .. (m + 1) /\ 1 \in 1 .. m /\ m + 1 \in 1 .. (m + 1)
    BY <1>1
  <2>2. gs[1].base = 0 /\ ~gs[1].libre
    BY <1>1, <1>2, <1>4, <2>1
  <2>3. gs[m + 1].base + gs[m + 1].tamanio = TAM_MEMORIA
    BY <1>4, <1>7, <1>8, <1>9, <1>10, <2>1
  <2>4. \A i \in 1 .. m : gs[i + 1].base = gs[i].base + gs[i].tamanio
    <3> TAKE i \in 1 .. m
    <3>1. i \in 1 .. (m + 1) /\ i + 1 \in 1 .. (m + 1)
      OBVIOUS
    <3> QED
      BY <1>2, <1>4, <3>1
  <2>5. Len(gs) - 1 = m
    BY <1>4
  <2> QED
    BY <1>4, <2>2, <2>3, <2>4, <2>5 DEF EnFila
<1>12. LlenosOcupados(gs)
  <2> SUFFICES ASSUME NEW i \in 1 .. (m + 1), ~gs[i].libre
               PROVE  gs[i].tamanio > 0
    BY <1>4 DEF LlenosOcupados
  <2>1. i # m + 1
    BY <1>1, <1>4
  <2>2. i \in 1 .. m
    BY <2>1
  <2> QED
    BY <1>1, <1>4, <2>2
<1>13. Pares(gs) = {}
  <2> SUFFICES ASSUME NEW i \in 1 .. m, gs[i].libre
               PROVE  FALSE
    <3>1. Len(gs) - 1 = m
      BY <1>4
    <3> QED
      BY <3>1 DEF Pares
  <2>1. i \in 1 .. (m + 1)
    OBVIOUS
  <2> QED
    BY <1>1, <1>4, <2>1
<1> QED
  BY <1>11, <1>12, <1>13 DEF Dividida

\* The tables that a clean compaction leaves.
LEMMA SuyosCompactados ==
    ASSUME NEW hs, Dividida(hs), NEW js, Juntado(hs, js),
           NEW gs, gs = [i \in DOMAIN js |->
                           [js[i] EXCEPT !.base = BasesNuevas(js)[i]]],
           NEW T, Suyos(hs, T), \A q \in DOMAIN T : T[q] \in Tablas,
           NEW U, U = [q \in DOMAIN T |-> MoverSegmentos(T[q], js)]
    PROVE  Suyos(gs, U)
<1>1. PICK m \in Nat :
         /\ m >= 1 /\ js \in Seq(Huecos) /\ Len(js) = m + 1
         /\ js[1].base = 0
         /\ \A j \in 1 .. m : ~js[j].libre /\ js[j].tamanio > 0
         /\ js[m + 1].libre
         /\ \A j \in 1 .. m : \A i \in 1 .. m :
               i < j => js[i].base + js[i].tamanio <= js[j].base
         /\ \A i \in 2 .. Len(hs) : ~hs[i].libre => \E j \in 2 .. m : js[j] = hs[i]
         /\ m = Len(Ocupados(hs))
  BY JuntadoValores
<1> DEFINE b == BasesNuevas(js)
<1>2. Dividida(gs)
  BY ListaCompactada
<1>3. js # <<>>
  BY <1>1
<1>4. /\ Len(gs) = m + 1
      /\ \A i \in 1 .. (m + 1) :
            gs[i].base = b[i] /\ gs[i].tamanio = js[i].tamanio
            /\ gs[i].libre = js[i].libre
  <2> DEFINE g == [i \in DOMAIN js |-> [js[i] EXCEPT !.base = BasesNuevas(js)[i]]]
  <2>1. /\ g \in Seq(Huecos) /\ g # <<>> /\ Len(g) = Len(js)
        /\ \A i \in 1 .. Len(js) :
              /\ g[i].base = BasesNuevas(js)[i]
              /\ g[i].tamanio = js[i].tamanio /\ g[i].libre = js[i].libre
    BY <1>1, <1>3, ListaMovida, Zenon
  <2>2. gs = g
    OBVIOUS
  <2> HIDE DEF g, b
  <2> QED
    BY <1>1, <2>1, <2>2, Zenon DEF b
<1>5. \A j \in 1 .. m : js[j].base \in Nat /\ js[j].base # NULL
  BY <1>1, ListaTipo DEF NULL
<1>6. ASSUME NEW q \in DOMAIN T
      PROVE  Movida(U[q], T[q], js, b, m)
  <2> DEFINE tabla == T[q]
  <2>1. tabla \in Tablas
    OBVIOUS
  <2>2. ASSUME NEW k \in Ids \ {0}, NEW l \in Ids \ {0},
               tabla[k].base # NULL, tabla[k].base = tabla[l].base
        PROVE  k = l
    <3>1. <<q, k>> \in De(T) /\ <<q, l>> \in De(T)
      BY <2>2 DEF De
    <3>2. <<q, k>> # <<q, l>> => T[q][k].base # T[q][l].base
      BY <3>1 DEF Suyos
    <3> QED
      BY <2>2, <3>2
  <2> HIDE DEF tabla, b
  <2>3. Movida(MoverSegmentos(tabla, js), tabla, js, BasesNuevas(js), m)
    BY <1>1, <2>1, <2>2, TablaMovida
  <2>4. U[q] = MoverSegmentos(tabla, js)
    BY DEF tabla
  <2> QED
    BY <2>3, <2>4 DEF tabla, b
<1> HIDE DEF b
<1>7. ASSUME NEW s \in De(U)
      PROVE  /\ s \in De(T)
             /\ \E j \in 2 .. m : /\ js[j].base = T[s[1]][s[2]].base
                                  /\ Suyo(gs, U[s[1]][s[2]], j)
  <2> DEFINE x == T[s[1]][s[2]]
             y == U[s[1]][s[2]]
  <2>1. s \in (DOMAIN T) \X (Ids \ {0}) /\ s[1] \in DOMAIN T /\ s[2] \in Ids \ {0}
        /\ y.base # NULL
    BY DEF De
  <2>2. /\ y.size = x.size
        /\ (\A j \in 2 .. m : x.base # js[j].base) => y.base = x.base
        /\ \A j \in 2 .. m : x.base = js[j].base => y.base = b[j]
    BY <1>6, <2>1 DEF Movida
  <2>3. x.base # NULL
    <3>1. \A j \in 2 .. m : js[j].base # NULL
      BY <1>5
    <3> QED
      BY <2>1, <2>2, <3>1
  <2>4. s \in De(T)
    BY <2>1, <2>3 DEF De
  <2>5. PICK i \in 2 .. Len(hs) : Suyo(hs, x, i)
    BY <2>4 DEF Suyos
  <2>6. PICK j \in 2 .. m : js[j] = hs[i]
    BY <1>1, <2>5 DEF Suyo
  <2>7. js[j].base = x.base /\ js[j].tamanio = x.size
    BY <2>5, <2>6 DEF Suyo
  <2>8. y.base = b[j]
    BY <2>2, <2>7
  <2>9. j \in 1 .. (m + 1) /\ j \in 1 .. m
    OBVIOUS
  <2>10. ~gs[j].libre /\ gs[j].base = y.base /\ gs[j].tamanio = y.size
    BY <1>1, <1>4, <2>2, <2>7, <2>8, <2>9
  <2> QED
    BY <2>4, <2>7, <2>10 DEF Suyo
<1>8. ASSUME NEW s \in De(U), NEW t \in De(U), s # t
      PROVE  U[s[1]][s[2]].base # U[t[1]][t[2]].base
  <2>1. PICK i \in 2 .. m : /\ js[i].base = T[s[1]][s[2]].base
                            /\ Suyo(gs, U[s[1]][s[2]], i)
    BY <1>7
  <2>2. PICK j \in 2 .. m : /\ js[j].base = T[t[1]][t[2]].base
                            /\ Suyo(gs, U[t[1]][t[2]], j)
    BY <1>7
  <2>3. i # j
    BY <1>7, <1>8, <2>1, <2>2 DEF Suyos
  <2>4. /\ i \in 1 .. Len(gs) /\ j \in 1 .. Len(gs)
        /\ ~gs[i].libre /\ ~gs[j].libre /\ (i < j \/ j < i)
    BY <1>4, <2>1, <2>2, <2>3 DEF Suyo
  <2>5. i < j => gs[i].base # gs[j].base
    BY <1>2, <2>4, FilaBases, ZenonT(40)
  <2>6. j < i => gs[j].base # gs[i].base
    BY <1>2, <2>4, FilaBases, ZenonT(40)
  <2> QED
    BY <2>1, <2>2, <2>4, <2>5, <2>6 DEF Suyo
<1>9. \A s \in De(U) : \E j \in 2 .. Len(gs) : Suyo(gs, U[s[1]][s[2]], j)
  <2> TAKE s \in De(U)
  <2>1. PICK j \in 2 .. m : Suyo(gs, U[s[1]][s[2]], j)
    BY <1>7
  <2>2. j \in 2 .. Len(gs)
    BY <1>4
  <2> QED
    BY <2>1, <2>2
<1> QED
  BY <1>8, <1>9 DEF Suyos

LEMMA CompactarParticion ==
    ASSUME MemoriaTypeOK, Particion, SinRepetir, PrimerLibre # 0,
           Len(Libres(lista_huecos)) <= 2,
           Compactar, UNCHANGED ALGORITMO_ASIGNACION
    PROVE  Particion'
<1> DEFINE hs == lista_huecos
           T == tabla_segmentos_global
           js == Juntar
<1>1. /\ hs \in Seq(Huecos) \ {<<>>}
      /\ \A q \in DOMAIN T : T[q] \in Tablas
  BY DEF MemoriaTypeOK
<1>2. Dividida(hs) /\ Suyos(hs, T)
  BY <1>1, ParticionEs
<1>3. Juntado(hs, js)
  BY <1>1, JuntarLimpia
<1>4. /\ lista_huecos' = [i \in DOMAIN js |->
                            [js[i] EXCEPT !.base = BasesNuevas(js)[i]]]
      /\ T' = [q \in DOMAIN T |-> MoverSegmentos(T[q], js)]
  BY DEF Compactar
<1> HIDE DEF js
<1>5. MemoriaTypeOK'
  BY CompactarTipo
<1>6. Dividida(lista_huecos')
  BY <1>2, <1>3, <1>4, ListaCompactada
<1>7. Suyos(lista_huecos', T')
  BY <1>1, <1>2, <1>3, <1>4, SuyosCompactados
<1> QED
  BY <1>5, <1>6, <1>7, ParticionSera DEF MemoriaTypeOK

-----------------------------------------------------------------------------
(* The steps keep the partition *)

\* A list or tables that do not change.
LEMMA ParticionQueda ==
    ASSUME MemoriaTypeOK, Particion,
           UNCHANGED <<lista_huecos, tabla_segmentos_global>>
    PROVE  Particion'
<1>1. /\ lista_huecos \in Seq(Huecos) \ {<<>>}
      /\ Dividida(lista_huecos) /\ Suyos(lista_huecos, tabla_segmentos_global)
  BY ParticionEs DEF MemoriaTypeOK
<1> QED
  BY <1>1, ParticionSera

\* The table of a new process has no segment but 0.
LEMMA CrearPcbParticion ==
    ASSUME Tipos, Particion, NEW p \in Pids, CrearPcb(p),
           UNCHANGED ALGORITMO_ASIGNACION
    PROVE  Particion'
<1> DEFINE T == tabla_segmentos_global
           U == tabla_segmentos_global'
<1>1. /\ lista_huecos \in Seq(Huecos) \ {<<>>}
      /\ Dividida(lista_huecos) /\ Suyos(lista_huecos, T)
  BY ParticionEs DEF Tipos, TypeOK, MemoriaTypeOK
<1>2. /\ DOMAIN U = {p} \cup DOMAIN T /\ U[p] = TablaInicial
      /\ \A q \in DOMAIN T : U[q] = T[q]
  BY CrearPcbTipo
<1>3. lista_huecos' = lista_huecos
  BY DEF CrearPcb, CrearTabla
<1>4. \A k \in Ids \ {0} : TablaInicial[k].base = NULL
  BY DEF TablaInicial
<1>5. ASSUME NEW s \in De(U)
      PROVE  s \in De(T) /\ U[s[1]][s[2]] = T[s[1]][s[2]]
  <2>1. /\ s \in (DOMAIN U) \X (Ids \ {0}) /\ s[1] \in DOMAIN U
        /\ s[2] \in Ids \ {0} /\ U[s[1]][s[2]].base # NULL
        /\ s = <<s[1], s[2]>>
    BY DEF De
  <2>2. U[s[1]] # TablaInicial
    BY <1>4, <2>1
  <2>3. s[1] \in DOMAIN T /\ U[s[1]] = T[s[1]]
    BY <1>2, <2>1, <2>2
  <2> QED
    BY <2>1, <2>3 DEF De
<1>6. Suyos(lista_huecos, U)
  BY <1>1, <1>5 DEF Suyos
<1> QED
  BY <1>1, <1>3, <1>6, ParticionSera

\* An answer that asks for a compaction means there are free holes.
LEMMA HayLibre ==
    ASSUME lista_huecos \in Seq(Huecos), NEW tamanio \in Nat \ {0},
           Respuesta(tamanio) = "COMPACTACION"
    PROVE  PrimerLibre # 0
<1>1. Suma(Libres(lista_huecos)) >= tamanio
  BY DEF Respuesta
<1>2. SUFFICES ASSUME PrimerLibre = 0
               PROVE  FALSE
  OBVIOUS
<1> DEFINE l == Libres(lista_huecos)
<1>3. \A j \in 1 .. Len(lista_huecos) : ~lista_huecos[j].libre
  BY <1>2, PrimerLibreValores
<1>4. Filtrado(lista_huecos, l, TRUE)
  BY FiltradoEs
<1> HIDE DEF l
<1>5. l \in Seq(Huecos) /\ \A j \in 1 .. Len(l) : FALSE
  BY <1>3, <1>4 DEF Filtrado
<1>6. l = <<>>
  <2>1. l # <<>> => 1 \in 1 .. Len(l)
    BY <1>5, ListaTipo
  <2> QED
    BY <1>5, <2>1
<1>7. Suma(l) = 0
  BY <1>6, SumaVacia
<1> QED
  BY <1>1, <1>7 DEF l

LEMMA PedirSegmentoParticion ==
    ASSUME Tipos, Particion, KernelAlDia, PedidoAlDia,
           NEW p \in Pids, NEW id \in Ids \ {0}, NEW tamanio \in Tamanios,
           PedirSegmento(p, id, tamanio), UNCHANGED ALGORITMO_ASIGNACION,
           Compactado(p, id, tamanio) => CompactaLimpio
    PROVE  Particion'
<1>1. /\ MemoriaTypeOK /\ lista_huecos \in Seq(Huecos)
      /\ tamanio \in Nat \ {0}
  BY Valores DEF Tipos, TypeOK, MemoriaTypeOK
<1>2. p \in DOMAIN tabla_segmentos_global
  BY PedirSegmentoLugar
<1>3. lista_segmentos[p] = tabla_segmentos_global[p]
  <2>1. \/ pedido = SinPedido /\ lugar[p] = "lista"
        \/ pedido = Pedido(p, id, tamanio)
    BY DEF PedirSegmento
  <2>2. Pedido(p, id, tamanio).pid = p /\ Pedido(p, id, tamanio) # SinPedido
    BY PedidoTipo
  <2> QED
    BY <2>1, <2>2 DEF KernelAlDia, PedidoAlDia
<1>4. CASE CrearSegmento(p, lista_segmentos[p], id, tamanio)
           /\ Respuesta(tamanio) = "AUX_OK"
  <2>1. CrearSegmento(p, tabla_segmentos_global[p], id, tamanio)
    BY <1>3, <1>4
  <2>2. Alcanzan(tamanio) # {}
    BY <1>4, RespuestaOK
  <2> QED
    BY <1>1, <1>2, <2>1, <2>2, CrearParticion
<1>5. CASE Compactado(p, id, tamanio)
  <2>1. Compactar /\ Respuesta(tamanio) = "COMPACTACION"
    BY <1>5 DEF Compactado
  <2>2. SinRepetir /\ Len(Libres(lista_huecos)) <= 2
    BY <1>5 DEF CompactaLimpio
  <2>3. PrimerLibre # 0
    BY <1>1, <2>1, HayLibre
  <2> QED
    BY <1>1, <2>1, <2>2, <2>3, CompactarParticion
<1>6. CASE UNCHANGED <<lista_huecos, tabla_segmentos_global>>
  BY <1>1, <1>6, ParticionQueda
<1> QED
  BY <1>4, <1>5, <1>6 DEF PedirSegmento, Creado, SinMemoria, Desfasado, memoria

LEMMA ParticionPaso ==
    ASSUME Tipos, Particion, KernelAlDia, PedidoAlDia, [Next]_vars,
           Compacta => CompactaLimpio
    PROVE  Particion'
<1>1. MemoriaTypeOK
  BY DEF Tipos, TypeOK
<1>2. CASE UNCHANGED vars
  BY <1>1, <1>2, ParticionQueda DEF vars, memoria
<1>3. CASE Next
  <2>1. PICK p \in Pids :
           \/ CrearPcb(p)
           \/ \E id \in Ids \ {0}, tamanio \in Tamanios :
                 PedirSegmento(p, id, tamanio)
           \/ \E id \in Ids \ {0} : BorrarSegmento(p, id)
           \/ Bloquear(p) \/ Despertar(p) \/ Terminar(p)
    BY <1>3 DEF Next
  <2>2. UNCHANGED ALGORITMO_ASIGNACION
    BY <1>3 DEF Next
  <2>3. CASE CrearPcb(p)
    BY <2>2, <2>3, CrearPcbParticion
  <2>4. ASSUME NEW id \in Ids \ {0}, NEW tamanio \in Tamanios,
               PedirSegmento(p, id, tamanio)
        PROVE  Particion'
    <3>1. Compactado(p, id, tamanio) => CompactaLimpio
      BY DEF Compacta
    <3> QED
      BY <2>2, <2>4, <3>1, PedirSegmentoParticion
  <2>5. ASSUME NEW id \in Ids \ {0}, BorrarSegmento(p, id)
        PROVE  Particion'
    <3>1. lugar[p] = "lista" /\ EliminarSegmento(p, lista_segmentos[p], id)
      BY <2>5 DEF BorrarSegmento
    <3>2. /\ lista_segmentos[p] = tabla_segmentos_global[p]
          /\ p \in DOMAIN tabla_segmentos_global
      BY <3>1 DEF KernelAlDia, Tipos, TypeOK
    <3>3. EliminarSegmento(p, tabla_segmentos_global[p], id)
      BY <3>1, <3>2
    <3> QED
      BY <1>1, <2>2, <3>2, <3>3, BorrarParticion
  <2>6. CASE Bloquear(p) \/ Despertar(p) \/ Terminar(p)
    BY <1>1, <2>2, <2>6, PlanificadorTipo, ParticionQueda
  <2> QED
    BY <2>1, <2>3, <2>4, <2>5, <2>6
<1> QED
  BY <1>2, <1>3

\* Memory that is divided among the segments stays so, for any processes, sizes
\* and algorithm: whatever is created, deleted and consolidated from tables that
\* are the kernel's and Memoria's, and when it is compacted with one or two free
\* holes and no base twice.
THEOREM ParticionEstableTeorema == Spec => ParticionEstable
<1>1. Tipos /\ [Next]_vars =>
         [/\ Particion /\ KernelAlDia /\ PedidoAlDia
          /\ Compacta => CompactaLimpio
          => Particion']_vars
  <2> SUFFICES ASSUME Tipos, [Next]_vars, Particion, KernelAlDia, PedidoAlDia,
                      Compacta => CompactaLimpio
               PROVE  Particion'
    OBVIOUS
  <2> QED
    BY ParticionPaso
<1> QED
  BY <1>1, TiposInit, TiposStep, PTL DEF Spec, ParticionEstable

-----------------------------------------------------------------------------
(* Without compactions *)

\* What the partition says of the memory.
LEMMA ParticionCubre ==
    ASSUME lista_huecos \in Seq(Huecos) \ {<<>>}, Particion
    PROVE  Cubren /\ ConHueco /\ SegmentosSeparados
<1> DEFINE hs == lista_huecos
           n == Len(hs)
<1>1. /\ n \in Nat /\ n >= 1 /\ DOMAIN hs = 1 .. n
      /\ \A i \in 1 .. n : hs[i].base \in Nat /\ hs[i].tamanio \in Nat
                           /\ hs[i].libre \in BOOLEAN
  BY ListaTipo
<1>2. /\ hs[1].base = 0 /\ ~hs[1].libre
      /\ \A i \in 1 .. (n - 1) : hs[i + 1].base = hs[i].base + hs[i].tamanio
      /\ hs[n].base + hs[n].tamanio = TAM_MEMORIA
      /\ \A i \in 1 .. n : ~hs[i].libre => hs[i].tamanio > 0
      /\ \A i \in 1 .. (n - 1) : ~(hs[i].libre /\ hs[i + 1].libre)
      /\ CadaUnoElSuyo /\ SegmentosSeparados
  BY <1>1 DEF Particion, Contiguos, OcupadosLlenos, LibresSueltos, Llenos, Fin
<1>3. /\ Llenos = {i \in 1 .. n : hs[i].tamanio > 0}
      /\ \A i \in 1 .. n : i \notin Llenos => hs[i].tamanio = 0 /\ hs[i].libre
      /\ \A i : Fin(i) = hs[i].base + hs[i].tamanio
  BY <1>1, <1>2 DEF Llenos, Fin
<1> HIDE DEF n, hs
<1>4. \E i \in Llenos : hs[i].base = 0 /\ \A j \in Llenos : i <= j
  <2>1. 1 \in Llenos /\ \A j \in Llenos : 1 <= j
    BY <1>1, <1>2, <1>3
  <2> QED
    BY <1>2, <2>1
<1>5. \E i \in Llenos : Fin(i) = TAM_MEMORIA /\ \A j \in Llenos : j <= i
  <2>1. CASE n \in Llenos
    <3>1. \A j \in Llenos : j <= n
      BY <1>1, <1>3
    <3> QED
      BY <1>2, <1>3, <2>1, <3>1
  <2>2. CASE n \notin Llenos
    <3> DEFINE m == n - 1
    <3>1. hs[n].tamanio = 0 /\ hs[n].libre /\ n # 1
      BY <1>1, <1>2, <1>3, <2>2
    <3>2. m \in 1 .. (n - 1) /\ m \in 1 .. n /\ m + 1 = n /\ n \in 1 .. n
      BY <1>1, <3>1
    <3> HIDE DEF m
    <3>3. ~hs[m].libre /\ hs[n].base = hs[m].base + hs[m].tamanio
      BY <1>2, <3>1, <3>2
    <3>4. m \in Llenos
      BY <1>3, <3>2, <3>3
    <3>5. Fin(m) = TAM_MEMORIA
      BY <1>1, <1>2, <1>3, <3>1, <3>2, <3>3
    <3>6. \A j \in Llenos : j <= m
      <4> TAKE j \in Llenos
      <4>1. j \in 1 .. n /\ j # n
        BY <1>3, <2>2
      <4> QED
        BY <1>1, <3>2, <4>1
    <3> QED
      BY <3>4, <3>5, <3>6
  <2> QED
    BY <2>1, <2>2
<1>6. ASSUME NEW i \in Llenos, NEW j \in Llenos, i < j,
             \A k \in Llenos : k <= i \/ j <= k
      PROVE  hs[j].base = Fin(i)
  <2> DEFINE a == i + 1
             b == i + 2
  <2>1. i \in 1 .. n /\ j \in 1 .. n /\ i \in 1 .. (n - 1) /\ a \in 1 .. n
    BY <1>1, <1>3, <1>6
  <2>2. hs[a].base = Fin(i)
    BY <1>2, <1>3, <2>1
  <2>3. CASE j = a
    BY <2>2, <2>3
  <2>4. CASE j # a
    <3>1. /\ a < j /\ i < a /\ a \in 1 .. (n - 1) /\ b \in 1 .. n /\ a + 1 = b
          /\ b <= j /\ a \in Nat /\ b \in Nat /\ i \in Nat /\ j \in Nat
      BY <1>1, <1>6, <2>1, <2>4
    <3> HIDE DEF a
    <3>2. a \notin Llenos
      <4>1. ~(a <= i) /\ ~(j <= a)
        BY <3>1
      <4> QED
        BY <1>6, <4>1
    <3>3. hs[a].tamanio = 0 /\ hs[a].libre
      BY <1>3, <2>1, <3>2
    <3>4. hs[b].base = hs[a].base + hs[a].tamanio /\ ~hs[b].libre
      BY <1>2, <3>1, <3>3
    <3>5. b \in Llenos
      BY <1>3, <3>1, <3>4
    <3>6. b = j
      <4>1. b <= i \/ j <= b
        BY <1>6, <3>5
      <4> QED
        BY <3>1, <4>1
    <3>7. hs[a].base \in Nat
      BY <1>1, <2>1
    <3> QED
      BY <2>2, <3>3, <3>4, <3>6, <3>7
  <2> QED
    BY <2>3, <2>4
<1>7. Cubren
  BY <1>4, <1>5, <1>6 DEF Cubren, hs
<1>8. ConHueco
  <2> SUFFICES ASSUME NEW s \in Creados
               PROVE  \E h \in Range(hs) :
                         /\ ~h.libre
                         /\ h.base = Segmento(s).base
                         /\ h.tamanio = Segmento(s).size
    BY DEF ConHueco, hs
  <2>1. PICK i \in 2 .. n : EnSuHueco(s, i)
    BY <1>2 DEF CadaUnoElSuyo, hs, n
  <2>2. i \in DOMAIN hs
    BY <1>1
  <2>3. hs[i] \in Range(hs)
    BY <2>2 DEF Range
  <2> QED
    BY <2>1, <2>3 DEF EnSuHueco, hs
<1> QED
  BY <1>2, <1>7, <1>8

LEMMA ParticionInit == Init => Particion
<1> SUFFICES ASSUME Init
             PROVE  Particion
  OBVIOUS
<1> DEFINE hs == lista_huecos
<1>1. Tipos
  BY TiposInit
<1>2. /\ hs = <<Hueco(0, TAM_SEGMENTO_0, FALSE),
                Hueco(TAM_SEGMENTO_0, TAM_MEMORIA - TAM_SEGMENTO_0, TRUE)>>
      /\ tabla_segmentos_global = <<>>
  BY DEF Init, MemoriaInit
<1>3. /\ TAM_MEMORIA \in Nat /\ TAM_SEGMENTO_0 \in Nat \ {0}
      /\ TAM_SEGMENTO_0 < TAM_MEMORIA
  BY TamanioAssumption
<1>4. /\ Len(hs) = 2
      /\ hs[1].base = 0 /\ hs[1].tamanio = TAM_SEGMENTO_0 /\ ~hs[1].libre
      /\ hs[2].base = TAM_SEGMENTO_0 /\ hs[2].libre
      /\ hs[2].tamanio = TAM_MEMORIA - TAM_SEGMENTO_0
  BY <1>2 DEF Hueco
<1>5. hs \in Seq(Huecos) \ {<<>>}
  BY <1>1 DEF Tipos, TypeOK, MemoriaTypeOK
<1> HIDE DEF hs
<1>6. EnFila(hs)
  <2>1. \A i \in 1 .. (2 - 1) : i = 1
    OBVIOUS
  <2> QED
    BY <1>3, <1>4, <1>5, <2>1 DEF EnFila
<1>7. LlenosOcupados(hs)
  <2>1. \A i \in 1 .. 2 : i = 1 \/ i = 2
    OBVIOUS
  <2> QED
    BY <1>3, <1>4, <2>1 DEF LlenosOcupados
<1>8. Pares(hs) = {}
  <2>1. \A i \in 1 .. (2 - 1) : i = 1
    OBVIOUS
  <2> QED
    BY <1>4, <2>1 DEF Pares
<1>9. De(tabla_segmentos_global) = {}
  <2>1. DOMAIN tabla_segmentos_global = {}
    BY <1>2
  <2> QED
    BY <2>1 DEF De
<1>10. Suyos(hs, tabla_segmentos_global)
  BY <1>9 DEF Suyos
<1> QED
  BY <1>5, <1>6, <1>7, <1>8, <1>10, ParticionEs DEF Dividida, hs

\* While no handler has kept the mutex, no CREATE_SEGMENT has to run again and
\* the processes the planner has, blocked ones too, have Memoria's tables.
TablasAlDia ==
    ~mutex_memoria =>
        /\ pedido = SinPedido
        /\ \A p \in Pids : lugar[p] \in {"lista", "recurso"} =>
              lista_segmentos[p] = tabla_segmentos_global[p]

InvSinCompactar == Tipos /\ Particion /\ TablasAlDia

LEMMA TablasAlDiaInit == Init => TablasAlDia
  BY DEF Init, TablasAlDia

LEMMA PedirSegmentoAlDia ==
    ASSUME Tipos, TablasAlDia, NEW p \in Pids, NEW id \in Ids \ {0},
           NEW tamanio \in Tamanios, PedirSegmento(p, id, tamanio),
           UNCHANGED ALGORITMO_ASIGNACION, ~Compactado(p, id, tamanio)
    PROVE  TablasAlDia'
<1> DEFINE T == tabla_segmentos_global
<1>1. /\ MemoriaTypeOK /\ lista_segmentos \in [Pids -> Tablas]
      /\ DOMAIN T = {q \in Pids : lugar[q] # "fuera"}
      /\ tamanio \in Nat /\ id \in Ids
  BY Valores DEF Tipos, TypeOK
<1>2. /\ pedido = SinPedido /\ lugar[p] = "lista" /\ p \in DOMAIN T
      /\ lista_segmentos[p] = T[p]
      /\ \A q \in Pids : lugar[q] \in {"lista", "recurso"} =>
            lista_segmentos[q] = T[q]
  <2>1. ~mutex_memoria /\ Pedido(p, id, tamanio) # SinPedido
    BY PedidoTipo DEF PedirSegmento
  <2> QED
    BY <2>1, PedirSegmentoLugar DEF PedirSegmento, TablasAlDia
<1>3. CASE Creado(p, id, tamanio)
  <2>1. /\ CrearSegmento(p, lista_segmentos[p], id, tamanio)
        /\ Alcanzan(tamanio) # {} /\ Va(p, "lista") /\ pedido' = SinPedido
        /\ lista_segmentos' =
              [lista_segmentos EXCEPT
                  ![p][id] = [base |-> lista_huecos[Elegido(tamanio)].base,
                              size |-> tamanio]]
    BY <1>3, RespuestaOK DEF Creado
  <2> DEFINE tabla == lista_segmentos[p]
             nueva == [tabla EXCEPT ![id] =
                         [base |-> lista_huecos[Elegido(tamanio)].base,
                          size |-> tamanio]]
  <2>2. tabla \in Tablas
    BY <1>1
  <2>3. /\ lista_segmentos'[p] = nueva
        /\ \A q \in Pids : q # p => lista_segmentos'[q] = lista_segmentos[q]
    BY <1>1, <2>1
  <2>4. /\ T'[p] = nueva
        /\ \A q \in DOMAIN T : q # p => T'[q] = T[q]
    <3> HIDE DEF tabla
    <3>1. CrearSegmento(p, tabla, id, tamanio)
      BY <2>1 DEF tabla
    <3>2. SeCrea(p, tabla, id, tamanio)
      BY <1>1, <2>1, <2>2, <3>1, CrearSegmentoTipo
    <3>3. /\ p \in DOMAIN T => T'[p] = nueva
          /\ \A q \in DOMAIN T : q # p => T'[q] = T[q]
      BY <3>2, Zenon DEF SeCrea
    <3> QED
      BY <1>2, <3>3
  <2> HIDE DEF nueva
  <2>5. \A q \in Pids : q # p => lugar'[q] = lugar[q]
    BY <2>1, VaTipo DEF Tipos, Lugares
  <2>6. ASSUME NEW q \in Pids, lugar'[q] \in {"lista", "recurso"}
        PROVE  lista_segmentos'[q] = T'[q]
    <3>1. CASE q = p
      BY <2>3, <2>4, <3>1
    <3>2. CASE q # p
      <4>1. lugar[q] \in {"lista", "recurso"}
        BY <2>5, <2>6, <3>2
      <4>2. q \in DOMAIN T
        BY <1>1, <4>1
      <4> QED
        BY <1>2, <2>3, <2>4, <3>2, <4>1, <4>2
    <3> QED
      BY <3>1, <3>2
  <2> QED
    BY <2>1, <2>6 DEF TablasAlDia
<1>4. CASE SinMemoria(p, tamanio)
  <2>1. /\ Va(p, "fin") /\ pedido' = SinPedido
        /\ UNCHANGED <<lista_huecos, tabla_segmentos_global, lista_segmentos>>
    BY <1>4 DEF SinMemoria, memoria
  <2>2. lugar'[p] = "fin" /\ \A q \in Pids : q # p => lugar'[q] = lugar[q]
    BY <2>1, VaTipo DEF Tipos, Lugares
  <2> QED
    BY <1>2, <2>1, <2>2 DEF TablasAlDia
<1>5. CASE Desfasado(p, id, tamanio)
  BY <1>5 DEF Desfasado, TablasAlDia
<1> QED
  BY <1>3, <1>4, <1>5 DEF PedirSegmento

LEMMA BorrarSegmentoAlDia ==
    ASSUME Tipos, TablasAlDia, NEW p \in Pids, NEW id \in Ids \ {0},
           BorrarSegmento(p, id), UNCHANGED ALGORITMO_ASIGNACION
    PROVE  TablasAlDia'
<1> DEFINE T == tabla_segmentos_global
<1>1. /\ MemoriaTypeOK /\ lista_segmentos \in [Pids -> Tablas]
      /\ DOMAIN T = {q \in Pids : lugar[q] # "fuera"}
  BY DEF Tipos, TypeOK
<1>2. /\ ~mutex_memoria /\ lugar[p] = "lista" /\ pedido = SinPedido
      /\ EliminarSegmento(p, lista_segmentos[p], id)
      /\ UNCHANGED <<lugar, pedido, sobra>>
      /\ \/ mutex_memoria' = TRUE
         \/ lista_segmentos' = [lista_segmentos EXCEPT ![p] = T'[p]]
  BY DEF BorrarSegmento
<1>3. CASE mutex_memoria' = TRUE
  BY <1>3 DEF TablasAlDia
<1>4. CASE lista_segmentos' = [lista_segmentos EXCEPT ![p] = T'[p]]
  <2> DEFINE tabla == lista_segmentos[p]
  <2>1. tabla \in Tablas /\ EliminarSegmento(p, tabla, id)
    BY <1>1, <1>2
  <2> HIDE DEF tabla
  <2>2. SeBorra(p, tabla, id)
    BY <1>1, <2>1, EliminarSegmentoTipo
  <2>3. \A q \in DOMAIN T : q # p => T'[q] = T[q]
    BY <2>2, Zenon DEF SeBorra
  <2>4. ASSUME NEW q \in Pids, lugar'[q] \in {"lista", "recurso"}
        PROVE  lista_segmentos'[q] = T'[q]
    <3>1. lugar[q] \in {"lista", "recurso"} /\ q \in DOMAIN T
      BY <1>1, <1>2, <2>4
    <3>2. lista_segmentos[q] = T[q]
      BY <1>2, <3>1 DEF TablasAlDia
    <3> QED
      BY <1>1, <1>4, <2>3, <3>1, <3>2
  <2> QED
    BY <1>2, <2>4 DEF TablasAlDia
<1> QED
  BY <1>2, <1>3, <1>4

LEMMA InvSinCompactarStep ==
    InvSinCompactar /\ [Next]_vars /\ [~Compacta]_vars => InvSinCompactar'
<1> SUFFICES ASSUME InvSinCompactar, [Next]_vars, [~Compacta]_vars
             PROVE  InvSinCompactar'
  OBVIOUS
<1>1. /\ Tipos /\ Particion /\ TablasAlDia /\ MemoriaTypeOK
      /\ lista_segmentos \in [Pids -> Tablas]
      /\ DOMAIN tabla_segmentos_global = {q \in Pids : lugar[q] # "fuera"}
  BY DEF InvSinCompactar, Tipos, TypeOK
<1>2. Tipos'
  BY <1>1, TiposStep
<1>3. CASE UNCHANGED vars
  <2>1. Particion'
    BY <1>1, <1>3, ParticionQueda DEF vars, memoria
  <2>2. TablasAlDia'
    BY <1>1, <1>3 DEF TablasAlDia, vars, memoria, conexion
  <2> QED
    BY <1>2, <2>1, <2>2 DEF InvSinCompactar
<1>4. CASE Next /\ ~Compacta
  <2>1. PICK p \in Pids :
           \/ CrearPcb(p)
           \/ \E id \in Ids \ {0}, tamanio \in Tamanios :
                 PedirSegmento(p, id, tamanio)
           \/ \E id \in Ids \ {0} : BorrarSegmento(p, id)
           \/ Bloquear(p) \/ Despertar(p) \/ Terminar(p)
    BY <1>4 DEF Next
  <2>2. UNCHANGED ALGORITMO_ASIGNACION
    BY <1>4 DEF Next
  <2>3. ~mutex_memoria => KernelAlDia /\ PedidoAlDia
    BY <1>1 DEF TablasAlDia, KernelAlDia, PedidoAlDia
  <2>4. ~mutex_memoria => Particion'
    BY <1>1, <1>4, <2>3, ParticionPaso
  <2>5. CASE CrearPcb(p)
    <3>1. ~mutex_memoria
      BY <2>5 DEF CrearPcb
    <3>2. /\ lugar[p] = "fuera" /\ lugar'[p] = "lista"
          /\ tabla_segmentos_global'[p] = TablaInicial
          /\ lista_segmentos'[p] = TablaInicial
          /\ \A q \in Pids \ {p} :
                lugar'[q] = lugar[q] /\ lista_segmentos'[q] = lista_segmentos[q]
          /\ \A q \in DOMAIN tabla_segmentos_global :
                tabla_segmentos_global'[q] = tabla_segmentos_global[q]
      BY <1>1, <2>2, <2>5, CrearPcbTipo
    <3>3. pedido' = pedido
      BY <2>5 DEF CrearPcb
    <3>4. ASSUME NEW q \in Pids, lugar'[q] \in {"lista", "recurso"}
          PROVE  lista_segmentos'[q] = tabla_segmentos_global'[q]
      <4>1. CASE q = p
        BY <3>2, <4>1
      <4>2. CASE q # p
        <5>1. /\ lugar[q] \in {"lista", "recurso"}
              /\ q \in DOMAIN tabla_segmentos_global
          BY <1>1, <3>2, <3>4, <4>2
        <5> QED
          BY <1>1, <3>1, <3>2, <4>2, <5>1 DEF TablasAlDia
      <4> QED
        BY <4>1, <4>2
    <3>5. TablasAlDia'
      BY <1>1, <3>1, <3>3, <3>4 DEF TablasAlDia
    <3> QED
      BY <1>2, <2>4, <3>1, <3>5 DEF InvSinCompactar
  <2>6. ASSUME NEW id \in Ids \ {0}, NEW tamanio \in Tamanios,
               PedirSegmento(p, id, tamanio)
        PROVE  InvSinCompactar'
    <3>1. ~Compactado(p, id, tamanio)
      BY <1>4 DEF Compacta
    <3>2. TablasAlDia'
      BY <1>1, <2>2, <2>6, <3>1, PedirSegmentoAlDia
    <3>3. ~mutex_memoria
      BY <2>6 DEF PedirSegmento
    <3> QED
      BY <1>2, <2>4, <3>2, <3>3 DEF InvSinCompactar
  <2>7. ASSUME NEW id \in Ids \ {0}, BorrarSegmento(p, id)
        PROVE  InvSinCompactar'
    <3>1. TablasAlDia'
      BY <1>1, <2>2, <2>7, BorrarSegmentoAlDia
    <3>2. ~mutex_memoria
      BY <2>7 DEF BorrarSegmento
    <3> QED
      BY <1>2, <2>4, <3>1, <3>2 DEF InvSinCompactar
  <2>8. CASE Bloquear(p) \/ Despertar(p) \/ Terminar(p)
    <3>1. /\ pedido = SinPedido
          /\ lugar[p] \in {"lista", "recurso"}
          /\ \A q \in Pids \ {p} : lugar'[q] = lugar[q]
          /\ UNCHANGED <<lista_huecos, tabla_segmentos_global, lista_segmentos,
                         pedido, sobra, mutex_memoria>>
      BY <1>1, <2>2, <2>8, PlanificadorTipo
    <3>2. Particion'
      BY <1>1, <3>1, ParticionQueda
    <3>3. TablasAlDia'
      BY <1>1, <3>1 DEF TablasAlDia
    <3> QED
      BY <1>2, <3>2, <3>3 DEF InvSinCompactar
  <2> QED
    BY <2>1, <2>5, <2>6, <2>7, <2>8
<1> QED
  BY <1>3, <1>4

\* While nobody asks for a compaction, and whatever answers the kernel reads out
\* of step, the holes cover the memory, each segment has its hole and no two an
\* address in common.
THEOREM SinCompactarTeorema ==
    Spec /\ [][~Compacta]_vars => [](Cubren /\ ConHueco /\ SegmentosSeparados)
<1>1. Init => InvSinCompactar
  BY TiposInit, ParticionInit, TablasAlDiaInit DEF InvSinCompactar
<1>2. InvSinCompactar => Cubren /\ ConHueco /\ SegmentosSeparados
  BY ParticionCubre DEF InvSinCompactar, Tipos, TypeOK, MemoriaTypeOK
<1> QED
  BY <1>1, <1>2, InvSinCompactarStep, PTL DEF Spec

-----------------------------------------------------------------------------
(* A clean compaction makes room *)

\* The last hole is free, with all there was, and it is not the whole memory.
LEMMA UltimoHueco ==
    ASSUME NEW hs, Dividida(hs), NEW js, Juntado(hs, js),
           NEW gs, gs = [i \in DOMAIN js |->
                           [js[i] EXCEPT !.base = BasesNuevas(js)[i]]]
    PROVE  \E i \in 1 .. Len(gs) : /\ gs[i].libre
                                   /\ gs[i].tamanio = Suma(Libres(hs))
                                   /\ gs[i].tamanio < TAM_MEMORIA
<1>1. PICK m \in Nat :
         /\ m >= 1 /\ js \in Seq(Huecos) /\ Len(js) = m + 1
         /\ js[1].base = 0
         /\ \A j \in 1 .. m : ~js[j].libre /\ js[j].tamanio > 0
         /\ js[m + 1].libre
         /\ \A j \in 1 .. m : \A i \in 1 .. m :
               i < j => js[i].base + js[i].tamanio <= js[j].base
         /\ \A i \in 2 .. Len(hs) : ~hs[i].libre => \E j \in 2 .. m : js[j] = hs[i]
         /\ m = Len(Ocupados(hs))
  BY JuntadoValores
<1>2. Dividida(gs)
  BY ListaCompactada
<1>3. js # <<>>
  BY <1>1
<1>4. /\ Len(gs) = m + 1
      /\ \A i \in 1 .. (m + 1) :
            gs[i].tamanio = js[i].tamanio /\ gs[i].libre = js[i].libre
  <2> DEFINE g == [i \in DOMAIN js |-> [js[i] EXCEPT !.base = BasesNuevas(js)[i]]]
  <2>1. /\ g \in Seq(Huecos) /\ g # <<>> /\ Len(g) = Len(js)
        /\ \A i \in 1 .. Len(js) :
              /\ g[i].base = BasesNuevas(js)[i]
              /\ g[i].tamanio = js[i].tamanio /\ g[i].libre = js[i].libre
    BY <1>1, <1>3, ListaMovida, Zenon
  <2>2. gs = g
    OBVIOUS
  <2> HIDE DEF g
  <2> QED
    BY <1>1, <2>1, <2>2, Zenon
<1> DEFINE n == m + 1
<1>5. n \in 1 .. Len(gs) /\ 1 \in 1 .. Len(gs) /\ 1 \in 1 .. m /\ 1 < n
  BY <1>1, <1>4
<1>6. gs[n].libre /\ gs[n].tamanio = Suma(Libres(hs))
  BY <1>1, <1>4, <1>5 DEF Juntado
<1>7. EnFila(gs)
  BY <1>2 DEF Dividida
<1>8. /\ gs[1].base = 0 /\ gs[1].tamanio > 0
      /\ gs[n].base + gs[n].tamanio = TAM_MEMORIA
  BY <1>1, <1>4, <1>5, <1>7 DEF EnFila
<1> HIDE DEF n
<1>9. gs[1].base + gs[1].tamanio <= gs[n].base
  BY <1>5, <1>7, FilaOrden
<1>10. /\ gs[n].base \in Nat /\ gs[n].tamanio \in Nat /\ gs[1].tamanio \in Nat
  BY <1>5, <1>7, FilaTipo
<1>11. gs[n].tamanio < TAM_MEMORIA
  BY <1>8, <1>9, <1>10
<1> QED
  BY <1>5, <1>6, <1>11

LEMMA CompactarHaceLugar ==
    ASSUME MemoriaTypeOK, Particion, SinRepetir, Len(Libres(lista_huecos)) <= 2,
           NEW tamanio \in Nat \ {0}, Respuesta(tamanio) = "COMPACTACION",
           Compactar, UNCHANGED ALGORITMO_ASIGNACION,
           pedido'.tamanio = tamanio
    PROVE  Particion' /\ (Respuesta(pedido.tamanio) = "AUX_OK")'
<1> DEFINE hs == lista_huecos
           js == Juntar
           gs == lista_huecos'
<1>1. hs \in Seq(Huecos) \ {<<>>} /\ PrimerLibre # 0
  BY HayLibre DEF MemoriaTypeOK
<1>2. Dividida(hs) /\ Juntado(hs, js)
  BY <1>1, ParticionEs, JuntarLimpia
<1>3. gs = [i \in DOMAIN js |-> [js[i] EXCEPT !.base = BasesNuevas(js)[i]]]
  BY DEF Compactar
<1> HIDE DEF js
<1>4. Particion' /\ MemoriaTypeOK'
  BY <1>1, CompactarParticion, CompactarTipo
<1>5. PICK i \in 1 .. Len(gs) : /\ gs[i].libre
                                /\ gs[i].tamanio = Suma(Libres(hs))
                                /\ gs[i].tamanio < TAM_MEMORIA
  BY <1>2, <1>3, UltimoHueco
<1>6. Suma(Libres(hs)) >= tamanio
  BY DEF Respuesta
<1>7. i \in DOMAIN gs
  BY <1>4, <1>5, ListaTipo DEF MemoriaTypeOK
<1>8. i \in {j \in DOMAIN gs :
                /\ gs[j].libre
                /\ gs[j].tamanio >= tamanio
                /\ ALGORITMO_ASIGNACION' = "BEST" => gs[j].tamanio < TAM_MEMORIA}
  BY <1>5, <1>6, <1>7
<1>9. (Alcanzan(pedido.tamanio) # {})'
  BY <1>8 DEF Alcanzan
<1> QED
  BY <1>4, <1>9 DEF Respuesta

\* A compaction of a memory that is divided, with one or two free holes and no
\* base twice, leaves it divided and with a hole for the segment that was asked
\* for: the CREATE_SEGMENT that runs again is answered AUX_OK.
THEOREM HaceLugarTeorema ==
    Spec => [][Particion /\ CompactaLimpio /\ pedido = SinPedido
               => Particion' /\ (Respuesta(pedido.tamanio) = "AUX_OK")']_vars
<1>1. Tipos /\ [Next]_vars =>
         [Particion /\ CompactaLimpio /\ pedido = SinPedido
          => Particion' /\ (Respuesta(pedido.tamanio) = "AUX_OK")']_vars
  <2> SUFFICES ASSUME Tipos, [Next]_vars, Particion, CompactaLimpio,
                      pedido = SinPedido, ~UNCHANGED vars
               PROVE  Particion' /\ (Respuesta(pedido.tamanio) = "AUX_OK")'
    OBVIOUS
  <2>1. MemoriaTypeOK /\ UNCHANGED ALGORITMO_ASIGNACION
    BY DEF Tipos, TypeOK, Next
  <2>2. SinRepetir /\ Len(Libres(lista_huecos)) <= 2
    BY DEF CompactaLimpio
  <2>3. PICK p \in Pids, id \in Ids \ {0}, tamanio \in Tamanios :
           Compactado(p, id, tamanio)
    BY DEF CompactaLimpio, Compacta
  <2>4. /\ Respuesta(tamanio) = "COMPACTACION" /\ Compactar
        /\ pedido' = Pedido(p, id, tamanio)
    BY <2>3 DEF Compactado
  <2>5. pedido'.tamanio = tamanio /\ tamanio \in Nat \ {0}
    BY <2>4, Valores DEF Pedido
  <2> QED
    BY <2>1, <2>2, <2>4, <2>5, CompactarHaceLugar
<1> QED
  BY <1>1, TiposInit, TiposStep, PTL DEF Spec
=============================================================================

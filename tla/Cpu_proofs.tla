----------------------------- MODULE Cpu_proofs -----------------------------
(***************************************************************************)
(* Theorems about Cpu, for any registers, tables of segments and programs: *)
(* its types, and that each process has in its registers the strings it    *)
(* left there, which is most of what Maquina promises.  First what copies  *)
(* of strings between structs do, then what that makes of each action.     *)
(***************************************************************************)
EXTENDS Cpu, SequenceTheorems, WellFoundedInduction, TLAPS

-----------------------------------------------------------------------------
(* Induction, on a set and not on a formula *)

\* A set that has 0, and after each number the next one, has them all.
LEMMA Induccion ==
    ASSUME NEW N \in Nat, NEW S, 0 \in S,
           \A n \in 0 .. (N - 1) : n \in S => n + 1 \in S
    PROVE  0 .. N \subseteq S
<1> DEFINE T == (0 .. N) \ S
           R == OpToRel(<, Nat)
<1>1. SUFFICES ASSUME T # {}
               PROVE  FALSE
  OBVIOUS
<1>2. T \subseteq Nat
  OBVIOUS
<1>3. IsWellFoundedOn(R, Nat)
  BY NatLessThanWellFounded, Zenon
<1> HIDE DEF T, R
<1>4. PICK x \in T : \A y \in T : <<y, x>> \notin R
  BY <1>1, <1>2, <1>3, WFMin
<1>5. x \in 1 .. N /\ x - 1 \in T
  BY <1>4 DEF T
<1>6. \A a, b \in Nat : a < b => <<a, b>> \in R
  BY DEF R, OpToRel
<1>7. <<x - 1, x>> \in R
  BY <1>5, <1>6
<1> QED
  BY <1>4, <1>5, <1>7

\* A set of numbers has a least one.
LEMMA MinNat ==
    ASSUME NEW S \in SUBSET Nat, S # {}
    PROVE  Min(S) \in S /\ \A y \in S : Min(S) <= y
<1> DEFINE R == OpToRel(<, Nat)
<1>1. IsWellFoundedOn(R, Nat)
  BY NatLessThanWellFounded, Zenon
<1>2. \A a, b \in Nat : a < b => <<a, b>> \in R
  BY DEF R, OpToRel
<1> HIDE DEF R
<1>3. PICK x \in S : \A y \in S : <<y, x>> \notin R
  BY <1>1, WFMin
<1>4. ASSUME NEW y \in S
      PROVE  x <= y
  <2>1. x \in Nat /\ y \in Nat /\ <<y, x>> \notin R
    BY <1>3
  <2>2. y < x => <<y, x>> \in R
    BY <1>2, <2>1
  <2> QED
    BY <2>1, <2>2
<1>5. \A z \in S : (\A y \in S : z <= y) => z = x
  BY <1>4
<1> QED
  BY <1>4, <1>5 DEF Min

-----------------------------------------------------------------------------
(* Copies *)

\* CopiarCadenas is its copies, one after the other.
LEMMA CopiarCadenasDefinida ==
    ASSUME NEW cadenas, Len(cadenas) \in Nat, NEW en
    PROVE  \E g : /\ g[0] = en
                  /\ \A r \in 1 .. Len(cadenas) :
                        g[r] = strcpy(g[r - 1], Desde(r), cadenas[r])
                  /\ CopiarCadenas(cadenas, en) = g[Len(cadenas)]
<1> DEFINE N == Len(cadenas)
           Siguiente(g, r) ==
              IF r = 0 THEN en ELSE strcpy(g[r - 1], Desde(r), cadenas[r])
           S == {m \in 0 .. N : \E g : g = [r \in 0 .. m |-> Siguiente(g, r)]}
<1>1. 0 \in S
  <2> DEFINE g == [r \in 0 .. 0 |-> en]
  <2>1. g = [r \in 0 .. 0 |-> Siguiente(g, r)]
    OBVIOUS
  <2> HIDE DEF g, Siguiente
  <2>2. \E h : h = [r \in 0 .. 0 |-> Siguiente(h, r)]
    BY <2>1
  <2> QED
    BY <2>2
<1>2. ASSUME NEW m \in 0 .. (N - 1), m \in S
      PROVE  m + 1 \in S
  <2>1. PICK g : g = [r \in 0 .. m |-> Siguiente(g, r)]
    BY <1>2
  <2> DEFINE h == [r \in 0 .. (m + 1) |->
                      IF r <= m THEN g[r] ELSE strcpy(g[m], Desde(r), cadenas[r])]
  <2>2. ASSUME NEW r \in 0 .. (m + 1)
        PROVE  h[r] = Siguiente(h, r)
    <3>1. CASE r = 0
      BY <2>1, <3>1
    <3>2. CASE r \in 1 .. m
      <4>1. h[r] = g[r] /\ r - 1 \in 0 .. m /\ r \in 0 .. m /\ r # 0
        BY <3>2
      <4>2. h[r - 1] = g[r - 1]
        BY <4>1
      <4> HIDE DEF h
      <4> QED
        BY <2>1, <4>1, <4>2
    <3>3. CASE r = m + 1
      <4>1. h[m] = g[m] /\ r - 1 = m /\ r # 0
        BY <3>3
      <4>2. h[r] = strcpy(g[m], Desde(r), cadenas[r])
        BY <3>3
      <4> HIDE DEF h
      <4> QED
        BY <4>1, <4>2
    <3> QED
      BY <3>1, <3>2, <3>3
  <2>3. h = [r \in 0 .. (m + 1) |-> Siguiente(h, r)]
    <3>1. h = [r \in 0 .. (m + 1) |-> h[r]]
      OBVIOUS
    <3> HIDE DEF h, Siguiente
    <3> QED
      BY <2>2, <3>1
  <2> HIDE DEF h, Siguiente
  <2> QED
    BY <2>3, <1>2
<1>3. N \in S
  <2> HIDE DEF S
  <2>1. N \in Nat
    OBVIOUS
  <2> HIDE DEF N
  <2>2. \A m \in 0 .. (N - 1) : m \in S => m + 1 \in S
    BY <1>2
  <2>3. 0 .. N \subseteq S
    BY <1>1, <2>1, <2>2, Induccion
  <2> QED
    BY <2>1, <2>3
<1> DEFINE EsCopia(g) == g = [r \in 0 .. N |-> Siguiente(g, r)]
           c == CHOOSE g : EsCopia(g)
<1>4. CopiarCadenas(cadenas, en) = c[N]
  BY DEF CopiarCadenas
<1>5. c = [r \in 0 .. N |-> Siguiente(c, r)]
  <2>1. \E g : EsCopia(g)
    BY <1>3
  <2>2. EsCopia(c)
    <3> HIDE DEF EsCopia
    <3> QED
      BY <2>1, Zenon
  <2> QED
    BY <2>2
<1> HIDE DEF c
<1>6. c[0] = en /\ \A r \in 1 .. N : c[r] = strcpy(c[r - 1], Desde(r), cadenas[r])
  BY <1>5
<1> QED
  BY <1>4, <1>6

Total == CANT_REGISTROS * ANCHO

LEMMA Numeros ==
    /\ CANT_REGISTROS \in Nat \ {0} /\ ANCHO \in Nat \ {0}
    /\ NUL \in Caracteres /\ Basuras \subseteq Caracteres
  BY RegistrosAssumption DEF Caracteres

LEMMA Producto ==
    ASSUME NEW a \in Nat, NEW b \in Nat
    PROVE  a * b \in Nat
  OBVIOUS

\* A register is inside of the struct, and ends where the next one begins.
LEMMA DesdeValores ==
    ASSUME NEW r \in Registros
    PROVE  /\ Desde(r) \in Nat /\ Desde(r) >= 1
           /\ Total \in Nat /\ Desde(r) + ANCHO - 1 <= Total
           /\ \A s \in Registros : r < s => Desde(r) + ANCHO <= Desde(s)
           /\ Desde(r + 1) = Desde(r) + ANCHO
<1>1. r - 1 \in Nat /\ ANCHO \in Nat /\ r \in Nat /\ ANCHO >= 1
  BY Numeros DEF Registros
<1>2. (r - 1) * ANCHO \in Nat /\ Desde(r) = (r - 1) * ANCHO + 1
  BY <1>1, Producto DEF Desde
<1>3. \A m, n \in Nat : m <= n => m * ANCHO <= n * ANCHO
  <2> TAKE m, n \in Nat
  <2> HAVE m <= n
  <2>1. (n - m) * ANCHO \in Nat
    BY <1>1, Producto
  <2>2. (n - m) * ANCHO = n * ANCHO - m * ANCHO
    BY <1>1
  <2>3. m * ANCHO \in Nat /\ n * ANCHO \in Nat
    BY <1>1, Producto
  <2> QED
    BY <2>1, <2>2, <2>3
<1>4. \A m \in Nat : (m + 1) * ANCHO = m * ANCHO + ANCHO
  BY <1>1
<1>5. r * ANCHO = (r - 1) * ANCHO + ANCHO
  <2>1. ((r - 1) + 1) * ANCHO = (r - 1) * ANCHO + ANCHO /\ (r - 1) + 1 = r
    BY <1>1, <1>4
  <2> QED
    BY <2>1
<1>6. Total \in Nat /\ r * ANCHO <= Total
  <2>1. r <= CANT_REGISTROS /\ CANT_REGISTROS \in Nat
    BY Numeros DEF Registros
  <2> QED
    BY <1>1, <1>3, <2>1, Producto DEF Total
<1>7. ASSUME NEW s \in Registros, r < s
      PROVE  Desde(r) + ANCHO <= Desde(s)
  <2>1. s - 1 \in Nat /\ r <= s - 1
    BY <1>1, <1>7 DEF Registros
  <2>2. r * ANCHO <= (s - 1) * ANCHO /\ (s - 1) * ANCHO \in Nat
    BY <1>1, <1>3, <2>1, Producto
  <2> QED
    BY <1>1, <1>2, <1>5, <2>2 DEF Desde
<1>8. Desde(r + 1) = Desde(r) + ANCHO
  <2>1. Desde(r + 1) = r * ANCHO + 1
    BY <1>1 DEF Desde
  <2> QED
    BY <1>1, <1>2, <1>5, <2>1
<1> QED
  BY <1>1, <1>2, <1>5, <1>6, <1>7, <1>8

\* strcpy changes the characters of the string and its NUL.
LEMMA StrcpyValores ==
    ASSUME NEW cs \in Structs, NEW i \in Nat, NEW cadena \in Seq(Caracteres)
    PROVE  /\ strcpy(cs, i, cadena) \in Structs
           /\ \A j \in 1 .. Total :
                 /\ j - i \in 0 .. (Len(cadena) - 1) =>
                       strcpy(cs, i, cadena)[j] = cadena[j - i + 1]
                 /\ j - i = Len(cadena) => strcpy(cs, i, cadena)[j] = NUL
                 /\ j < i \/ j - i > Len(cadena) =>
                       strcpy(cs, i, cadena)[j] = cs[j]
<1>1. DOMAIN cs = 1 .. Total /\ Total \in Nat
  BY Producto, Numeros DEF Structs, Total
<1>2. DOMAIN cadena = 1 .. Len(cadena) /\ Len(cadena) \in Nat
  OBVIOUS
<1>3. ASSUME NEW j \in 1 .. Total
      PROVE  /\ j - i \in 0 .. (Len(cadena) - 1) =>
                   strcpy(cs, i, cadena)[j] = cadena[j - i + 1]
             /\ j - i = Len(cadena) => strcpy(cs, i, cadena)[j] = NUL
             /\ j < i \/ j - i > Len(cadena) =>
                   strcpy(cs, i, cadena)[j] = cs[j]
             /\ strcpy(cs, i, cadena)[j] \in Caracteres
  <2>1. j \in DOMAIN cs /\ cs[j] \in Caracteres /\ j \in Nat
    BY <1>1 DEF Structs, Total
  <2>2. j - i \in 0 .. (Len(cadena) - 1) <=> j - i + 1 \in DOMAIN cadena
    BY <1>2, <2>1
  <2>3. j - i + 1 \in DOMAIN cadena => cadena[j - i + 1] \in Caracteres
    OBVIOUS
  <2>4. strcpy(cs, i, cadena)[j]
           = CASE j - i + 1 \in DOMAIN cadena -> cadena[j - i + 1]
               [] j - i = Len(cadena) -> NUL
               [] OTHER -> cs[j]
    BY <2>1 DEF strcpy
  <2>5. j - i = Len(cadena) => j - i + 1 \notin DOMAIN cadena
    BY <1>2, <2>1
  <2>6. j < i \/ j - i > Len(cadena) =>
           j - i + 1 \notin DOMAIN cadena /\ j - i # Len(cadena)
    BY <1>2, <2>1
  <2> QED
    BY <2>1, <2>2, <2>3, <2>4, <2>5, <2>6, Numeros
<1>4. DOMAIN strcpy(cs, i, cadena) = 1 .. Total
      /\ strcpy(cs, i, cadena) = [j \in 1 .. Total |-> strcpy(cs, i, cadena)[j]]
  BY <1>1 DEF strcpy
<1>5. strcpy(cs, i, cadena) \in Structs
  BY <1>3, <1>4 DEF Structs, Total
<1> QED
  BY <1>3, <1>5

\* After the copies, each register has the characters of its string, and its
\* NUL when it is in the register: what the others spill is before it.
LEMMA CopiarCadenasValores ==
    ASSUME NEW cadenas, NEW en \in Structs, Len(cadenas) = CANT_REGISTROS,
           \A r \in Registros : cadenas[r] \in Seq(Caracteres)
    PROVE  /\ CopiarCadenas(cadenas, en) \in Structs
           /\ \A r \in Registros : \A k \in 0 .. (ANCHO - 1) :
                 /\ k < Len(cadenas[r]) =>
                       CopiarCadenas(cadenas, en)[Desde(r) + k] = cadenas[r][k + 1]
                 /\ k = Len(cadenas[r]) =>
                       CopiarCadenas(cadenas, en)[Desde(r) + k] = NUL
<1>a. Len(cadenas) \in Nat
  BY Numeros
<1>b. PICK g : /\ g[0] = en
               /\ \A r \in 1 .. Len(cadenas) :
                     g[r] = strcpy(g[r - 1], Desde(r), cadenas[r])
               /\ CopiarCadenas(cadenas, en) = g[Len(cadenas)]
  BY <1>a, CopiarCadenasDefinida
<1>1. /\ g[0] = en
      /\ \A r \in Registros : g[r] = strcpy(g[r - 1], Desde(r), cadenas[r])
      /\ CopiarCadenas(cadenas, en) = g[CANT_REGISTROS]
  BY <1>b DEF Registros
<1> DEFINE Copiado(m, r) ==
              \A k \in 0 .. (ANCHO - 1) :
                 /\ k < Len(cadenas[r]) => g[m][Desde(r) + k] = cadenas[r][k + 1]
                 /\ k = Len(cadenas[r]) => g[m][Desde(r) + k] = NUL
           S == {m \in 0 .. CANT_REGISTROS :
                    g[m] \in Structs /\ \A r \in 1 .. m : Copiado(m, r)}
<1>2. 0 \in S
  BY <1>1, Numeros
<1>3. ASSUME NEW m \in 0 .. (CANT_REGISTROS - 1), m \in S
      PROVE  m + 1 \in S
  <2> DEFINE n == m + 1
  <2>1. /\ n \in Registros /\ n - 1 = m /\ n \in 0 .. CANT_REGISTROS
        /\ g[m] \in Structs
    BY <1>3, Numeros DEF Registros
  <2>2. /\ g[n] = strcpy(g[m], Desde(n), cadenas[n])
        /\ Desde(n) \in Nat /\ cadenas[n] \in Seq(Caracteres)
    <3> HIDE DEF n
    <3> QED
      BY <1>1, <2>1, DesdeValores
  <2>3. /\ g[n] \in Structs
        /\ \A j \in 1 .. Total :
              /\ j - Desde(n) \in 0 .. (Len(cadenas[n]) - 1) =>
                    g[n][j] = cadenas[n][j - Desde(n) + 1]
              /\ j - Desde(n) = Len(cadenas[n]) => g[n][j] = NUL
              /\ j < Desde(n) => g[n][j] = g[m][j]
    <3> DEFINE cs == g[m]
               i == Desde(n)
               cadena == cadenas[n]
    <3>1. cs \in Structs /\ i \in Nat /\ cadena \in Seq(Caracteres)
          /\ g[n] = strcpy(cs, i, cadena)
      BY <2>1, <2>2
    <3> HIDE DEF n, cs, i, cadena
    <3>2. /\ strcpy(cs, i, cadena) \in Structs
          /\ \A j \in 1 .. Total :
                /\ j - i \in 0 .. (Len(cadena) - 1) =>
                      strcpy(cs, i, cadena)[j] = cadena[j - i + 1]
                /\ j - i = Len(cadena) => strcpy(cs, i, cadena)[j] = NUL
                /\ j < i => strcpy(cs, i, cadena)[j] = cs[j]
      BY <3>1, StrcpyValores
    <3> QED
      BY <3>1, <3>2 DEF cs, i, cadena
  <2>4. ASSUME NEW r \in 1 .. n
        PROVE  Copiado(n, r)
    <3> SUFFICES ASSUME NEW k \in 0 .. (ANCHO - 1)
                 PROVE  /\ k < Len(cadenas[r]) =>
                              g[n][Desde(r) + k] = cadenas[r][k + 1]
                        /\ k = Len(cadenas[r]) => g[n][Desde(r) + k] = NUL
      OBVIOUS
    <3>1. r \in Registros /\ ANCHO \in Nat /\ Len(cadenas[r]) \in Nat
      BY <2>1, Numeros DEF Registros
    <3>2. /\ Desde(r) \in Nat /\ Desde(r) + k \in 1 .. Total
          /\ \A s \in Registros : r < s => Desde(r) + k < Desde(s)
      <4>1. /\ Desde(r) \in Nat /\ Desde(r) >= 1 /\ Total \in Nat
            /\ Desde(r) + ANCHO - 1 <= Total
            /\ \A s \in Registros : r < s => Desde(r) + ANCHO <= Desde(s)
        BY <3>1, DesdeValores
      <4>2. \A s \in Registros : Desde(s) \in Nat
        BY DesdeValores
      <4> QED
        BY <3>1, <4>1, <4>2, SMTT(30)
    <3>3. CASE r = n
      <4> DEFINE j == Desde(r) + k
      <4>1. j \in 1 .. Total /\ j - Desde(n) = k
        BY <3>2, <3>3
      <4>2. k < Len(cadenas[r]) => j - Desde(n) \in 0 .. (Len(cadenas[n]) - 1)
        BY <3>1, <3>3, <4>1
      <4> HIDE DEF n, j
      <4>3. /\ k < Len(cadenas[r]) => g[n][j] = cadenas[n][k + 1]
            /\ k = Len(cadenas[r]) => g[n][j] = NUL
        BY <2>3, <3>3, <4>1, <4>2
      <4> QED
        BY <3>3, <4>3 DEF j
    <3>4. CASE r < n
      <4>1. r \in 1 .. m
        BY <3>4
      <4>2. Copiado(m, r)
        BY <1>3, <4>1
      <4>3. g[n][Desde(r) + k] = g[m][Desde(r) + k]
        <5> HIDE DEF n
        <5>1. Desde(r) + k < Desde(n)
          BY <2>1, <3>2, <3>4
        <5> QED
          BY <2>3, <3>2, <5>1
      <4> QED
        BY <4>2, <4>3
    <3> QED
      BY <3>3, <3>4
  <2> HIDE DEF Copiado, n
  <2> QED
    BY <2>1, <2>3, <2>4 DEF n
<1>4. CANT_REGISTROS \in S
  <2> HIDE DEF S
  <2>1. \A m \in 0 .. (CANT_REGISTROS - 1) : m \in S => m + 1 \in S
    BY <1>3
  <2>2. 0 .. CANT_REGISTROS \subseteq S
    BY <1>2, <2>1, Numeros, Induccion
  <2> QED
    BY <2>2, Numeros
<1> QED
  BY <1>1, <1>4 DEF Registros

-----------------------------------------------------------------------------
(* Strings *)

\* A function on numbers is a sequence.
LEMMA Secuencia ==
    ASSUME NEW n \in Nat, NEW C, NEW f \in [1 .. n -> C]
    PROVE  f \in Seq(C) /\ Len(f) = n /\ DOMAIN f = 1 .. n
  OBVIOUS

\* The characters of a string: those from its position to the one before a NUL,
\* or to the end and perhaps one more.
LEMMA CadenaValores ==
    ASSUME NEW L \in Nat, NEW cs \in [1 .. L -> Caracteres], NEW i \in 1 .. L,
           NEW basura \in Caracteres
    PROVE  \E n \in 0 .. (L - i + 1) :
              /\ \A k \in 1 .. n : cs[i + k - 1] # NUL
              /\ n < L - i + 1 => cs[i + n] = NUL
              /\ Cadena(cs, i, basura) \in Seq(Caracteres)
              /\ \/ Len(Cadena(cs, i, basura)) = n
                 \/ /\ n = L - i + 1 /\ basura # NUL
                    /\ Len(Cadena(cs, i, basura)) = n + 1
              /\ \A k \in 1 .. n : Cadena(cs, i, basura)[k] = cs[i + k - 1]
<1> DEFINE nul == {j \in i .. Len(cs) : cs[j] = NUL}
           c == Cadena(cs, i, basura)
           Hasta(n) == /\ \A k \in 1 .. n : cs[i + k - 1] # NUL
                       /\ n < L - i + 1 => cs[i + n] = NUL
                       /\ c \in Seq(Caracteres)
                       /\ \/ Len(c) = n
                          \/ n = L - i + 1 /\ basura # NUL /\ Len(c) = n + 1
                       /\ \A k \in 1 .. n : c[k] = cs[i + k - 1]
<1> SUFFICES \E n \in 0 .. (L - i + 1) : Hasta(n)
  OBVIOUS
<1>1. /\ Len(cs) = L /\ i \in Nat /\ i >= 1 /\ i <= L
      /\ \A j \in 1 .. L : cs[j] \in Caracteres
  BY Secuencia
<1>2. CASE nul = {}
  <2> DEFINE n == L - i + 1
             s == SubSeq(cs, i, L)
  <2>1. /\ s \in Seq(Caracteres) /\ Len(s) = n
        /\ \A k \in 1 .. n : s[k] = cs[i + k - 1]
    <3>1. \A j \in i .. L : cs[j] \in Caracteres
      BY <1>1
    <3>2. /\ s \in Seq(Caracteres) /\ Len(s) = IF i <= L THEN L - i + 1 ELSE 0
          /\ \A k \in 1 .. (L - i + 1) : s[k] = cs[i + k - 1]
      BY <1>1, <3>1, SubSeqProperties
    <3> QED
      BY <1>1, <3>2
  <2>2. c = s \o Cola(basura)
    BY <1>1, <1>2 DEF Cadena
  <2>3. n \in 0 .. (L - i + 1)
    BY <1>1
  <2>4. \A k \in 1 .. n : cs[i + k - 1] # NUL
    <3> TAKE k \in 1 .. n
    <3>1. i + k - 1 \in i .. Len(cs)
      BY <1>1
    <3> QED
      BY <1>2, <3>1
  <2>5. n = L - i + 1
    OBVIOUS
  <2> HIDE DEF s, n, c
  <2>6. CASE basura = NUL
    <3>1. Cola(basura) = <<>>
      BY <2>6 DEF Cola
    <3>2. s \o <<>> = s
      BY <2>1, ConcatEmptySeq
    <3>3. c = s
      BY <2>2, <3>1, <3>2
    <3>4. Hasta(n)
      BY <2>1, <2>4, <2>5, <3>3
    <3> HIDE DEF Hasta
    <3> QED
      BY <2>3, <3>4
  <2>7. CASE basura # NUL
    <3>1. Cola(basura) = <<basura>> /\ <<basura>> \in Seq(Caracteres)
          /\ Len(<<basura>>) = 1
      BY <2>7 DEF Cola
    <3>2. /\ c \in Seq(Caracteres) /\ Len(c) = n + 1
          /\ \A k \in 1 .. n : c[k] = s[k]
      <4>1. n \in Nat
        BY <2>3
      <4>2. /\ s \o <<basura>> \in Seq(Caracteres)
            /\ Len(s \o <<basura>>) = Len(s) + Len(<<basura>>)
            /\ \A k \in 1 .. (Len(s) + Len(<<basura>>)) :
                  (s \o <<basura>>)[k]
                     = IF k <= Len(s) THEN s[k] ELSE <<basura>>[k - Len(s)]
        BY <2>1, <3>1, ConcatProperties
      <4>3. c = s \o <<basura>>
        BY <2>2, <3>1
      <4>4. Len(s) = n /\ n + 1 = Len(s) + Len(<<basura>>)
        BY <2>1, <3>1
      <4>5. c \in Seq(Caracteres) /\ Len(c) = n + 1
        BY <4>2, <4>3, <4>4
      <4>6. ASSUME NEW k \in 1 .. n
            PROVE  c[k] = s[k]
        <5>1. k \in 1 .. (Len(s) + Len(<<basura>>)) /\ k <= Len(s)
          BY <4>1, <4>4
        <5> QED
          BY <4>2, <4>3, <5>1
      <4> QED
        BY <4>5, <4>6
    <3> QED
      <4>1. \A k \in 1 .. n : c[k] = cs[i + k - 1]
        BY <2>1, <3>2
      <4>2. Hasta(n)
        BY <2>4, <2>5, <2>7, <3>2, <4>1
      <4> HIDE DEF Hasta
      <4> QED
        BY <2>3, <4>2
  <2> QED
    BY <2>6, <2>7
<1>3. CASE nul # {}
  <2> DEFINE m == Min(nul)
             n == m - i
             s == SubSeq(cs, i, m - 1)
  <2>1. /\ m \in i .. L /\ cs[m] = NUL
        /\ \A j \in i .. L : cs[j] = NUL => m <= j
    <3>1. nul \in SUBSET Nat
      BY <1>1
    <3>2. m \in nul /\ \A j \in nul : m <= j
      <4> HIDE DEF nul
      <4> QED
        BY <1>3, <3>1, MinNat
    <3> HIDE DEF m
    <3> QED
      BY <1>1, <3>2
  <2>2. c = s
    BY <1>1, <1>3 DEF Cadena
  <2> HIDE DEF m
  <2>3. n \in 0 .. (L - i + 1) /\ n < L - i + 1 /\ i + n = m
    BY <1>1, <2>1
  <2>4. /\ s \in Seq(Caracteres) /\ Len(s) = n
        /\ \A k \in 1 .. n : s[k] = cs[i + k - 1]
    <3>1. \A j \in i .. (m - 1) : cs[j] \in Caracteres
      BY <1>1, <2>1
    <3>2. m - 1 \in Int /\ i \in Int /\ (m - 1) - i + 1 = n
      BY <1>1, <2>1
    <3>3. /\ s \in Seq(Caracteres)
          /\ Len(s) = IF i <= m - 1 THEN (m - 1) - i + 1 ELSE 0
          /\ \A k \in 1 .. ((m - 1) - i + 1) : s[k] = cs[i + k - 1]
      BY <3>1, <3>2, SubSeqProperties
    <3> HIDE DEF s
    <3> QED
      BY <1>1, <2>1, <3>2, <3>3
  <2>5. \A k \in 1 .. n : cs[i + k - 1] # NUL
    <3> TAKE k \in 1 .. n
    <3>1. i + k - 1 \in i .. L /\ i + k - 1 < m
      BY <1>1, <2>1
    <3> QED
      BY <2>1, <3>1
  <2> HIDE DEF s, n, c
  <2>6. c \in Seq(Caracteres) /\ Len(c) = n /\ \A k \in 1 .. n : c[k] = cs[i + k - 1]
    BY <2>2, <2>4
  <2>7. Hasta(n)
    BY <2>1, <2>3, <2>5, <2>6
  <2> HIDE DEF Hasta
  <2> QED
    BY <2>3, <2>7
<1> QED
  BY <1>2, <1>3

\* A string that is at a position, with its NUL if it is shorter than a register.
Esta(cs, i, t) ==
    /\ t \in Seq(Caracteres) /\ Len(t) <= ANCHO
    /\ \A k \in 1 .. Len(t) : t[k] # NUL /\ cs[i + k - 1] = t[k]
    /\ Len(t) < ANCHO => cs[i + Len(t)] = NUL

\* A string with the characters of another, that ends with it unless the other
\* fills a register.
Empieza(c, t) ==
    /\ c \in Seq(Caracteres) /\ t \in Seq(Caracteres)
    /\ Len(t) <= Len(c) /\ Len(t) <= ANCHO
    /\ \A k \in 1 .. Len(t) : t[k] # NUL /\ c[k] = t[k]
    /\ Len(t) < ANCHO => Len(c) = Len(t)

\* Only one string is at a position.
LEMMA EstaUna ==
    ASSUME NEW cs, NEW i \in Nat, NEW s, NEW t, Esta(cs, i, s), Esta(cs, i, t)
    PROVE  s = t
<1>1. /\ s \in Seq(Caracteres) /\ t \in Seq(Caracteres)
      /\ Len(s) \in Nat /\ Len(t) \in Nat /\ ANCHO \in Nat
      /\ Len(s) <= ANCHO /\ Len(t) <= ANCHO
  BY Numeros DEF Esta
<1>2. ASSUME NEW a, NEW b, Esta(cs, i, a), Esta(cs, i, b),
             Len(a) \in Nat, Len(b) \in Nat, Len(a) < Len(b)
      PROVE  FALSE
  <2>1. Len(a) < ANCHO /\ cs[i + Len(a)] = NUL
    BY <1>1, <1>2 DEF Esta
  <2>2. Len(a) + 1 \in 1 .. Len(b) /\ i + (Len(a) + 1) - 1 = i + Len(a)
    BY <1>2
  <2>3. \A k \in 1 .. Len(b) : b[k] # NUL /\ cs[i + k - 1] = b[k]
    BY <1>2 DEF Esta
  <2> QED
    BY <2>1, <2>2, <2>3
<1>3. Len(s) = Len(t)
  <2>1. ~(Len(s) < Len(t)) /\ ~(Len(t) < Len(s))
    BY <1>1, <1>2
  <2> QED
    BY <1>1, <2>1
<1>4. \A k \in 1 .. Len(s) : s[k] = t[k]
  BY <1>3 DEF Esta
<1> QED
  BY <1>1, <1>3, <1>4, SeqEqual

\* What a C string function reads from where a string is.
LEMMA CadenaEmpieza ==
    ASSUME NEW L \in Nat, NEW cs \in [1 .. L -> Caracteres], NEW i \in 1 .. L,
           i + ANCHO - 1 <= L, NEW basura \in Caracteres,
           NEW t, Esta(cs, i, t)
    PROVE  Empieza(Cadena(cs, i, basura), t)
<1> DEFINE c == Cadena(cs, i, basura)
<1>1. PICK n \in 0 .. (L - i + 1) :
              /\ \A k \in 1 .. n : cs[i + k - 1] # NUL
              /\ n < L - i + 1 => cs[i + n] = NUL
              /\ c \in Seq(Caracteres)
              /\ \/ Len(c) = n
                 \/ n = L - i + 1 /\ basura # NUL /\ Len(c) = n + 1
              /\ \A k \in 1 .. n : c[k] = cs[i + k - 1]
  BY CadenaValores, ZenonT(40)
<1> HIDE DEF c
<1>2. /\ t \in Seq(Caracteres) /\ Len(t) \in Nat /\ Len(t) <= ANCHO /\ ANCHO \in Nat
      /\ \A k \in 1 .. Len(t) : t[k] # NUL /\ cs[i + k - 1] = t[k]
      /\ Len(t) < ANCHO => cs[i + Len(t)] = NUL
  BY Numeros DEF Esta
<1>3. Len(t) <= n
  <2> SUFFICES ASSUME n < Len(t)
               PROVE  FALSE
    BY <1>2
  <2>1. n < L - i + 1 /\ cs[i + n] = NUL
    BY <1>1, <1>2
  <2>2. n + 1 \in 1 .. Len(t) /\ i + (n + 1) - 1 = i + n
    BY <1>1, <1>2
  <2> QED
    BY <1>2, <2>1, <2>2
<1>4. Len(t) < ANCHO => n = Len(t)
  <2> SUFFICES ASSUME Len(t) < ANCHO, Len(t) < n
               PROVE  FALSE
    BY <1>1, <1>2, <1>3
  <2>1. Len(t) + 1 \in 1 .. n /\ i + (Len(t) + 1) - 1 = i + Len(t)
    BY <1>1, <1>2
  <2> QED
    BY <1>1, <1>2, <2>1
<1>5. Len(c) \in Nat /\ n <= Len(c) /\ (n < L - i + 1 => Len(c) = n)
  BY <1>1
<1>6. Len(t) < ANCHO => Len(c) = Len(t)
  BY <1>1, <1>2, <1>4, <1>5
<1>7. \A k \in 1 .. Len(t) : c[k] = t[k]
  BY <1>1, <1>2, <1>3
<1> QED
  BY <1>1, <1>2, <1>3, <1>5, <1>6, <1>7 DEF Empieza, c

\* The text of a window is the string that is in it.
LEMMA TextoVentana ==
    ASSUME NEW w \in [1 .. ANCHO -> Caracteres]
    PROVE  Esta(w, 1, Cadena(w, 1, NUL))
<1> DEFINE c == Cadena(w, 1, NUL)
<1>1. 1 \in 1 .. ANCHO /\ ANCHO \in Nat /\ NUL \in Caracteres
  BY Numeros
<1>2. PICK n \in 0 .. (ANCHO - 1 + 1) :
              /\ \A k \in 1 .. n : w[1 + k - 1] # NUL
              /\ n < ANCHO - 1 + 1 => w[1 + n] = NUL
              /\ c \in Seq(Caracteres)
              /\ \/ Len(c) = n
                 \/ n = ANCHO - 1 + 1 /\ NUL # NUL /\ Len(c) = n + 1
              /\ \A k \in 1 .. n : c[k] = w[1 + k - 1]
  BY <1>1, CadenaValores
<1> HIDE DEF c
<1>3. Len(c) = n /\ n \in 0 .. ANCHO /\ (n < ANCHO => w[1 + n] = NUL)
  BY <1>1, <1>2
<1> QED
  BY <1>2, <1>3 DEF Esta, c

LEMMA VentanaValores ==
    ASSUME NEW cs \in Structs, NEW r \in Registros
    PROVE  /\ Ventana(cs, r) \in [1 .. ANCHO -> Caracteres]
           /\ \A k \in 1 .. ANCHO : Ventana(cs, r)[k] = cs[Desde(r) + k - 1]
           /\ Ventana(cs, r) = [k \in 1 .. ANCHO |-> cs[Desde(r) + k - 1]]
<1> DEFINE w == Ventana(cs, r)
           i == Desde(r)
           m == Desde(r) + ANCHO - 1
<1>1. /\ i \in Nat /\ i >= 1 /\ ANCHO \in Nat /\ ANCHO >= 1 /\ Total \in Nat
      /\ m \in Int /\ m <= Total /\ m - i + 1 = ANCHO /\ i <= m /\ m = i + ANCHO - 1
  BY Numeros, DesdeValores
<1>2. w = SubSeq(cs, i, m)
  BY DEF Ventana
<1> HIDE DEF w, i, m
<1>3. \A j \in i .. m : cs[j] \in Caracteres
  BY <1>1 DEF Structs, Total
<1>4. /\ SubSeq(cs, i, m) \in Seq(Caracteres)
      /\ Len(SubSeq(cs, i, m)) = IF i <= m THEN m - i + 1 ELSE 0
      /\ \A k \in 1 .. (m - i + 1) : SubSeq(cs, i, m)[k] = cs[i + k - 1]
  BY <1>1, <1>3, SubSeqProperties
<1>5. w \in Seq(Caracteres) /\ Len(w) = ANCHO /\ \A k \in 1 .. ANCHO : w[k] = cs[i + k - 1]
  BY <1>1, <1>2, <1>4
<1>6. w \in [1 .. ANCHO -> Caracteres]
  BY <1>5
<1>7. w = [k \in 1 .. ANCHO |-> cs[i + k - 1]]
  BY <1>5, <1>6
<1> QED
  BY <1>5, <1>6, <1>7 DEF w, i

\* The string of a register is in the struct where the register begins, and no
\* other is.
LEMMA TextoEsta ==
    ASSUME NEW cs \in Structs, NEW r \in Registros
    PROVE  /\ Esta(cs, Desde(r), Texto(cs, r))
           /\ Texto(cs, r) \in Seq(Caracteres)
           /\ \A t : Esta(cs, Desde(r), t) => t = Texto(cs, r)
<1> DEFINE w == Ventana(cs, r)
<1>1. /\ w \in [1 .. ANCHO -> Caracteres]
      /\ \A k \in 1 .. ANCHO : w[k] = cs[Desde(r) + k - 1]
      /\ Desde(r) \in Nat /\ ANCHO \in Nat
  BY VentanaValores, DesdeValores, Numeros
<1>2. Texto(cs, r) = Cadena(w, 1, NUL)
  BY DEF Texto
<1> HIDE DEF w
<1>3. Esta(w, 1, Texto(cs, r))
  BY <1>1, <1>2, TextoVentana
<1>4. Texto(cs, r) \in Seq(Caracteres) /\ Len(Texto(cs, r)) \in Nat
  BY <1>3 DEF Esta
<1>5. ASSUME NEW t \in Seq(Caracteres), Len(t) \in Nat
      PROVE  Esta(w, 1, t) <=> Esta(cs, Desde(r), t)
  <2>1. Len(t) <= ANCHO =>
           \A k \in 1 .. Len(t) : w[1 + k - 1] = cs[Desde(r) + k - 1]
    BY <1>1, <1>5
  <2>2. Len(t) < ANCHO => w[1 + Len(t)] = cs[Desde(r) + Len(t)]
    BY <1>1, <1>5
  <2> QED
    BY <1>5, <2>1, <2>2 DEF Esta
<1>6. Esta(cs, Desde(r), Texto(cs, r))
  BY <1>3, <1>4, <1>5
<1>7. \A t : Esta(cs, Desde(r), t) => t = Texto(cs, r)
  BY <1>1, <1>6, EstaUna
<1> QED
  BY <1>4, <1>6, <1>7

\* Copies of strings that fit leave each register with its own.
LEMMA CopiasEmpiezan ==
    ASSUME NEW cadenas, NEW en \in Structs, Len(cadenas) = CANT_REGISTROS,
           NEW textos, \A r \in Registros : Empieza(cadenas[r], textos[r])
    PROVE  /\ CopiarCadenas(cadenas, en) \in Structs
           /\ \A r \in Registros : Texto(CopiarCadenas(cadenas, en), r) = textos[r]
<1> DEFINE c == CopiarCadenas(cadenas, en)
<1>1. \A r \in Registros : cadenas[r] \in Seq(Caracteres)
  BY DEF Empieza
<1>2. /\ c \in Structs
      /\ \A r \in Registros : \A k \in 0 .. (ANCHO - 1) :
            /\ k < Len(cadenas[r]) => c[Desde(r) + k] = cadenas[r][k + 1]
            /\ k = Len(cadenas[r]) => c[Desde(r) + k] = NUL
  BY <1>1, CopiarCadenasValores
<1> HIDE DEF c
<1>3. ASSUME NEW r \in Registros
      PROVE  Texto(c, r) = textos[r]
  <2> DEFINE t == textos[r]
             s == cadenas[r]
             i == Desde(r)
  <2>1. /\ s \in Seq(Caracteres) /\ t \in Seq(Caracteres)
        /\ Len(s) \in Nat /\ Len(t) \in Nat /\ Len(t) <= Len(s) /\ Len(t) <= ANCHO
        /\ \A k \in 1 .. Len(t) : t[k] # NUL /\ s[k] = t[k]
        /\ Len(t) < ANCHO => Len(s) = Len(t)
    BY DEF Empieza
  <2>2. i \in Nat /\ ANCHO \in Nat
    BY Numeros, DesdeValores
  <2>3. \A k \in 0 .. (ANCHO - 1) :
            /\ k < Len(s) => c[i + k] = s[k + 1]
            /\ k = Len(s) => c[i + k] = NUL
    BY <1>2
  <2>4. Esta(c, i, t) => t = Texto(c, r)
    BY <1>2, TextoEsta
  <2> HIDE DEF t, s, i
  <2>5. ASSUME NEW k \in 1 .. Len(t)
        PROVE  t[k] # NUL /\ c[i + k - 1] = t[k]
    <3>1. k - 1 \in 0 .. (ANCHO - 1) /\ k - 1 < Len(s) /\ i + (k - 1) = i + k - 1
          /\ (k - 1) + 1 = k
      BY <2>1, <2>2
    <3>2. c[i + (k - 1)] = s[(k - 1) + 1]
      BY <2>3, <3>1
    <3> QED
      BY <2>1, <3>1, <3>2
  <2>6. Len(t) < ANCHO => c[i + Len(t)] = NUL
    BY <2>1, <2>2, <2>3
  <2> QED
    BY <2>1, <2>4, <2>5, <2>6 DEF Esta, t
<1> QED
  BY <1>2, <1>3 DEF c

LEMMA SinEscribirStruct ==
    ASSUME NEW basura \in Basuras
    PROVE  SinEscribir(basura) \in Structs
  BY Numeros DEF SinEscribir, Structs

\* A struct copied to another, register by register, has the same strings: what
\* a string with no NUL takes of the next register, that one's copy writes again.
LEMMA CopiarRegistrosTextos ==
    ASSUME NEW de \in Structs, NEW en \in Structs, NEW basura \in Basuras
    PROVE  /\ CopiarRegistros(de, en, basura) \in Structs
           /\ \A r \in Registros :
                 Texto(CopiarRegistros(de, en, basura), r) = Texto(de, r)
<1> DEFINE cadenas == [r \in Registros |-> Cadena(de, Desde(r), basura)]
           textos == [r \in Registros |-> Texto(de, r)]
<1>1. Len(cadenas) = CANT_REGISTROS
  BY Numeros DEF Registros
<1>2. ASSUME NEW r \in Registros
      PROVE  Empieza(cadenas[r], textos[r])
  <2>1. /\ Total \in Nat /\ de \in [1 .. Total -> Caracteres]
        /\ Desde(r) \in 1 .. Total /\ Desde(r) + ANCHO - 1 <= Total
        /\ basura \in Caracteres
    BY Numeros, DesdeValores DEF Structs, Total
  <2>2. Esta(de, Desde(r), Texto(de, r))
    BY TextoEsta
  <2>3. Empieza(Cadena(de, Desde(r), basura), Texto(de, r))
    BY <2>1, <2>2, CadenaEmpieza
  <2> QED
    BY <2>3
<1>3. CopiarRegistros(de, en, basura) = CopiarCadenas(cadenas, en)
  BY DEF CopiarRegistros
<1>4. \A r \in Registros : textos[r] = Texto(de, r)
  OBVIOUS
<1> HIDE DEF cadenas, textos
<1>5. /\ CopiarCadenas(cadenas, en) \in Structs
      /\ \A r \in Registros : Texto(CopiarCadenas(cadenas, en), r) = textos[r]
  BY <1>1, <1>2, CopiasEmpiezan
<1> QED
  BY <1>3, <1>4, <1>5

\* And so has the struct that is built from a packet.
LEMMA RecibirRegistrosTextos ==
    ASSUME NEW de \in Structs, NEW basura \in Basuras
    PROVE  /\ RecibirRegistros(de, basura) \in Structs
           /\ \A r \in Registros :
                 Texto(RecibirRegistros(de, basura), r) = Texto(de, r)
<1> DEFINE cadenas == [r \in Registros |-> Cadena(Ventana(de, r), 1, basura)]
           textos == [r \in Registros |-> Texto(de, r)]
           en == SinEscribir(basura)
<1>1. Len(cadenas) = CANT_REGISTROS
  BY Numeros DEF Registros
<1>2. ASSUME NEW r \in Registros
      PROVE  Empieza(cadenas[r], textos[r])
  <2> DEFINE w == Ventana(de, r)
  <2>1. w \in [1 .. ANCHO -> Caracteres]
    BY VentanaValores
  <2>2. Esta(w, 1, Texto(de, r))
    BY <2>1, TextoVentana DEF Texto
  <2>3. /\ ANCHO \in Nat /\ 1 \in 1 .. ANCHO /\ 1 + ANCHO - 1 <= ANCHO
        /\ basura \in Caracteres
    BY Numeros
  <2>4. cadenas[r] = Cadena(w, 1, basura) /\ textos[r] = Texto(de, r)
    OBVIOUS
  <2> HIDE DEF w
  <2>5. Empieza(Cadena(w, 1, basura), Texto(de, r))
    BY <2>1, <2>2, <2>3, CadenaEmpieza
  <2> QED
    BY <2>4, <2>5
<1>3. RecibirRegistros(de, basura) = CopiarCadenas(cadenas, en)
  BY DEF RecibirRegistros
<1>4. \A r \in Registros : textos[r] = Texto(de, r)
  OBVIOUS
<1>5. en \in Structs
  BY SinEscribirStruct
<1> HIDE DEF cadenas, textos, en
<1>6. /\ CopiarCadenas(cadenas, en) \in Structs
      /\ \A r \in Registros : Texto(CopiarCadenas(cadenas, en), r) = textos[r]
  BY <1>1, <1>2, <1>5, CopiasEmpiezan
<1> QED
  BY <1>3, <1>4, <1>6

LEMMA LetrasSon ==
    ASSUME NEW v \in Seq(Letras), Len(v) <= ANCHO
    PROVE  Empieza(v, v)
<1>1. Letras \subseteq Caracteres /\ NUL \notin Letras
  BY RegistrosAssumption DEF Caracteres
<1>2. v \in Seq(Caracteres) /\ Len(v) \in Nat
  BY <1>1, SeqMonotonic
<1>3. \A k \in 1 .. Len(v) : v[k] # NUL
  BY <1>1, ElementOfSeq
<1> QED
  BY <1>2, <1>3 DEF Empieza

LEMMA CrearRegistrosTextos ==
    ASSUME NEW basura \in Basuras
    PROVE  /\ CrearRegistros(basura) \in Structs
           /\ \A r \in Registros : Texto(CrearRegistros(basura), r) = Nombre
<1> DEFINE cadenas == [r \in Registros |-> Nombre]
           en == SinEscribir(basura)
<1>1. Len(cadenas) = CANT_REGISTROS
  BY Numeros DEF Registros
<1>2. \A r \in Registros : Empieza(cadenas[r], cadenas[r])
  <2>1. Empieza(Nombre, Nombre)
    BY Numeros, LetrasSon, RegistrosAssumption
  <2> QED
    BY <2>1
<1>3. CrearRegistros(basura) = CopiarCadenas(cadenas, en)
  BY DEF CrearRegistros
<1>4. \A r \in Registros : cadenas[r] = Nombre
  OBVIOUS
<1>5. en \in Structs
  BY SinEscribirStruct
<1> HIDE DEF cadenas, en
<1>6. /\ CopiarCadenas(cadenas, en) \in Structs
      /\ \A r \in Registros : Texto(CopiarCadenas(cadenas, en), r) = cadenas[r]
  BY <1>1, <1>2, <1>5, CopiasEmpiezan
<1> QED
  BY <1>3, <1>4, <1>6

\* A string written to a register: those before keep theirs; so do those after
\* when it is shorter than the register, and when it just fills it all but the
\* next, that gets its NUL.
LEMMA StrcpyTextos ==
    ASSUME NEW cs \in Structs, NEW r \in Registros, NEW c, NEW t, Empieza(c, t)
    PROVE  /\ strcpy(cs, Desde(r), c) \in Structs
           /\ Texto(strcpy(cs, Desde(r), c), r) = t
           /\ \A s \in Registros :
                 \/ s < r
                 \/ s > r /\ Len(t) < ANCHO
                 \/ s > r + 1 /\ Len(c) = ANCHO
                 => Texto(strcpy(cs, Desde(r), c), s) = Texto(cs, s)
           /\ r + 1 \in Registros /\ Len(c) = ANCHO =>
                 Texto(strcpy(cs, Desde(r), c), r + 1) = <<>>
<1> DEFINE i == Desde(r)
           d == strcpy(cs, i, c)
<1>1. /\ i \in Nat /\ i >= 1 /\ Total \in Nat /\ i + ANCHO - 1 <= Total
      /\ \A s \in Registros : r < s => i + ANCHO <= Desde(s)
      /\ Desde(r + 1) = i + ANCHO
      /\ ANCHO \in Nat /\ ANCHO >= 1 /\ r \in Nat
  BY Numeros, DesdeValores DEF Registros
<1>2. /\ c \in Seq(Caracteres) /\ t \in Seq(Caracteres)
      /\ Len(c) \in Nat /\ Len(t) \in Nat /\ Len(t) <= Len(c) /\ Len(t) <= ANCHO
      /\ \A k \in 1 .. Len(t) : t[k] # NUL /\ c[k] = t[k]
      /\ Len(t) < ANCHO => Len(c) = Len(t)
  BY DEF Empieza
<1>3. /\ d \in Structs
      /\ \A j \in 1 .. Total :
            /\ j - i \in 0 .. (Len(c) - 1) => d[j] = c[j - i + 1]
            /\ j - i = Len(c) => d[j] = NUL
            /\ j < i \/ j - i > Len(c) => d[j] = cs[j]
  BY <1>1, <1>2, StrcpyValores
<1>4. Esta(d, i, t) => t = Texto(d, r)
  BY <1>3, TextoEsta
<1>5. Desde(r + 1) \in Nat
  BY <1>1
<1> HIDE DEF i, d
<1>6. t = Texto(d, r)
  <2>1. ASSUME NEW k \in 1 .. Len(t)
        PROVE  t[k] # NUL /\ d[i + k - 1] = t[k]
    <3>1. i + k - 1 \in 1 .. Total /\ (i + k - 1) - i \in 0 .. (Len(c) - 1)
          /\ (i + k - 1) - i + 1 = k
      BY <1>1, <1>2, SMTT(30)
    <3> QED
      BY <1>2, <1>3, <3>1
  <2>2. ASSUME Len(t) < ANCHO
        PROVE  d[i + Len(t)] = NUL
    <3>1. i + Len(t) \in 1 .. Total /\ (i + Len(t)) - i = Len(c)
      BY <1>1, <1>2, <2>2
    <3> QED
      BY <1>3, <3>1
  <2> QED
    BY <1>2, <1>4, <2>1, <2>2 DEF Esta
<1>7. ASSUME NEW s \in Registros,
             \/ s < r
             \/ s > r /\ Len(t) < ANCHO
             \/ s > r + 1 /\ Len(c) = ANCHO
      PROVE  Texto(d, s) = Texto(cs, s)
  <2> DEFINE e == Desde(s)
  <2>1. /\ e \in Nat /\ e >= 1 /\ e + ANCHO - 1 <= Total
        /\ s < r => e + ANCHO <= i
        /\ s > r => i + ANCHO <= e
        /\ s > r + 1 => i + ANCHO + ANCHO <= e
    <3>1. s > r + 1 => r + 1 \in Registros
      BY <1>1, Numeros DEF Registros
    <3>2. s > r + 1 => Desde(r + 1) + ANCHO <= e
      BY <3>1, DesdeValores
    <3>3. /\ e \in Nat /\ e >= 1 /\ e + ANCHO - 1 <= Total
          /\ \A q \in Registros : s < q => e + ANCHO <= Desde(q)
      BY DesdeValores
    <3>4. s > r => i + ANCHO <= e
      BY <1>1
    <3> HIDE DEF e
    <3>5. s < r => e + ANCHO <= i
      BY <3>3 DEF i
    <3> QED
      BY <1>1, <3>2, <3>3, <3>4, <3>5
  <2>2. /\ Ventana(d, s) = [k \in 1 .. ANCHO |-> d[e + k - 1]]
        /\ Ventana(cs, s) = [k \in 1 .. ANCHO |-> cs[e + k - 1]]
    BY <1>3, VentanaValores
  <2> HIDE DEF e
  <2>3. ASSUME NEW k \in 1 .. ANCHO
        PROVE  d[e + k - 1] = cs[e + k - 1]
    <3>1. e + k - 1 \in 1 .. Total
      BY <1>1, <2>1
    <3>2. s \in Nat
      BY DEF Registros
    <3>3. e + k - 1 < i \/ (e + k - 1) - i > Len(c)
      BY <1>1, <1>2, <1>7, <2>1, <3>2
    <3> QED
      BY <1>3, <3>1, <3>3
  <2>4. Ventana(d, s) = Ventana(cs, s)
    BY <2>2, <2>3
  <2> QED
    BY <2>4 DEF Texto
<1>8. ASSUME r + 1 \in Registros, Len(c) = ANCHO
      PROVE  Texto(d, r + 1) = <<>>
  <2>1. Desde(r + 1) \in 1 .. Total /\ Desde(r + 1) - i = Len(c)
    <3>1. Desde(r + 1) + ANCHO - 1 <= Total
      BY <1>8, DesdeValores
    <3> QED
      BY <1>1, <1>5, <1>8, <3>1
  <2>2. d[Desde(r + 1)] = NUL
    BY <1>3, <2>1
  <2>3. Desde(r + 1) + 0 = Desde(r + 1)
    BY <1>5
  <2>4. Esta(d, Desde(r + 1), <<>>)
    BY <1>1, <2>2, <2>3 DEF Esta
  <2> QED
    BY <1>3, <1>8, <2>4, TextoEsta
<1> QED
  BY <1>3, <1>6, <1>7, <1>8 DEF i, d

-----------------------------------------------------------------------------
(* Types *)

LEMMA LeerMemoriaTipo ==
    ASSUME memoria_principal \in [Celdas -> Caracteres], NEW d, NEW n \in Nat
    PROVE  LeerMemoria(d, n) \in [1 .. n -> Caracteres]
  BY Numeros DEF LeerMemoria

LEMMA EscribirMemoriaTipo ==
    ASSUME memoria_principal \in [Celdas -> Caracteres], NEW d,
           NEW n \in Nat, NEW bytes \in [1 .. n -> Caracteres],
           EscribirMemoria(d, bytes)
    PROVE  memoria_principal' \in [Celdas -> Caracteres]
<1>1. ASSUME NEW c \in Celdas
      PROVE  (IF c - d + 1 \in DOMAIN bytes THEN bytes[c - d + 1]
              ELSE memoria_principal[c]) \in Caracteres
  OBVIOUS
<1> QED
  BY <1>1 DEF EscribirMemoria

\* What MOV_IN copies to a register.
LEMMA LeidaTipo ==
    ASSUME memoria_principal \in [Celdas -> Caracteres], NEW d, NEW basura \in Basuras
    PROVE  Cadena(LeerMemoria(d, ANCHO), 1, basura) \in Seq(Caracteres)
<1> DEFINE w == LeerMemoria(d, ANCHO)
<1>1. /\ w \in [1 .. ANCHO -> Caracteres] /\ ANCHO \in Nat /\ 1 \in 1 .. ANCHO
      /\ basura \in Caracteres
  BY Numeros, LeerMemoriaTipo
<1> HIDE DEF w
<1>2. Cadena(w, 1, basura) \in Seq(Caracteres)
  BY <1>1, CadenaValores
<1> QED
  BY <1>2 DEF w

LEMMA StrcpyTipo ==
    ASSUME NEW cs \in Structs, NEW r \in Registros, NEW c \in Seq(Caracteres)
    PROVE  strcpy(cs, Desde(r), c) \in Structs
<1> DEFINE i == Desde(r)
<1>1. i \in Nat
  BY DesdeValores
<1> HIDE DEF i
<1>2. strcpy(cs, i, c) \in Structs
  BY <1>1, StrcpyValores
<1> QED
  BY <1>2 DEF i

LEMMA TypeOKInit == Init => TypeOK
<1> SUFFICES ASSUME Init
             PROVE  TypeOK
  OBVIOUS
<1>1. PICK basura \in Basuras :
         /\ pcbs = [p \in Pids |-> [registros |-> CrearRegistros(basura), contador |-> 0]]
         /\ registrosCpu = CrearRegistros(basura)
         /\ memoria_principal = [c \in Celdas |-> basura]
  BY DEF Init
<1>2. CrearRegistros(basura) \in Structs /\ basura \in Caracteres
  BY <1>1, CrearRegistrosTextos, Numeros
<1>3. 0 \in 0 .. (MaxInstrucciones + 1) /\ 0 <= MaxInstrucciones
  BY ProgramasAssumption
<1>4. pcbs \in [Pids -> Pcbs] /\ \A p \in Pids : pcbs[p].contador <= MaxInstrucciones
  BY <1>1, <1>2, <1>3 DEF Pcbs
<1>5. NINGUNA \in Operaciones
  BY DEF NINGUNA, Operaciones
<1> QED
  BY <1>1, <1>2, <1>4, <1>5 DEF Init, TypeOK

\* The CPU executes: its counter is the one of a program that goes on.
LEMMA EjecutaTipo ==
    ASSUME TypeOK, Ejecuta
    PROVE  /\ cpu \in Pids /\ cpu # Nadie /\ cpu \in vivos
           /\ pcb \in Pcbs /\ pcb.contador \in Nat /\ pcb.contador < MaxInstrucciones
           /\ hubo_interrupcion = FALSE
           /\ pcbs' = pcbs /\ vivos' = vivos /\ cpu' = cpu
  BY ProgramasAssumption DEF TypeOK, Ejecuta, Pcbs

\* An instruction that ends without an interruption.
LEMMA SigueTipo ==
    ASSUME TypeOK, Ejecuta, Sigue, registrosCpu' \in Structs,
           memoria_principal' \in [Celdas -> Caracteres]
    PROVE  TypeOK'
<1>1. /\ cpu \in Pids /\ cpu # Nadie /\ pcb \in Pcbs /\ pcb.contador \in Nat
      /\ pcb.contador < MaxInstrucciones /\ hubo_interrupcion = FALSE
      /\ pcbs' = pcbs /\ vivos' = vivos /\ cpu' = cpu /\ MaxInstrucciones \in Nat
  BY EjecutaTipo, ProgramasAssumption
<1>2. /\ hubo_interrupcion' = hubo_interrupcion
      /\ ultimaOperacion' = ultimaOperacion
  BY DEF Sigue
<1>3. pcb' \in Pcbs /\ pcb'.contador <= MaxInstrucciones
  BY <1>1 DEF Sigue, Pcbs
<1> QED
  BY <1>1, <1>2, <1>3 DEF TypeOK

\* One that interrupts.
LEMMA InterrumpeTipo ==
    ASSUME TypeOK, cpu # Nadie, UNCHANGED <<pcbs, vivos, cpu>>,
           NEW operacion \in Operaciones, operacion # NINGUNA,
           operacion.que \in {"kernel", "I_F_READ"} => pcb.contador < MaxInstrucciones,
           Interrumpe(operacion)
    PROVE  TypeOK'
  BY DEF TypeOK, Interrumpe

LEMMA OperacionesTipo ==
    /\ [que |-> "kernel"] \in Operaciones
    /\ [que |-> "I_EXIT"] \in Operaciones
    /\ [que |-> "SEGMENTATION_FAULT"] \in Operaciones
    /\ [que |-> "kernel"] # NINGUNA /\ [que |-> "I_EXIT"] # NINGUNA
    /\ [que |-> "SEGMENTATION_FAULT"] # NINGUNA
    /\ \A d \in Direcciones, n \in Largos :
          /\ [que |-> "I_F_READ", dir |-> d, n |-> n] \in Operaciones
          /\ [que |-> "I_F_READ", dir |-> d, n |-> n] # NINGUNA
<1>1. /\ [que |-> "kernel"] \in Operaciones
      /\ [que |-> "I_EXIT"] \in Operaciones
      /\ [que |-> "SEGMENTATION_FAULT"] \in Operaciones
      /\ \A d \in Direcciones, n \in Largos :
            [que |-> "I_F_READ", dir |-> d, n |-> n] \in Operaciones
  BY DEF Operaciones
<1>2. NINGUNA.que = "ninguna"
  BY DEF NINGUNA
<1>3. /\ [que |-> "kernel"].que # "ninguna"
      /\ [que |-> "I_EXIT"].que # "ninguna"
      /\ [que |-> "SEGMENTATION_FAULT"].que # "ninguna"
      /\ \A d \in Direcciones, n \in Largos :
            [que |-> "I_F_READ", dir |-> d, n |-> n].que # "ninguna"
  OBVIOUS
<1> QED
  BY <1>1, <1>2, <1>3

\* The PCB goes back to the kernel.
LEMMA DevolverPcbTipo ==
    ASSUME TypeOK, DevolverPcb, vivos' \subseteq vivos,
           cpu \in vivos' => pcb.contador < MaxInstrucciones,
           memoria_principal' \in [Celdas -> Caracteres]
    PROVE  TypeOK'
<1>1. PICK basura \in Basuras :
         pcbs' = [pcbs EXCEPT ![cpu] =
                    [registros |-> RecibirRegistros(
                        CopiarRegistros(registrosCpu, pcb.registros, basura), basura),
                     contador |-> pcb.contador + 1]]
  BY DEF DevolverPcb
<1>2. /\ cpu \in Pids /\ cpu # Nadie /\ pcb.registros \in Structs
      /\ pcb.contador \in Nat /\ pcb.contador <= MaxInstrucciones
      /\ registrosCpu \in Structs /\ MaxInstrucciones \in Nat
  BY ProgramasAssumption DEF TypeOK, DevolverPcb, Pcbs
<1> DEFINE guardados == CopiarRegistros(registrosCpu, pcb.registros, basura)
<1>3. guardados \in Structs
  BY <1>2, CopiarRegistrosTextos
<1> HIDE DEF guardados
<1>4. RecibirRegistros(guardados, basura) \in Structs
  BY <1>3, RecibirRegistrosTextos
<1>5. [registros |-> RecibirRegistros(guardados, basura),
       contador |-> pcb.contador + 1] \in Pcbs
  BY <1>2, <1>4 DEF Pcbs
<1>6. pcbs' = [pcbs EXCEPT ![cpu] = [registros |-> RecibirRegistros(guardados, basura),
                                     contador |-> pcb.contador + 1]]
  BY <1>1 DEF guardados
<1>7. pcbs' \in [Pids -> Pcbs]
  BY <1>5, <1>6 DEF TypeOK
<1>8. ASSUME NEW p \in vivos'
      PROVE  pcbs'[p].contador <= MaxInstrucciones
  <2>1. p \in Pids /\ p \in vivos
    BY <1>8 DEF TypeOK
  <2>2. CASE p = cpu
    <3>1. pcbs'[p].contador = pcb.contador + 1
      BY <1>2, <1>6, <2>2 DEF TypeOK
    <3> QED
      BY <1>2, <1>8, <2>2, <3>1
  <2>3. CASE p # cpu
    <3>1. pcbs'[p] = pcbs[p]
      BY <1>6, <2>1, <2>3 DEF TypeOK
    <3> QED
      BY <2>1, <2>3, <3>1 DEF TypeOK
  <2> QED
    BY <2>2, <2>3
<1>9. NINGUNA \in Operaciones
  BY DEF NINGUNA, Operaciones
<1> QED
  BY <1>7, <1>8, <1>9 DEF TypeOK, DevolverPcb

LEMMA DespacharTipo ==
    ASSUME TypeOK, NEW p \in Pids, Despachar(p)
    PROVE  TypeOK'
<1>1. PICK basura \in Basuras :
         /\ pcb' = [pcbs[p] EXCEPT !.registros = RecibirRegistros(@, basura)]
         /\ registrosCpu' = CopiarRegistros(pcb'.registros, registrosCpu, basura)
  BY DEF Despachar
<1>2. /\ pcbs[p] \in Pcbs /\ pcbs[p].registros \in Structs /\ registrosCpu \in Structs
      /\ pcbs[p].contador <= MaxInstrucciones /\ cpu = Nadie /\ p \in vivos
  BY ProgramasAssumption DEF TypeOK, Despachar, Pcbs
<1> DEFINE recibidos == RecibirRegistros(pcbs[p].registros, basura)
<1>3. recibidos \in Structs
  BY <1>2, RecibirRegistrosTextos
<1>4. pcb' \in Pcbs /\ pcb'.contador = pcbs[p].contador /\ pcb'.registros = recibidos
  BY <1>1, <1>2, <1>3 DEF Pcbs
<1> HIDE DEF recibidos
<1>5. CopiarRegistros(recibidos, registrosCpu, basura) \in Structs
  BY <1>2, <1>3, CopiarRegistrosTextos
<1>6. registrosCpu' \in Structs
  BY <1>1, <1>4, <1>5
<1>7. cpu' = p /\ vivos' = vivos /\ pcbs' = pcbs
  BY DEF Despachar
<1>8. \A q \in vivos' \ {cpu'} : pcbs'[q].contador <= MaxInstrucciones
  BY <1>2, <1>7, ProgramasAssumption DEF TypeOK
<1> QED
  BY <1>2, <1>4, <1>6, <1>7, <1>8 DEF TypeOK, Despachar

LEMMA TypeOKStep == TypeOK /\ [Next]_vars => TypeOK'
<1> SUFFICES ASSUME TypeOK, [Next]_vars
             PROVE  TypeOK'
  OBVIOUS
<1>1. /\ registrosCpu \in Structs /\ memoria_principal \in [Celdas -> Caracteres]
      /\ ANCHO \in Nat
  BY Numeros DEF TypeOK
<1>2. ASSUME NEW p \in Pids, Despachar(p)
      PROVE  TypeOK'
  BY <1>2, DespacharTipo
<1>3. ASSUME NEW r \in Registros, NEW v \in Valores, Set(r, v)
      PROVE  TypeOK'
  <2>1. v \in Seq(Caracteres)
    BY RegistrosAssumption, SeqMonotonic DEF Caracteres
  <2>2. strcpy(registrosCpu, Desde(r), v) \in Structs
    BY <1>1, <2>1, StrcpyTipo
  <2> QED
    BY <1>1, <1>3, <2>2, SigueTipo DEF Set, instruccion_set
<1>4. ASSUME NEW r \in Registros, NEW d \in Direcciones, MovIn(r, d)
      PROVE  TypeOK'
  <2> DEFINE f == obtener_direcc_fisica(cpu, d, ANCHO)
  <2>1. Ejecuta /\ cpu # Nadie /\ UNCHANGED <<pcbs, vivos, cpu>>
    BY <1>4 DEF MovIn, Ejecuta
  <2>2. CASE f = -1
    <3>1. Interrumpe([que |-> "SEGMENTATION_FAULT"])
      BY <1>4, <2>2 DEF MovIn
    <3> QED
      BY <2>1, <3>1, InterrumpeTipo, OperacionesTipo
  <2>3. CASE f # -1
    <3>1. /\ Sigue /\ memoria_principal' = memoria_principal
          /\ \E basura \in Basuras :
                registrosCpu' = strcpy(registrosCpu, Desde(r),
                                       Cadena(LeerMemoria(f, ANCHO), 1, basura))
      BY <1>4, <2>3 DEF MovIn, instruccion_set
    <3>2. PICK basura \in Basuras :
             registrosCpu' = strcpy(registrosCpu, Desde(r),
                                    Cadena(LeerMemoria(f, ANCHO), 1, basura))
      BY <3>1
    <3> HIDE DEF f
    <3> DEFINE c == Cadena(LeerMemoria(f, ANCHO), 1, basura)
    <3>3. c \in Seq(Caracteres)
      BY <1>1, LeidaTipo
    <3> HIDE DEF c
    <3>4. strcpy(registrosCpu, Desde(r), c) \in Structs
      BY <1>1, <3>3, StrcpyTipo
    <3>5. registrosCpu' \in Structs
      BY <3>2, <3>4 DEF c
    <3> QED
      BY <1>1, <2>1, <3>1, <3>5, SigueTipo
  <2> QED
    BY <2>2, <2>3
<1>5. ASSUME NEW r \in Registros, NEW d \in Direcciones, MovOut(d, r)
      PROVE  TypeOK'
  <2> DEFINE f == obtener_direcc_fisica(cpu, d, ANCHO)
  <2>1. Ejecuta /\ cpu # Nadie /\ UNCHANGED <<pcbs, vivos, cpu>>
    BY <1>5 DEF MovOut, Ejecuta
  <2>2. CASE f = -1
    <3>1. Interrumpe([que |-> "SEGMENTATION_FAULT"])
      BY <1>5, <2>2 DEF MovOut
    <3> QED
      BY <2>1, <3>1, InterrumpeTipo, OperacionesTipo
  <2>3. CASE f # -1
    <3> DEFINE w == Ventana(registrosCpu, r)
    <3>1. Sigue /\ registrosCpu' = registrosCpu /\ EscribirMemoria(f, w)
      BY <1>5, <2>3 DEF MovOut
    <3>2. w \in [1 .. ANCHO -> Caracteres]
      BY <1>1, VentanaValores
    <3> HIDE DEF f, w
    <3>3. memoria_principal' \in [Celdas -> Caracteres]
      BY <1>1, <3>1, <3>2, EscribirMemoriaTipo
    <3> QED
      BY <1>1, <2>1, <3>1, <3>3, SigueTipo
  <2> QED
    BY <2>2, <2>3
<1>6. ASSUME NEW d \in Direcciones, NEW n \in Largos, FRead(d, n)
      PROVE  TypeOK'
  <2> DEFINE operacion == [que |-> "I_F_READ", dir |-> d, n |-> n]
  <2>1. /\ cpu # Nadie /\ UNCHANGED <<pcbs, vivos, cpu>>
        /\ Interrumpe(operacion) /\ pcb.contador < MaxInstrucciones
    BY <1>6 DEF FRead, Ejecuta
  <2>2. operacion \in Operaciones /\ operacion # NINGUNA
    BY OperacionesTipo
  <2> HIDE DEF operacion
  <2> QED
    BY <2>1, <2>2, InterrumpeTipo
<1>7. CASE Desconocida
  BY <1>1, <1>7, SigueTipo DEF Desconocida
<1>8. CASE DelKernel
  <2>1. /\ cpu # Nadie /\ UNCHANGED <<pcbs, vivos, cpu>>
        /\ Interrumpe([que |-> "kernel"]) /\ pcb.contador < MaxInstrucciones
    BY <1>8 DEF DelKernel, Ejecuta
  <2> QED
    BY <2>1, InterrumpeTipo, OperacionesTipo
<1>9. CASE Exit
  <2>1. /\ cpu # Nadie /\ UNCHANGED <<pcbs, vivos, cpu>>
        /\ Interrumpe([que |-> "I_EXIT"])
    BY <1>9 DEF Exit
  <2> QED
    BY <2>1, InterrumpeTipo, OperacionesTipo
<1>10. CASE Devolver
  <2>1. /\ DevolverPcb /\ memoria_principal' = memoria_principal
        /\ ultimaOperacion.que # "I_F_READ"
        /\ vivos' = IF ultimaOperacion.que \in {"I_EXIT", "SEGMENTATION_FAULT"}
                    THEN vivos \ {cpu} ELSE vivos
        /\ hubo_interrupcion
    BY <1>10 DEF Devolver, DevolverPcb
  <2>2. ultimaOperacion \in Operaciones /\ ultimaOperacion # NINGUNA
    BY <2>1 DEF TypeOK
  <2>3. ultimaOperacion.que \in {"kernel", "I_EXIT", "SEGMENTATION_FAULT"}
    BY <2>1, <2>2 DEF Operaciones, NINGUNA
  <2>4. cpu \in vivos' => ultimaOperacion.que = "kernel"
    BY <2>1, <2>3
  <2>5. cpu \in vivos' => pcb.contador < MaxInstrucciones
    BY <2>1, <2>4 DEF TypeOK
  <2> QED
    BY <1>1, <2>1, <2>5, DevolverPcbTipo
<1>11. CASE DevolverLectura
  <2>1. /\ DevolverPcb /\ vivos' = vivos /\ ultimaOperacion.que = "I_F_READ"
        /\ hubo_interrupcion
    BY <1>11 DEF DevolverLectura, DevolverPcb
  <2>2. pcb.contador < MaxInstrucciones
    BY <2>1 DEF TypeOK
  <2>3. ultimaOperacion.n \in Largos /\ ultimaOperacion.n \in Nat
    <3>1. ultimaOperacion \in Operaciones
      BY DEF TypeOK
    <3>2. ultimaOperacion \in [que : {"I_F_READ"}, dir : Direcciones, n : Largos]
      BY <2>1, <3>1 DEF Operaciones
    <3> QED
      BY <3>2, ProgramasAssumption
  <2> DEFINE n == ultimaOperacion.n
             f == obtener_direcc_fisica(cpu, ultimaOperacion.dir, n)
  <2>4. PICK letra \in Letras : EscribirMemoria(f, [i \in 1 .. n |-> letra])
    BY <1>11 DEF DevolverLectura
  <2> DEFINE bytes == [i \in 1 .. n |-> letra]
  <2>5. bytes \in [1 .. n -> Caracteres] /\ n \in Nat
    BY <2>3 DEF Caracteres
  <2>6. EscribirMemoria(f, bytes)
    BY <2>4
  <2> HIDE DEF n, f, bytes
  <2>7. memoria_principal' \in [Celdas -> Caracteres]
    BY <1>1, <2>5, <2>6, EscribirMemoriaTipo
  <2> QED
    BY <2>1, <2>2, <2>7, DevolverPcbTipo
<1>12. CASE UNCHANGED vars
  BY <1>12 DEF vars, TypeOK
<1> QED
  BY <1>2, <1>3, <1>4, <1>5, <1>6, <1>7, <1>8, <1>9, <1>10, <1>11, <1>12 DEF Next

\* The CPU, the kernel's PCBs and the memory have what their types say: the
\* registers are characters of the struct whatever is copied past a register, and
\* the counter of a process that goes on is of an instruction of its program.
THEOREM TypeOKTeorema == Spec => []TypeOK
<1>1. Init => TypeOK
  BY TypeOKInit
<1>2. TypeOK /\ [Next]_vars => TypeOK'
  BY TypeOKStep
<1> QED
  BY <1>1, <1>2, PTL DEF Spec

-----------------------------------------------------------------------------
(* The machine that programs see *)

\* An address is inside of its segment, and so of the memory; when every base is
\* 0 it is the segment's.
LEMMA DireccionValores ==
    ASSUME NEW p \in Pids, NEW d \in Direcciones, NEW n \in Nat
    PROVE  /\ obtener_direcc_fisica(p, d, n) # -1 =>
                 /\ obtener_direcc_fisica(p, d, n) \in Nat
                 /\ obtener_direcc_fisica(p, d, n) + n <= TAM_MEMORIA
           /\ BasesEnCero => Fisica(p, d, n) = obtener_direcc_fisica(p, d, n)
<1> DEFINE k == d \div TAM_MAX_SEGMENTO
           o == d % TAM_MAX_SEGMENTO
           suyos == {s \in Tabla[p] : s.id = k}
           suyo == {s \in Tabla[p] : s.id = k /\ o + n <= s.size}
           f == obtener_direcc_fisica(p, d, n)
<1>1. o \in Nat /\ TAM_MEMORIA \in Nat
  BY TablaAssumption, ProgramasAssumption
<1>2. f = IF o + n > obtener_tamanio_segmento(p, k) THEN -1 ELSE o
  BY DEF obtener_direcc_fisica
<1>3. obtener_tamanio_segmento(p, k)
         = IF suyos = {} THEN -1 ELSE (CHOOSE s \in suyos : TRUE).size
  BY DEF obtener_tamanio_segmento
<1>4. Fisica(p, d, n) = IF suyo = {} THEN -1 ELSE (CHOOSE s \in suyo : TRUE).base + o
  BY DEF Fisica
<1>5. suyo = {s \in suyos : o + n <= s.size}
  OBVIOUS
<1>6. \A s \in suyos : /\ s \in Tabla[p] /\ s.base \in Nat /\ s.size \in Nat
                       /\ s.base + s.size <= TAM_MEMORIA
                       /\ \A t \in suyos : s = t
  BY TablaAssumption
<1>7. BasesEnCero => \A s \in suyos : s.base = 0
  BY <1>6 DEF BasesEnCero
<1> HIDE DEF k, o, suyos, suyo, f
<1>8. CASE suyos = {}
  <2>1. f = -1
    BY <1>1, <1>2, <1>3, <1>8
  <2>2. suyo = {}
    BY <1>5, <1>8
  <2> QED
    BY <1>4, <2>1, <2>2 DEF f
<1>9. CASE suyos # {}
  <2>1. PICK s : s = CHOOSE x \in suyos : TRUE
    OBVIOUS
  <2>2. s \in suyos
    BY <1>9, <2>1
  <2>3. s.base \in Nat /\ s.size \in Nat /\ s.base + s.size <= TAM_MEMORIA
        /\ \A t \in suyos : s = t
    BY <1>6, <2>2
  <2>4. f = IF o + n > s.size THEN -1 ELSE o
    BY <1>2, <1>3, <1>9, <2>1
  <2>5. CASE o + n > s.size
    <3>1. suyo = {}
      BY <1>1, <1>5, <2>3, <2>5
    <3> QED
      BY <1>4, <2>4, <2>5, <3>1 DEF f
  <2>6. CASE ~(o + n > s.size)
    <3>1. f = o /\ o + n <= s.size
      BY <1>1, <2>3, <2>4, <2>6
    <3>2. s \in suyo /\ \A t \in suyo : t = s
      BY <1>5, <2>2, <2>3, <3>1
    <3>3. Fisica(p, d, n) = s.base + o
      BY <1>4, <3>2
    <3> QED
      BY <1>1, <1>7, <2>2, <2>3, <3>1, <3>3 DEF f
  <2> QED
    BY <2>5, <2>6
<1> QED
  BY <1>8, <1>9

\* The string that is at a cell of the memory.
LEMMA TextoEnEsta ==
    ASSUME NEW m, m \in [Celdas -> Caracteres],
           NEW d \in Nat, d + ANCHO <= TAM_MEMORIA
    PROVE  /\ Esta(m, d, ProgramaSinBase!TextoEn(m, d))
           /\ \A t : Esta(m, d, t) => t = ProgramaSinBase!TextoEn(m, d)
<1> DEFINE nul == {i \in 0 .. (ANCHO - 1) : m[d + i] = NUL}
           largo == IF nul = {} THEN ANCHO
                    ELSE CHOOSE i \in nul : \A j \in nul : i <= j
           t == [i \in 1 .. largo |-> m[d + i - 1]]
<1>1. ANCHO \in Nat /\ ANCHO >= 1 /\ TAM_MEMORIA \in Nat
  BY Numeros, TablaAssumption
<1>2. ProgramaSinBase!TextoEn(m, d) = t
  BY DEF ProgramaSinBase!TextoEn
<1>3. /\ largo \in 0 .. ANCHO
      /\ largo < ANCHO => m[d + largo] = NUL
      /\ \A k \in 1 .. largo : m[d + k - 1] # NUL
  <2>1. CASE nul = {}
    <3>1. largo = ANCHO
      BY <2>1
    <3>2. ASSUME NEW k \in 1 .. ANCHO
          PROVE  m[d + k - 1] # NUL
      <4>1. k - 1 \in 0 .. (ANCHO - 1) /\ d + (k - 1) = d + k - 1
        BY <1>1
      <4> QED
        BY <2>1, <4>1
    <3> HIDE DEF largo
    <3> QED
      BY <1>1, <3>1, <3>2
  <2>2. CASE nul # {}
    <3>1. nul \in SUBSET Nat
      BY <1>1
    <3>2. \A i \in nul : i \in 0 .. (ANCHO - 1) /\ m[d + i] = NUL
      OBVIOUS
    <3>3. \A i \in 0 .. (ANCHO - 1) : m[d + i] = NUL => i \in nul
      OBVIOUS
    <3>4. largo = Min(nul)
      BY <2>2 DEF Min
    <3> HIDE DEF nul, largo
    <3>5. largo \in nul /\ \A y \in nul : largo <= y
      BY <2>2, <3>1, <3>4, MinNat
    <3>6. ASSUME NEW k \in 1 .. largo
          PROVE  m[d + k - 1] # NUL
      <4>1. largo \in 0 .. (ANCHO - 1)
        BY <3>2, <3>5
      <4>2. k - 1 \in 0 .. (ANCHO - 1) /\ d + (k - 1) = d + k - 1 /\ k - 1 < largo
        BY <1>1, <4>1
      <4>3. k - 1 \notin nul
        BY <3>5, <4>1, <4>2
      <4> QED
        BY <3>3, <4>2, <4>3
    <3>7. largo \in 0 .. ANCHO /\ m[d + largo] = NUL
      BY <1>1, <3>2, <3>5
    <3> QED
      BY <3>6, <3>7
  <2> QED
    BY <2>1, <2>2
<1> HIDE DEF largo
<1>4. \A k \in 1 .. largo : m[d + k - 1] \in Caracteres
  <2> TAKE k \in 1 .. largo
  <2>1. d + k - 1 \in Celdas
    BY <1>1, <1>3 DEF Celdas
  <2> QED
    BY <2>1
<1>5. t \in Seq(Caracteres) /\ Len(t) = largo /\ \A k \in 1 .. largo : t[k] = m[d + k - 1]
  BY <1>3, <1>4
<1> HIDE DEF t
<1>6. Esta(m, d, t)
  <2>1. \A k \in 1 .. Len(t) : t[k] # NUL /\ m[d + k - 1] = t[k]
    BY <1>3, <1>5
  <2>2. Len(t) <= ANCHO /\ (Len(t) < ANCHO => m[d + Len(t)] = NUL)
    BY <1>1, <1>3, <1>5
  <2> QED
    BY <1>5, <2>1, <2>2 DEF Esta
<1>7. \A u : Esta(m, d, u) => u = t
  BY <1>6, EstaUna
<1> QED
  BY <1>2, <1>6, <1>7

\* What MOV_IN reads is the string of the memory, and what follows it.
LEMMA LeidaEmpieza ==
    ASSUME memoria_principal \in [Celdas -> Caracteres],
           NEW d \in Nat, d + ANCHO <= TAM_MEMORIA, NEW basura \in Basuras
    PROVE  Empieza(Cadena(LeerMemoria(d, ANCHO), 1, basura),
                   ProgramaSinBase!TextoEn(memoria_principal, d))
<1> DEFINE w == LeerMemoria(d, ANCHO)
           t == ProgramaSinBase!TextoEn(memoria_principal, d)
<1>1. /\ ANCHO \in Nat /\ 1 \in 1 .. ANCHO /\ 1 + ANCHO - 1 <= ANCHO
      /\ basura \in Caracteres /\ TAM_MEMORIA \in Nat
  BY Numeros, TablaAssumption
<1>2. w \in [1 .. ANCHO -> Caracteres]
  BY <1>1, LeerMemoriaTipo
<1>3. \A k \in 1 .. ANCHO : w[k] = memoria_principal[d + k - 1]
  BY <1>1 DEF LeerMemoria, Celdas
<1>4. Esta(memoria_principal, d, t)
  BY TextoEnEsta
<1> HIDE DEF w, t
<1>5. Len(t) \in Nat /\ Len(t) <= ANCHO
  BY <1>4 DEF Esta
<1>6. \A k \in 1 .. Len(t) : w[1 + k - 1] = memoria_principal[d + k - 1]
  BY <1>1, <1>3, <1>5
<1>7. Len(t) < ANCHO => w[1 + Len(t)] = memoria_principal[d + Len(t)]
  BY <1>1, <1>3, <1>5
<1>8. Esta(w, 1, t)
  BY <1>4, <1>5, <1>6, <1>7 DEF Esta
<1>9. Empieza(Cadena(w, 1, basura), t)
  BY <1>1, <1>2, <1>8, CadenaEmpieza
<1> QED
  BY <1>9 DEF w, t

\* What MOV_OUT leaves in the memory is the string of the register.
LEMMA EscritaEsta ==
    ASSUME memoria_principal \in [Celdas -> Caracteres],
           NEW d \in Nat, d + ANCHO <= TAM_MEMORIA,
           NEW cs \in Structs, NEW r \in Registros, EscribirMemoria(d, Ventana(cs, r))
    PROVE  ProgramaSinBase!TextoEn(memoria_principal', d) = Texto(cs, r)
<1> DEFINE w == Ventana(cs, r)
           t == Texto(cs, r)
<1>1. /\ ANCHO \in Nat /\ TAM_MEMORIA \in Nat
      /\ w \in [1 .. ANCHO -> Caracteres]
  BY Numeros, TablaAssumption, VentanaValores
<1>2. Esta(w, 1, t)
  BY <1>1, TextoVentana DEF Texto
<1>3. memoria_principal' \in [Celdas -> Caracteres]
  <2> HIDE DEF w
  <2> QED
    BY <1>1, EscribirMemoriaTipo DEF w
<1>4. memoria_principal' = [c \in Celdas |-> IF c - d + 1 \in DOMAIN w THEN w[c - d + 1]
                                             ELSE memoria_principal[c]]
  BY DEF EscribirMemoria
<1> HIDE DEF w, t
<1>5. \A k \in 1 .. ANCHO : memoria_principal'[d + k - 1] = w[k]
  <2> TAKE k \in 1 .. ANCHO
  <2>1. d + k - 1 \in Celdas /\ (d + k - 1) - d + 1 = k /\ k \in DOMAIN w
    BY <1>1 DEF Celdas
  <2> QED
    BY <1>4, <2>1
<1>6. t \in Seq(Caracteres) /\ Len(t) \in Nat /\ Len(t) <= ANCHO
  BY <1>2 DEF Esta
<1>7. \A k \in 1 .. Len(t) : memoria_principal'[d + k - 1] = w[1 + k - 1]
  BY <1>1, <1>5, <1>6
<1>8. Len(t) < ANCHO => memoria_principal'[d + Len(t)] = w[1 + Len(t)]
  <2>1. Len(t) < ANCHO => Len(t) + 1 \in 1 .. ANCHO /\ d + (Len(t) + 1) - 1 = d + Len(t)
    BY <1>1, <1>6
  <2> QED
    BY <1>5, <1>6, <2>1
<1>9. Esta(memoria_principal', d, t)
  BY <1>2, <1>6, <1>7, <1>8 DEF Esta
<1>10. t = ProgramaSinBase!TextoEn(memoria_principal', d)
  BY <1>3, <1>9, TextoEnEsta
<1> QED
  BY <1>10 DEF t

\* What is written at an address leaves the rest alone.
LEMMA EscribirMemoriaFuera ==
    ASSUME NEW d \in Int, NEW n \in Nat, NEW bytes, DOMAIN bytes = 1 .. n,
           EscribirMemoria(d, bytes), NEW c \in Celdas, c - d \notin 0 .. (n - 1)
    PROVE  memoria_principal'[c] = memoria_principal[c]
<1>1. c \in Int /\ c - d + 1 \notin 1 .. n
  BY DEF Celdas
<1> QED
  BY <1>1 DEF EscribirMemoria

-----------------------------------------------------------------------------
(* The registers and the counter of a process, wherever they are *)

LEMMA ContextoTipo ==
    ASSUME TypeOK, NEW p \in Pids
    PROVE  /\ Contexto(p).registros \in Structs /\ Contexto(p).contador \in Nat
           /\ \A r \in Registros : registros[p][r] = Texto(Contexto(p).registros, r)
           /\ hechas[p] = Contexto(p).contador
<1>1. /\ pcbs[p].registros \in Structs /\ pcbs[p].contador \in Nat
      /\ registrosCpu \in Structs /\ (cpu = p => pcb.contador \in Nat)
  BY ProgramasAssumption DEF TypeOK, Pcbs
<1> QED
  BY <1>1 DEF Contexto, registros, hechas

LEMMA RegistrosIgual ==
    ASSUME \A p \in Pids : \A r \in Registros :
              Texto(Contexto(p)'.registros, r) = Texto(Contexto(p).registros, r)
    PROVE  registros' = registros
  BY DEF registros

LEMMA HechasIgual ==
    ASSUME \A p \in Pids : Contexto(p)'.contador = Contexto(p).contador
    PROVE  hechas' = hechas
  BY DEF hechas

\* The processes that do not have the CPU.
LEMMA ContextoOtro ==
    ASSUME NEW p \in Pids, p # cpu, p # cpu', pcbs'[p] = pcbs[p]
    PROVE  Contexto(p)' = Contexto(p)
  BY DEF Contexto

\* One more instruction of a process.
LEMMA UnaMas ==
    ASSUME NEW p \in Pids,
           \A q \in Pids : q # p => Contexto(q)' = Contexto(q),
           Contexto(p)'.contador = Contexto(p).contador + 1
    PROVE  ProgramaSinBase!Hecha(p)
<1>1. hechas' = [q \in Pids |-> Contexto(q)'.contador]
  BY DEF hechas
<1>2. hechas = [q \in Pids |-> Contexto(q).contador]
  BY DEF hechas
<1>3. hechas' = [hechas EXCEPT ![p] = @ + 1]
  BY <1>1, <1>2
<1> QED
  BY <1>3 DEF ProgramaSinBase!Hecha

\* The processes that wait while one executes.
LEMMA EjecutaContexto ==
    ASSUME TypeOK, Ejecuta, NEW p, p = cpu
    PROVE  /\ p \in Pids /\ p = cpu'
           /\ \A q \in Pids : q # p => Contexto(q)' = Contexto(q)
           /\ Contexto(p) = [registros |-> registrosCpu, contador |-> pcb.contador]
           /\ Contexto(p)' = [registros |-> registrosCpu', contador |-> pcb'.contador]
<1>1. cpu \in Pids /\ pcbs' = pcbs /\ cpu' = cpu
  BY EjecutaTipo
<1>2. ASSUME NEW q \in Pids, q # p
      PROVE  Contexto(q)' = Contexto(q)
  BY <1>1, <1>2 DEF Contexto
<1> QED
  BY <1>1, <1>2 DEF Contexto

\* An instruction that does not interrupt adds one.
LEMMA SigueHecha ==
    ASSUME TypeOK, Ejecuta, Sigue, NEW p, p = cpu
    PROVE  ProgramaSinBase!Hecha(p)
<1>1. pcb \in Pcbs
  BY EjecutaTipo
<1>2. pcb'.contador = pcb.contador + 1
  BY <1>1 DEF Sigue, Pcbs
<1>3. /\ p \in Pids
      /\ \A q \in Pids : q # p => Contexto(q)' = Contexto(q)
      /\ Contexto(p)'.contador = Contexto(p).contador + 1
  BY <1>2, EjecutaContexto
<1> QED
  BY <1>3, UnaMas

\* What changes of the registers is of the process that executes.
LEMMA EjecutaRegistros ==
    ASSUME TypeOK, Ejecuta, NEW p, p = cpu
    PROVE  /\ \A r \in Registros : registros[p][r] = Texto(registrosCpu, r)
           /\ \A r \in Registros : registros'[p][r] = Texto(registrosCpu', r)
           /\ DOMAIN registros' = Pids
           /\ \A q \in Pids : q # p => registros'[q] = registros[q]
           /\ registros' = [registros EXCEPT ![p] =
                               [r \in Registros |-> Texto(registrosCpu', r)]]
<1>1. /\ p \in Pids
      /\ \A q \in Pids : q # p => Contexto(q)' = Contexto(q)
      /\ Contexto(p) = [registros |-> registrosCpu, contador |-> pcb.contador]
      /\ Contexto(p)' = [registros |-> registrosCpu', contador |-> pcb'.contador]
  BY EjecutaContexto
<1>2. registros = [q \in Pids |-> [r \in Registros |-> Texto(Contexto(q).registros, r)]]
  BY DEF registros
<1>3. registros' = [q \in Pids |-> [r \in Registros |-> Texto(Contexto(q)'.registros, r)]]
  BY DEF registros
<1>4. \A r \in Registros : registros[p][r] = Texto(registrosCpu, r)
  BY <1>1, <1>2
<1>5. registros'[p] = [r \in Registros |-> Texto(registrosCpu', r)]
  BY <1>1, <1>3
<1>6. ASSUME NEW q \in Pids, q # p
      PROVE  registros'[q] = registros[q]
  <2>1. Contexto(q)' = Contexto(q)
    BY <1>1, <1>6
  <2> QED
    BY <1>2, <1>3, <2>1
<1>7. registros' = [registros EXCEPT ![p] = [r \in Registros |-> Texto(registrosCpu', r)]]
  BY <1>1, <1>2, <1>3, <1>5, <1>6
<1> QED
  BY <1>3, <1>4, <1>5, <1>6, <1>7

\* Nothing that a program sees changes.
Igual == registros' = registros /\ hechas' = hechas
         /\ memoria_principal' = memoria_principal

LEMMA InterrumpeIgual ==
    ASSUME UNCHANGED <<pcbs, cpu>>, NEW operacion, Interrumpe(operacion)
    PROVE  Igual
<1>1. UNCHANGED <<pcbs, cpu, pcb, registrosCpu, memoria_principal>>
  BY DEF Interrumpe
<1>2. \A p \in Pids : Contexto(p)' = Contexto(p)
  BY <1>1 DEF Contexto
<1> QED
  BY <1>1, <1>2, RegistrosIgual, HechasIgual DEF Igual

LEMMA DespacharIgual ==
    ASSUME TypeOK, NEW p \in Pids, Despachar(p)
    PROVE  Igual
<1>1. PICK basura \in Basuras :
         /\ pcb' = [pcbs[p] EXCEPT !.registros = RecibirRegistros(@, basura)]
         /\ registrosCpu' = CopiarRegistros(pcb'.registros, registrosCpu, basura)
  BY DEF Despachar
<1>2. /\ pcbs[p] \in Pcbs /\ pcbs[p].registros \in Structs /\ registrosCpu \in Structs
      /\ cpu = Nadie /\ cpu' = p /\ pcbs' = pcbs /\ p # Nadie
      /\ memoria_principal' = memoria_principal
  BY ProgramasAssumption DEF TypeOK, Despachar, Pcbs
<1> DEFINE recibidos == RecibirRegistros(pcbs[p].registros, basura)
           cargados == CopiarRegistros(recibidos, registrosCpu, basura)
<1>3. /\ recibidos \in Structs
      /\ \A r \in Registros : Texto(recibidos, r) = Texto(pcbs[p].registros, r)
  BY <1>2, RecibirRegistrosTextos
<1>4. pcb'.contador = pcbs[p].contador /\ pcb'.registros = recibidos
  BY <1>1, <1>2, <1>3 DEF Pcbs
<1>5. registrosCpu' = cargados
  BY <1>1, <1>4
<1> HIDE DEF recibidos
<1>6. \A r \in Registros : Texto(cargados, r) = Texto(recibidos, r)
  BY <1>2, <1>3, CopiarRegistrosTextos
<1> HIDE DEF cargados
<1>7. Contexto(p) = pcbs[p]
  BY <1>2 DEF Contexto
<1>8. Contexto(p)' = [registros |-> registrosCpu', contador |-> pcb'.contador]
  BY <1>2 DEF Contexto
<1>9. \A q \in Pids : q # p => Contexto(q)' = Contexto(q)
  BY <1>2, ContextoOtro, ProgramasAssumption
<1>10. registros' = registros
  <2>1. \A r \in Registros :
           Texto(Contexto(p)'.registros, r) = Texto(Contexto(p).registros, r)
    BY <1>3, <1>5, <1>6, <1>7, <1>8
  <2>2. \A q \in Pids : \A r \in Registros :
           Texto(Contexto(q)'.registros, r) = Texto(Contexto(q).registros, r)
    BY <1>9, <2>1
  <2> QED
    BY <2>2, RegistrosIgual
<1>11. hechas' = hechas
  <2>1. Contexto(p)'.contador = Contexto(p).contador
    BY <1>4, <1>7, <1>8
  <2>2. \A q \in Pids : Contexto(q)'.contador = Contexto(q).contador
    BY <1>9, <2>1
  <2> QED
    BY <2>2, HechasIgual
<1> QED
  BY <1>2, <1>10, <1>11 DEF Igual

\* The PCB that goes back has the strings the CPU had, and one instruction more.
LEMMA DevolverPcbHecha ==
    ASSUME TypeOK, DevolverPcb, NEW p, p = cpu
    PROVE  p \in Pids /\ registros' = registros /\ ProgramaSinBase!Hecha(p)
<1>1. PICK basura \in Basuras :
         pcbs' = [pcbs EXCEPT ![p] =
                    [registros |-> RecibirRegistros(
                        CopiarRegistros(registrosCpu, pcb.registros, basura), basura),
                     contador |-> pcb.contador + 1]]
  BY DEF DevolverPcb
<1>2. /\ p \in Pids /\ p # Nadie /\ pcb.registros \in Structs
      /\ registrosCpu \in Structs /\ cpu' = Nadie
  BY ProgramasAssumption DEF TypeOK, DevolverPcb, Pcbs
<1> DEFINE guardados == CopiarRegistros(registrosCpu, pcb.registros, basura)
           recibidos == RecibirRegistros(guardados, basura)
<1>3. /\ guardados \in Structs
      /\ \A r \in Registros : Texto(guardados, r) = Texto(registrosCpu, r)
  BY <1>2, CopiarRegistrosTextos
<1>4. pcbs' = [pcbs EXCEPT ![p] = [registros |-> recibidos,
                                   contador |-> pcb.contador + 1]]
  BY <1>1
<1> HIDE DEF guardados
<1>5. \A r \in Registros : Texto(recibidos, r) = Texto(guardados, r)
  BY <1>3, RecibirRegistrosTextos
<1> HIDE DEF recibidos
<1>6. Contexto(p)' = [registros |-> recibidos, contador |-> pcb.contador + 1]
  BY <1>2, <1>4 DEF Contexto, TypeOK
<1>7. Contexto(p) = [registros |-> registrosCpu, contador |-> pcb.contador]
  BY DEF Contexto
<1>8. ASSUME NEW q \in Pids, q # p
      PROVE  Contexto(q)' = Contexto(q)
  <2>1. pcbs'[q] = pcbs[q] /\ q # cpu /\ q # cpu'
    BY <1>2, <1>4, <1>8, ProgramasAssumption DEF TypeOK
  <2> QED
    BY <2>1, ContextoOtro
<1>9. registros' = registros
  <2>1. \A r \in Registros :
           Texto(Contexto(p)'.registros, r) = Texto(Contexto(p).registros, r)
    BY <1>3, <1>5, <1>6, <1>7
  <2>2. \A q \in Pids : \A r \in Registros :
           Texto(Contexto(q)'.registros, r) = Texto(Contexto(q).registros, r)
    BY <1>8, <2>1
  <2> QED
    BY <2>2, RegistrosIgual
<1>10. Contexto(p)'.contador = Contexto(p).contador + 1
  BY <1>6, <1>7
<1> QED
  BY <1>2, <1>8, <1>9, <1>10, UnaMas

LEMMA SetImplementa ==
    ASSUME TypeOK, NEW r \in Registros, NEW v \in Valores, Set(r, v), NEW p, p = cpu
    PROVE  p \in Pids /\ ProgramaSinBase!Set(p, r, v)
<1> DEFINE cs == registrosCpu
           nuevo == strcpy(cs, Desde(r), v)
<1>1. /\ Ejecuta /\ Sigue /\ memoria_principal' = memoria_principal
      /\ registrosCpu' = nuevo /\ cs \in Structs
  BY DEF Set, instruccion_set, TypeOK
<1>2. Empieza(v, v) /\ Len(v) \in Nat /\ Len(v) <= ANCHO /\ ANCHO \in Nat
  BY RegistrosAssumption, LetrasSon DEF Empieza
<1> HIDE DEF cs
<1>3. /\ Texto(nuevo, r) = v
      /\ \A s \in Registros :
            \/ s < r
            \/ s > r /\ Len(v) < ANCHO
            \/ s > r + 1 /\ Len(v) = ANCHO
            => Texto(nuevo, s) = Texto(cs, s)
      /\ r + 1 \in Registros /\ Len(v) = ANCHO => Texto(nuevo, r + 1) = <<>>
  BY <1>1, <1>2, StrcpyTextos
<1> HIDE DEF nuevo
<1>4. /\ p \in Pids
      /\ \A s \in Registros : registros[p][s] = Texto(cs, s)
      /\ registros' = [registros EXCEPT ![p] = [s \in Registros |-> Texto(nuevo, s)]]
  BY <1>1, EjecutaRegistros, EjecutaContexto DEF cs
<1>5. ASSUME NEW s \in Registros
      PROVE  Texto(nuevo, s) = CASE s = r -> v
                                 [] s = r + 1 /\ Len(v) = ANCHO -> <<>>
                                 [] OTHER -> registros[p][s]
  <2>1. s \in Nat /\ r \in Nat
    BY DEF Registros
  <2>2. CASE s = r
    BY <1>3, <2>1, <2>2
  <2>3. CASE s = r + 1 /\ Len(v) = ANCHO
    BY <1>3, <2>1, <2>3
  <2>4. CASE s # r /\ ~(s = r + 1 /\ Len(v) = ANCHO)
    BY <1>2, <1>3, <1>4, <2>1, <2>4
  <2> QED
    BY <2>2, <2>3, <2>4
<1>6. registros' = [registros EXCEPT ![p] = [s \in Registros |->
          CASE s = r -> v
            [] s = r + 1 /\ Len(v) = ANCHO -> <<>>
            [] OTHER -> registros[p][s]]]
  BY <1>4, <1>5
<1>7. ProgramaSinBase!Hecha(p)
  BY <1>1, SigueHecha
<1> QED
  BY <1>1, <1>4, <1>6, <1>7
     DEF ProgramaSinBase!Set, ProgramaSinBase!Registros, Registros

\* An instruction that would leave the segment changes nothing.
LEMMA FaltaIgual ==
    ASSUME Ejecuta, Interrumpe([que |-> "SEGMENTATION_FAULT"])
    PROVE  Igual
  BY InterrumpeIgual DEF Ejecuta

LEMMA MovInImplementa ==
    ASSUME TypeOK, NEW r \in Registros, NEW d \in Direcciones, MovIn(r, d),
           NEW p, p = cpu
    PROVE  Igual \/ (p \in Pids /\ ProgramaSinBase!MovIn(p, r, d))
<1> DEFINE f == obtener_direcc_fisica(p, d, ANCHO)
           cs == registrosCpu
           t == ProgramaSinBase!TextoEn(memoria_principal, f)
<1>1. Ejecuta /\ cs \in Structs /\ memoria_principal \in [Celdas -> Caracteres]
      /\ ANCHO \in Nat
  BY Numeros DEF MovIn, TypeOK
<1>2. CASE f = -1
  BY <1>1, <1>2, FaltaIgual DEF MovIn
<1>3. CASE f # -1
  <2>1. /\ Sigue /\ memoria_principal' = memoria_principal
        /\ \E basura \in Basuras :
              registrosCpu' = strcpy(cs, Desde(r),
                                     Cadena(LeerMemoria(f, ANCHO), 1, basura))
    BY <1>3 DEF MovIn, instruccion_set
  <2>2. PICK basura \in Basuras :
           registrosCpu' = strcpy(cs, Desde(r),
                                  Cadena(LeerMemoria(f, ANCHO), 1, basura))
    BY <2>1
  <2>3. p \in Pids
    BY <1>1, EjecutaContexto
  <2>4. f \in Nat /\ f + ANCHO <= TAM_MEMORIA
    BY <1>1, <1>3, <2>3, DireccionValores
  <2> DEFINE c == Cadena(LeerMemoria(f, ANCHO), 1, basura)
             nuevo == strcpy(cs, Desde(r), c)
  <2>5. registrosCpu' = nuevo
    BY <2>2
  <2> HIDE DEF f
  <2>6. Empieza(c, t)
    BY <1>1, <2>4, LeidaEmpieza
  <2> HIDE DEF c, t, cs
  <2>7. /\ Texto(nuevo, r) = t
        /\ \A s \in Registros :
              s < r \/ (s > r /\ Len(t) < ANCHO) => Texto(nuevo, s) = Texto(cs, s)
    BY <1>1, <2>6, StrcpyTextos
  <2>8. Len(t) \in Nat
    BY <2>6 DEF Empieza
  <2> HIDE DEF nuevo
  <2>9. /\ \A s \in Registros : registros[p][s] = Texto(cs, s)
        /\ \A s \in Registros : registros'[p][s] = Texto(nuevo, s)
        /\ DOMAIN registros' = Pids
        /\ \A q \in Pids : q # p => registros'[q] = registros[q]
    BY <1>1, <2>5, EjecutaRegistros DEF cs
  <2>10. registros'[p][r] = t
    BY <2>7, <2>9
  <2> DEFINE rs == IF Len(t) < ANCHO THEN {r} ELSE {s \in Registros : s >= r}
  <2>11. ASSUME NEW q \in Pids, NEW s \in Registros, q # p \/ s \notin rs
         PROVE  registros'[q][s] = registros[q][s]
    <3>1. CASE q # p
      BY <2>9, <3>1
    <3>2. CASE q = p
      <4>1. s \in Nat /\ r \in Nat /\ s \notin rs
        BY <2>11, <3>2 DEF Registros
      <4>2. s < r \/ (s > r /\ Len(t) < ANCHO)
        BY <1>1, <2>8, <4>1
      <4> QED
        BY <2>7, <2>9, <3>2, <4>2
    <3> QED
      BY <3>1, <3>2
  <2>12. ProgramaSinBase!SoloCambian(p, rs)
    <3> HIDE DEF rs
    <3> QED
      BY <2>9, <2>11
         DEF ProgramaSinBase!SoloCambian, ProgramaSinBase!Registros, Registros
  <2>13. ProgramaSinBase!Hecha(p)
    BY <1>1, <2>1, SigueHecha
  <2>14. rs = IF Len(registros'[p][r]) < ANCHO THEN {r}
              ELSE {s \in ProgramaSinBase!Registros : s >= r}
    BY <2>10 DEF ProgramaSinBase!Registros, Registros
  <2> HIDE DEF rs
  <2>15. ProgramaSinBase!MovIn(p, r, d)
    BY <1>3, <2>1, <2>10, <2>12, <2>13, <2>14 DEF ProgramaSinBase!MovIn, f, t
  <2> QED
    BY <2>3, <2>15
<1> QED
  BY <1>2, <1>3

LEMMA MovOutImplementa ==
    ASSUME TypeOK, NEW r \in Registros, NEW d \in Direcciones, MovOut(d, r),
           NEW p, p = cpu
    PROVE  Igual \/ (p \in Pids /\ ProgramaSinBase!MovOut(p, d, r))
<1> DEFINE f == obtener_direcc_fisica(p, d, ANCHO)
           cs == registrosCpu
<1>1. Ejecuta /\ cs \in Structs /\ memoria_principal \in [Celdas -> Caracteres]
      /\ ANCHO \in Nat
  BY Numeros DEF MovOut, TypeOK
<1>2. CASE f = -1
  BY <1>1, <1>2, FaltaIgual DEF MovOut
<1>3. CASE f # -1
  <2>1. Sigue /\ cs' = cs /\ EscribirMemoria(f, Ventana(cs, r))
    BY <1>3 DEF MovOut
  <2>2. p \in Pids
    BY <1>1, EjecutaContexto
  <2>3. f \in Nat /\ f + ANCHO <= TAM_MEMORIA
    BY <1>1, <1>3, <2>2, DireccionValores
  <2>4. registros[p][r] = Texto(cs, r) /\ registros' = registros
    <3>1. /\ registros[p][r] = Texto(cs, r)
          /\ \A q \in Pids : q # p => Contexto(q)' = Contexto(q)
          /\ Contexto(p) = [registros |-> cs, contador |-> pcb.contador]
          /\ Contexto(p)' = [registros |-> cs', contador |-> pcb'.contador]
      BY <1>1, EjecutaContexto, EjecutaRegistros
    <3>2. \A q \in Pids : \A s \in Registros :
             Texto(Contexto(q)'.registros, s) = Texto(Contexto(q).registros, s)
      BY <2>1, <3>1
    <3> QED
      BY <3>1, <3>2, RegistrosIgual
  <2> HIDE DEF f
  <2>5. ProgramaSinBase!TextoEn(memoria_principal', f) = Texto(cs, r)
    BY <1>1, <2>1, <2>3, EscritaEsta
  <2>6. ASSUME NEW c \in Celdas, c - f \notin 0 .. (ANCHO - 1)
        PROVE  memoria_principal'[c] = memoria_principal[c]
    <3> DEFINE w == Ventana(cs, r)
    <3>1. DOMAIN w = 1 .. ANCHO /\ EscribirMemoria(f, w) /\ f \in Int
      BY <1>1, <2>1, <2>3, VentanaValores
    <3> HIDE DEF w
    <3> QED
      BY <1>1, <2>6, <3>1, EscribirMemoriaFuera
  <2>7. ProgramaSinBase!Hecha(p)
    BY <1>1, <2>1, SigueHecha
  <2>8. ProgramaSinBase!MovOut(p, d, r)
    BY <1>3, <2>4, <2>5, <2>6, <2>7
       DEF ProgramaSinBase!MovOut, ProgramaSinBase!Celdas, Celdas, f
  <2> QED
    BY <2>2, <2>8
<1> QED
  BY <1>2, <1>3

LEMMA DevolverLecturaImplementa ==
    ASSUME TypeOK, DevolverLectura, NEW p, p = cpu
    PROVE  /\ p \in Pids
           /\ \E d \in Direcciones, n \in Largos : ProgramaSinBase!LeerDeArchivo(p, d, n)
<1> DEFINE d == ultimaOperacion.dir
           n == ultimaOperacion.n
           f == obtener_direcc_fisica(p, d, n)
<1>1. DevolverPcb /\ ultimaOperacion.que = "I_F_READ"
  BY DEF DevolverLectura
<1>2. p \in Pids /\ registros' = registros /\ ProgramaSinBase!Hecha(p)
  BY <1>1, DevolverPcbHecha
<1>3. d \in Direcciones /\ n \in Largos /\ n \in Nat
  <2>1. ultimaOperacion \in [que : {"I_F_READ"}, dir : Direcciones, n : Largos]
    BY <1>1 DEF TypeOK, Operaciones
  <2> QED
    BY <2>1, ProgramasAssumption
<1>4. PICK letra \in Letras : EscribirMemoria(f, [i \in 1 .. n |-> letra])
  BY DEF DevolverLectura
<1> DEFINE bytes == [i \in 1 .. n |-> letra]
<1>5. DOMAIN bytes = 1 .. n /\ EscribirMemoria(f, bytes)
  BY <1>4
<1> HIDE DEF d, n, bytes
<1>6. f # -1 => f \in Nat
  BY <1>2, <1>3, DireccionValores
<1> HIDE DEF f
<1>7. ASSUME f # -1, NEW c \in Celdas, c - f \notin 0 .. (n - 1)
      PROVE  memoria_principal'[c] = memoria_principal[c]
  BY <1>3, <1>5, <1>6, <1>7, EscribirMemoriaFuera
<1>8. ProgramaSinBase!LeerDeArchivo(p, d, n)
  BY <1>2, <1>7 DEF ProgramaSinBase!LeerDeArchivo, ProgramaSinBase!Celdas, Celdas, f
<1> QED
  BY <1>2, <1>3, <1>8

LEMMA MaquinaInicial ==
    ASSUME Init
    PROVE  ProgramaSinBase!Init
<1>1. PICK basura \in Basuras :
         /\ pcbs = [p \in Pids |-> [registros |-> CrearRegistros(basura), contador |-> 0]]
         /\ memoria_principal = [c \in Celdas |-> basura]
         /\ cpu = Nadie
  BY DEF Init
<1>2. \A p \in Pids : Contexto(p) = [registros |-> CrearRegistros(basura), contador |-> 0]
  BY <1>1, ProgramasAssumption DEF Contexto
<1>3. \A r \in Registros : Texto(CrearRegistros(basura), r) = Nombre
  BY <1>1, CrearRegistrosTextos
<1>4. \A p \in Pids, r \in Registros : registros[p][r] = Nombre
  BY <1>2, <1>3 DEF registros
<1>5. hechas = [p \in Pids |-> 0]
  BY <1>2 DEF hechas
<1> QED
  BY <1>1, <1>4, <1>5
     DEF ProgramaSinBase!Init, ProgramaSinBase!Registros, ProgramaSinBase!Celdas,
         Registros, Celdas

LEMMA MaquinaPaso ==
    ASSUME TypeOK, [Next]_vars
    PROVE  [ProgramaSinBase!Next]_ProgramaSinBase!vars
<1>1. Igual => UNCHANGED ProgramaSinBase!vars
  BY DEF Igual, ProgramaSinBase!vars
<1>2. ASSUME NEW p \in Pids, Despachar(p)
      PROVE  Igual
  BY <1>2, DespacharIgual
<1>3. PICK p : p = cpu
  OBVIOUS
<1>4. ASSUME NEW r \in Registros, NEW v \in Valores, Set(r, v)
      PROVE  ProgramaSinBase!Next
  <2>1. p \in Pids /\ ProgramaSinBase!Set(p, r, v)
    BY <1>3, <1>4, SetImplementa
  <2> QED
    BY <2>1 DEF ProgramaSinBase!Next, ProgramaSinBase!Registros, Registros
<1>5. ASSUME NEW r \in Registros, NEW d \in Direcciones, MovIn(r, d)
      PROVE  Igual \/ ProgramaSinBase!Next
  <2>1. Igual \/ (p \in Pids /\ ProgramaSinBase!MovIn(p, r, d))
    BY <1>3, <1>5, MovInImplementa
  <2> QED
    BY <2>1 DEF ProgramaSinBase!Next, ProgramaSinBase!Registros, Registros
<1>6. ASSUME NEW r \in Registros, NEW d \in Direcciones, MovOut(d, r)
      PROVE  Igual \/ ProgramaSinBase!Next
  <2>1. Igual \/ (p \in Pids /\ ProgramaSinBase!MovOut(p, d, r))
    BY <1>3, <1>6, MovOutImplementa
  <2> QED
    BY <2>1 DEF ProgramaSinBase!Next, ProgramaSinBase!Registros, Registros
<1>7. ASSUME NEW d \in Direcciones, NEW n \in Largos, FRead(d, n)
      PROVE  Igual
  <2> DEFINE operacion == [que |-> "I_F_READ", dir |-> d, n |-> n]
  <2>1. UNCHANGED <<pcbs, cpu>> /\ Interrumpe(operacion)
    BY <1>7 DEF FRead, Ejecuta
  <2> HIDE DEF operacion
  <2> QED
    BY <2>1, InterrumpeIgual
<1>8. CASE Desconocida
  <2>1. Ejecuta /\ Sigue /\ UNCHANGED <<registrosCpu, memoria_principal>>
    BY <1>8 DEF Desconocida
  <2>2. /\ p \in Pids
        /\ \A q \in Pids : q # p => Contexto(q)' = Contexto(q)
        /\ Contexto(p) = [registros |-> registrosCpu, contador |-> pcb.contador]
        /\ Contexto(p)' = [registros |-> registrosCpu', contador |-> pcb'.contador]
    BY <1>3, <2>1, EjecutaContexto
  <2>3. \A q \in Pids : \A s \in Registros :
           Texto(Contexto(q)'.registros, s) = Texto(Contexto(q).registros, s)
    BY <2>1, <2>2
  <2>4. registros' = registros
    BY <2>3, RegistrosIgual
  <2>5. ProgramaSinBase!Hecha(p)
    BY <1>3, <2>1, SigueHecha
  <2> QED
    BY <2>1, <2>2, <2>4, <2>5 DEF ProgramaSinBase!Next, ProgramaSinBase!DelKernel
<1>9. CASE DelKernel
  <2>1. UNCHANGED <<pcbs, cpu>> /\ Interrumpe([que |-> "kernel"])
    BY <1>9 DEF DelKernel, Ejecuta
  <2>2. Igual
    BY <2>1, InterrumpeIgual
  <2> QED
    BY <1>1, <2>2
<1>10. CASE Exit
  <2>1. UNCHANGED <<pcbs, cpu>> /\ Interrumpe([que |-> "I_EXIT"])
    BY <1>10 DEF Exit
  <2>2. Igual
    BY <2>1, InterrumpeIgual
  <2> QED
    BY <1>1, <2>2
<1>11. CASE Devolver
  <2>1. DevolverPcb /\ memoria_principal' = memoria_principal
    BY <1>11 DEF Devolver
  <2>2. p \in Pids /\ registros' = registros /\ ProgramaSinBase!Hecha(p)
    BY <1>3, <2>1, DevolverPcbHecha
  <2> QED
    BY <2>1, <2>2 DEF ProgramaSinBase!Next, ProgramaSinBase!DelKernel
<1>12. CASE DevolverLectura
  <2>1. /\ p \in Pids
        /\ \E d \in Direcciones, n \in Largos : ProgramaSinBase!LeerDeArchivo(p, d, n)
    BY <1>3, <1>12, DevolverLecturaImplementa
  <2> QED
    BY <2>1 DEF ProgramaSinBase!Next
<1>13. CASE UNCHANGED vars
  <2>1. \A q \in Pids : Contexto(q)' = Contexto(q)
    BY <1>13 DEF vars, Contexto
  <2>2. Igual
    BY <1>13, <2>1, RegistrosIgual, HechasIgual DEF vars, Igual
  <2> QED
    BY <1>1, <2>2
<1> HIDE DEF Igual
<1> QED
  BY <1>1, <1>2, <1>4, <1>5, <1>6, <1>7, <1>8, <1>9, <1>10, <1>11, <1>12, <1>13 DEF Next

\* Whatever the tables of segments are, processes that take turns at the CPU have
\* their own registers and counters: the copies of a PCB from struct to packet and
\* back, and strings with no NUL of their own, lose, mix and repeat nothing.
THEOREM SinBaseTeorema == Spec => ProgramaSinBase!Spec
<1>1. Init => ProgramaSinBase!Init
  BY MaquinaInicial
<1>2. TypeOK /\ [Next]_vars => [ProgramaSinBase!Next]_ProgramaSinBase!vars
  BY MaquinaPaso
<1> QED
  BY <1>1, <1>2, TypeOKTeorema, PTL DEF Spec, ProgramaSinBase!Spec

\* When the bases are 0, the machine whose addresses are the code's is the one
\* whose addresses are the segments'.
LEMMA MismaMaquina ==
    ASSUME BasesEnCero, ProgramaSinBase!Next
    PROVE  Programa!Next
<1>1. \A n \in Largos : n \in Nat
  BY ProgramasAssumption
<1>2. \A p \in Pids, d \in Direcciones : \A n \in Nat :
         Fisica(p, d, n) = obtener_direcc_fisica(p, d, n)
  BY DireccionValores
<1>3. ANCHO \in Nat
  BY Numeros
<1>4. \A m, d : Programa!TextoEn(m, d) = ProgramaSinBase!TextoEn(m, d)
  BY DEF Programa!TextoEn, ProgramaSinBase!TextoEn
<1>5. \A p : Programa!Hecha(p) <=> ProgramaSinBase!Hecha(p)
  BY DEF Programa!Hecha, ProgramaSinBase!Hecha
<1>6. /\ Programa!Registros = ProgramaSinBase!Registros
      /\ Programa!Celdas = ProgramaSinBase!Celdas
  BY DEF Programa!Registros, ProgramaSinBase!Registros, Programa!Celdas,
         ProgramaSinBase!Celdas
<1>7. \A p, rs : Programa!SoloCambian(p, rs) <=> ProgramaSinBase!SoloCambian(p, rs)
  BY <1>6 DEF Programa!SoloCambian, ProgramaSinBase!SoloCambian
<1>8. ASSUME NEW p \in Pids, ProgramaSinBase!DelKernel(p)
      PROVE  Programa!Next
  BY <1>5, <1>8 DEF Programa!Next, Programa!DelKernel, ProgramaSinBase!DelKernel
<1>9. ASSUME NEW p \in Pids, NEW r \in ProgramaSinBase!Registros, NEW v \in Valores,
             ProgramaSinBase!Set(p, r, v)
      PROVE  Programa!Next
  <2>1. Programa!Set(p, r, v)
    BY <1>5, <1>6, <1>9 DEF Programa!Set, ProgramaSinBase!Set
  <2> QED
    BY <1>6, <2>1 DEF Programa!Next
<1>10. ASSUME NEW p \in Pids, NEW r \in ProgramaSinBase!Registros,
              NEW d \in Direcciones, ProgramaSinBase!MovIn(p, r, d)
       PROVE  Programa!Next
  <2>1. Fisica(p, d, ANCHO) = obtener_direcc_fisica(p, d, ANCHO)
    BY <1>2, <1>3
  <2>2. Programa!MovIn(p, r, d)
    BY <1>4, <1>5, <1>6, <1>7, <1>10, <2>1 DEF Programa!MovIn, ProgramaSinBase!MovIn
  <2> QED
    BY <1>6, <2>2 DEF Programa!Next
<1>11. ASSUME NEW p \in Pids, NEW r \in ProgramaSinBase!Registros,
              NEW d \in Direcciones, ProgramaSinBase!MovOut(p, d, r)
       PROVE  Programa!Next
  <2>1. Fisica(p, d, ANCHO) = obtener_direcc_fisica(p, d, ANCHO)
    BY <1>2, <1>3
  <2>2. Programa!MovOut(p, d, r)
    BY <1>4, <1>5, <1>6, <1>11, <2>1 DEF Programa!MovOut, ProgramaSinBase!MovOut
  <2> QED
    BY <1>6, <2>2 DEF Programa!Next
<1>12. ASSUME NEW p \in Pids, NEW d \in Direcciones, NEW n \in Largos,
              ProgramaSinBase!LeerDeArchivo(p, d, n)
       PROVE  Programa!Next
  <2>1. Fisica(p, d, n) = obtener_direcc_fisica(p, d, n)
    BY <1>1, <1>2
  <2>2. Programa!LeerDeArchivo(p, d, n)
    BY <1>5, <1>6, <1>12, <2>1
       DEF Programa!LeerDeArchivo, ProgramaSinBase!LeerDeArchivo
  <2> QED
    BY <2>2 DEF Programa!Next
<1> QED
  BY <1>8, <1>9, <1>10, <1>11, <1>12 DEF ProgramaSinBase!Next

\* With the only bases the CPU's addresses are right for, its memory is the one
\* segmentation promises too: an instruction reads and writes inside of a segment
\* of its process, or ends in a segmentation fault.
THEOREM ImplementaMaquinaTeorema ==
    ASSUME BasesEnCero
    PROVE  Spec => ImplementaMaquina
<1>1. Init => Programa!Init
  BY MaquinaInicial
     DEF Programa!Init, ProgramaSinBase!Init, Programa!Registros,
         ProgramaSinBase!Registros, Programa!Celdas, ProgramaSinBase!Celdas
<1>2. TypeOK /\ [Next]_vars => [Programa!Next]_Programa!vars
  BY MaquinaPaso, MismaMaquina DEF Programa!vars, ProgramaSinBase!vars
<1> QED
  BY <1>1, <1>2, TypeOKTeorema, PTL DEF Spec, ImplementaMaquina, Programa!Spec

=============================================================================

-------------------------- MODULE FileSystem_proofs --------------------------
(***************************************************************************)
(* Theorems about FileSystem: types, and the blocks, the bitmap and the    *)
(* FCBs, on disk and in memory.                                            *)
(*                                                                         *)
(* The FCB of a file (FcbDe) says which blocks it has.  A step keeps it,   *)
(* or gives the file some of the blocks it had (Hereda): that is why the   *)
(* files stay apart whatever is being done to one of them.  Nobody knows   *)
(* which blocks a file that grew has (perdidos), but those it takes were   *)
(* free, and its pointers are written in one of them (DePerdido).          *)
(***************************************************************************)
EXTENDS FileSystem, SequenceTheorems, WellFoundedInduction, TLAPS

-----------------------------------------------------------------------------
(* Arithmetic of blocks *)

\* A position is a block and a place in it.
LEMMA Division ==
    ASSUME NEW p \in Nat
    PROVE  /\ Abajo(p) \in Nat
           /\ p % SIZE_BLOQUE \in 0 .. (SIZE_BLOQUE - 1)
           /\ p = Abajo(p) * SIZE_BLOQUE + (p % SIZE_BLOQUE)
  BY SuperbloqueAssumption DEF Abajo

\* And only one.
LEMMA DivisionUnica ==
    ASSUME NEW q \in Int, NEW r \in 0 .. (SIZE_BLOQUE - 1)
    PROVE  /\ Abajo(q * SIZE_BLOQUE + r) = q
           /\ (q * SIZE_BLOQUE + r) % SIZE_BLOQUE = r
  BY SuperbloqueAssumption DEF Abajo

\* The blocks a size takes: none for nothing, and one more than the last position
\* has before it.
LEMMA ArribaValores ==
    ASSUME NEW n \in Nat
    PROVE  /\ Arriba(n) \in Nat
           /\ Arriba(0) = 0
           /\ n > 0 => Arriba(n) = Abajo(n - 1) + 1
<1>1. n + SIZE_BLOQUE - 1 \in Nat
  BY SuperbloqueAssumption
<1>2. Arriba(n) \in Nat
  BY <1>1, Division DEF Arriba, Abajo
<1>3. Arriba(0) = 0
  <2>1. Abajo(0 * SIZE_BLOQUE + (SIZE_BLOQUE - 1)) = 0
    BY DivisionUnica, SuperbloqueAssumption
  <2> QED
    BY <2>1, SuperbloqueAssumption DEF Arriba, Abajo
<1>4. ASSUME n > 0
      PROVE  Arriba(n) = Abajo(n - 1) + 1
  <2> DEFINE q == Abajo(n - 1)
             r == (n - 1) % SIZE_BLOQUE
  <2>1. q \in Nat /\ r \in 0 .. (SIZE_BLOQUE - 1) /\ n - 1 = q * SIZE_BLOQUE + r
    BY <1>4, Division
  <2> HIDE DEF q, r
  <2>2. n + SIZE_BLOQUE - 1 = (q + 1) * SIZE_BLOQUE + r
    BY <2>1, SuperbloqueAssumption
  <2>3. Abajo((q + 1) * SIZE_BLOQUE + r) = q + 1
    BY <2>1, DivisionUnica
  <2> QED
    BY <2>2, <2>3 DEF Arriba, Abajo, q
<1> QED
  BY <1>2, <1>3, <1>4

\* The places of a block are addresses of the disk, and its own.
LEMMA DireccionDeBloque ==
    ASSUME NEW b \in Bloques, NEW r \in 0 .. (SIZE_BLOQUE - 1)
    PROVE  /\ b * SIZE_BLOQUE + r \in Direcciones
           /\ Abajo(b * SIZE_BLOQUE + r) = b
<1>1. b \in Nat /\ b <= CANTIDAD_BLOQUES - 1 /\ r \in Nat
  BY SuperbloqueAssumption DEF Bloques
<1>2. b * SIZE_BLOQUE <= (CANTIDAD_BLOQUES - 1) * SIZE_BLOQUE
  BY <1>1, SuperbloqueAssumption
<1>3. (CANTIDAD_BLOQUES - 1) * SIZE_BLOQUE + SIZE_BLOQUE
         = CANTIDAD_BLOQUES * SIZE_BLOQUE
  BY SuperbloqueAssumption
<1>4. /\ b * SIZE_BLOQUE \in Nat
      /\ CANTIDAD_BLOQUES * SIZE_BLOQUE \in Nat
      /\ (CANTIDAD_BLOQUES - 1) * SIZE_BLOQUE \in Int
  BY <1>1, SuperbloqueAssumption
<1> DEFINE x == b * SIZE_BLOQUE
           y == (CANTIDAD_BLOQUES - 1) * SIZE_BLOQUE
           z == CANTIDAD_BLOQUES * SIZE_BLOQUE
<1>5. x + r \in 0 .. (z - 1)
  <2>1. x \in Nat /\ z \in Nat /\ y \in Int /\ x <= y /\ y + SIZE_BLOQUE = z
    BY <1>2, <1>3, <1>4
  <2> HIDE DEF x, y, z
  <2> QED
    BY <1>1, <2>1, SuperbloqueAssumption
<1>6. Abajo(x + r) = b
  BY <1>1, DivisionUnica
<1> QED
  BY <1>5, <1>6 DEF Direcciones

\* The smaller of two numbers.
LEMMA MinDeDos ==
    ASSUME NEW a \in Int, NEW b \in Int
    PROVE  Min({a, b}) = IF a <= b THEN a ELSE b
  BY DEF Min

-----------------------------------------------------------------------------
(* The disk it starts with *)

\* Numbers of blocks and sizes.
LEMMA Numeros ==
    /\ SIZE_BLOQUE \in Nat \ {0} /\ CANTIDAD_BLOQUES \in Nat \ {0}
    /\ 0 \in Bloques /\ Bloques \subseteq Nat /\ FUERA \in Int
    /\ Direcciones \subseteq Nat
<1>1. SIZE_BLOQUE \in Nat \ {0} /\ CANTIDAD_BLOQUES \in Nat \ {0}
  BY SuperbloqueAssumption
<1>2. CANTIDAD_BLOQUES * SIZE_BLOQUE \in Nat
  BY <1>1
<1>3. Direcciones \subseteq Nat
  BY <1>2 DEF Direcciones
<1> QED
  BY <1>1, <1>3 DEF Bloques, FUERA

\* How many blocks a size needs, that of pointers among them.
LEMMA NecesitaValores ==
    ASSUME NEW n \in Nat
    PROVE  /\ Necesita(n) \in Nat
           /\ Arriba(n) > 1 => Necesita(n) = Arriba(n) + 1
           /\ Arriba(n) <= 1 => Necesita(n) = Arriba(n)
           /\ n > 0 <=> Arriba(n) > 0
           /\ n > 0 <=> Necesita(n) > 0
           /\ Arriba(n) > 1 <=> Necesita(n) > 1
<1>1. /\ Arriba(n) \in Nat
      /\ n = 0 => Arriba(n) = 0
      /\ n > 0 => Arriba(n) > 0
  <2>1. n > 0 => Abajo(n - 1) \in Nat
    BY Division
  <2> QED
    BY <2>1, ArribaValores
<1> QED
  BY <1>1 DEF Necesita

\* The blocks that a file has are the first ones of the reparto.
LEMMA SuyosValores ==
    ASSUME NEW bloques \in Seq(Bloques), NEW n \in Nat, n # NoHay,
           Cabe(n, bloques)
    PROVE  /\ Len(Suyos(bloques, n)) = Necesita(n)
           /\ DOMAIN Suyos(bloques, n) = 1 .. Necesita(n)
           /\ \A i \in 1 .. Necesita(n) :
                 /\ Suyos(bloques, n)[i] = bloques[i]
                 /\ i \in DOMAIN bloques /\ bloques[i] \in Bloques
<1>1. Necesita(n) \in Nat /\ Necesita(n) <= Len(bloques) /\ Len(bloques) \in Nat
  BY NecesitaValores, LenProperties DEF Cabe
<1>2. \A i \in 1 .. Necesita(n) : i \in DOMAIN bloques /\ bloques[i] \in Bloques
  BY <1>1, LenProperties, ElementOfSeq
<1>3. /\ SubSeq(bloques, 1, Necesita(n)) \in Seq(Bloques)
      /\ Len(SubSeq(bloques, 1, Necesita(n))) = Necesita(n)
      /\ \A i \in 1 .. Necesita(n) :
            SubSeq(bloques, 1, Necesita(n))[i] = bloques[i]
  BY <1>1, <1>2, SubSeqProperties
<1> QED
  BY <1>1, <1>2, <1>3, LenProperties DEF Suyos

\* What the files of the first disk have, and its words.
LEMMA DiscoInicial ==
    ASSUME NEW r \in Repartos, NEW t \in [Nombres -> Tamanios \cup {NoHay}],
           DiscoDe(r, t)
    PROVE  /\ bitmap \in [Bloques -> BOOLEAN]
           /\ disco \in [Direcciones -> Nat]
           /\ fcbs \in [Nombres -> Fcbs \cup {NoHay}]
           /\ \A f \in Nombres : t[f] # NoHay => fcbs[f] \in Fcbs
<1> DEFINE suyos(f) == Suyos(r[f], t[f])
           punteros == {f \in Nombres : Len(suyos(f)) > 1}
<1>1. ASSUME NEW f \in Nombres
      PROVE  /\ r[f] \in Seq(Bloques)
             /\ t[f] # NoHay => /\ t[f] \in Nat /\ Cabe(t[f], r[f])
                                /\ Len(suyos(f)) = Necesita(t[f])
             /\ t[f] = NoHay => Len(suyos(f)) = 0
  <2>1. r[f] \in Seq(Bloques)
    BY RepartosAssumption
  <2>2. t[f] # NoHay => t[f] \in Nat /\ Cabe(t[f], r[f])
    BY PedidosAssumption DEF DiscoDe
  <2>3. t[f] = NoHay => Len(suyos(f)) = 0
    BY DEF Suyos
  <2> QED
    BY <2>1, <2>2, <2>3, SuyosValores
<1>2. ASSUME NEW f \in punteros
      PROVE  /\ t[f] # NoHay /\ t[f] \in Nat /\ r[f] \in Seq(Bloques)
             /\ Cabe(t[f], r[f]) /\ Necesita(t[f]) > 1
             /\ Len(suyos(f)) = Necesita(t[f])
  BY <1>1
<1>3. ASSUME NEW f \in punteros, NEW i \in Nat, i > 0, i <= Len(suyos(f))
      PROVE  r[f][i] \in Bloques
  <2>1. i \in 1 .. Necesita(t[f])
    BY <1>2, <1>3, NecesitaValores
  <2> QED
    BY <1>2, <2>1, SuyosValores
<1>4. bitmap \in [Bloques -> BOOLEAN]
  BY DEF DiscoDe
<1>5. disco \in [Direcciones -> Nat]
  <2> DEFINE i(d) == (d % SIZE_BLOQUE) + 3
             F(d) == {g \in punteros : r[g][2] = Abajo(d)}
             x(d) == IF F(d) # {} /\ \A g \in F(d) : i(d) <= Len(suyos(g))
                     THEN r[CHOOSE g \in F(d) : TRUE][i(d)]
                     ELSE CANTIDAD_BLOQUES + d
  <2>1. ASSUME NEW d \in Direcciones
        PROVE  x(d) \in Nat
    <3>1. i(d) \in Nat /\ i(d) > 0 /\ d \in Nat
      BY Numeros, Division
    <3>2. CASE F(d) # {} /\ \A g \in F(d) : i(d) <= Len(suyos(g))
      <4>1. PICK g : g = CHOOSE h \in F(d) : TRUE
        OBVIOUS
      <4>2. g \in F(d)
        BY <3>2, <4>1
      <4>3. i(d) <= Len(suyos(g)) /\ g \in punteros
        BY <3>2, <4>2
      <4>4. r[g][i(d)] \in Bloques
        BY <1>3, <3>1, <4>3
      <4> QED
        BY <3>2, <4>1, <4>4, Numeros
    <3>3. CASE ~(F(d) # {} /\ \A g \in F(d) : i(d) <= Len(suyos(g)))
      BY <3>1, <3>3, Numeros
    <3> QED
      BY <3>2, <3>3
  <2>2. disco = [d \in Direcciones |-> x(d)]
    BY DEF DiscoDe
  <2> HIDE DEF x
  <2> QED
    BY <2>1, <2>2
<1>6. /\ fcbs \in [Nombres -> Fcbs \cup {NoHay}]
      /\ \A f \in Nombres : t[f] # NoHay => fcbs[f] \in Fcbs
  <2> DEFINE x(f) == IF t[f] = NoHay THEN NoHay
                     ELSE Fcb(t[f], IF t[f] = 0 THEN 0 ELSE r[f][1],
                                    IF f \in punteros THEN r[f][2] ELSE 0)
  <2>1. ASSUME NEW f \in Nombres, t[f] # NoHay
        PROVE  Fcb(t[f], IF t[f] = 0 THEN 0 ELSE r[f][1],
                         IF f \in punteros THEN r[f][2] ELSE 0) \in Fcbs
    <3>1. t[f] \in Nat /\ r[f] \in Seq(Bloques) /\ Cabe(t[f], r[f])
      BY <1>1, <2>1
    <3>2. t[f] # 0 => r[f][1] \in Bloques
      <4>1. t[f] # 0 => 1 \in 1 .. Necesita(t[f])
        BY <3>1, NecesitaValores
      <4> QED
        BY <2>1, <3>1, <4>1, SuyosValores
    <3>3. f \in punteros => r[f][2] \in Bloques
      BY <1>3, <1>2, NecesitaValores
    <3> QED
      BY <3>1, <3>2, <3>3, Numeros DEF Fcb, Fcbs
  <2>2. fcbs = [f \in Nombres |-> x(f)]
    BY DEF DiscoDe
  <2>3. \A f \in Nombres : /\ x(f) \in Fcbs \cup {NoHay}
                           /\ t[f] # NoHay => x(f) \in Fcbs
    BY <2>1
  <2> HIDE DEF x
  <2> QED
    BY <2>2, <2>3
<1> QED
  BY <1>4, <1>5, <1>6

-----------------------------------------------------------------------------
(* Types *)

\* A request that is being served has its kind in its label.
LEMMA PasoTipos ==
    ASSUME TypeOK
    PROVE  /\ paso # Ocioso => paso.archivo \in Nombres
           /\ paso.que = "ocioso" <=> paso = Ocioso
           /\ paso.que = "escribir" => paso \in PasosDeEscribir
           /\ paso.que \in Truncamientos \ {"cerrar_fcb"} => paso \in PasosDeTruncar
  BY DEF TypeOK, Ocioso, PasosDeCrear, PasosDeTruncar, PasosDeEscribir, Truncamientos

\* The FCB of the file of a request that is being served.
LEMMA ActualTipos ==
    ASSUME TypeOK, PasoPosible, NEW que, En(que), que # "ocioso"
    PROVE  /\ paso # Ocioso /\ paso.archivo \in Nombres
           /\ actual \in FcbsEnMemoria
           /\ actual = [tamanio   |-> actual.tamanio, directo |-> actual.directo,
                        indirecto |-> actual.indirecto,
                        asignados |-> actual.asignados]
<1>1. paso # Ocioso /\ paso.archivo \in Nombres
  BY PasoTipos DEF En
<1>2. actual \in FcbsEnMemoria
  BY <1>1 DEF PasoPosible, TypeOK, actual
<1> QED
  BY <1>1, <1>2 DEF FcbsEnMemoria

\* A stop.
LEMMA SeDetieneTipos ==
    ASSUME TypeOK, SeDetiene, caidas' \in 0 .. MaxCaidas
    PROVE  TypeOK' /\ PasoPosible'
<1>1. roto' \subseteq Nombres /\ perdidos' \subseteq roto'
  <2>1. paso.que \notin {"ocioso", "escribir"} => paso.archivo \in Nombres
    BY PasoTipos DEF Ocioso
  <2> QED
    BY <2>1 DEF SeDetiene, TypeOK
<1> QED
  BY <1>1 DEF SeDetiene, TypeOK, PasoPosible, persistente

\* A bit and the FCB in memory.
LEMMA MarcarTipos ==
    ASSUME TypeOK, paso.archivo \in Nombres, estado = "viva",
           NEW b, NEW bit \in BOOLEAN, NEW fcb \in FcbsEnMemoria,
           NEW siguiente \in PasosDeTruncar,
           siguiente.archivo = paso.archivo,
           siguiente.que = "soltar" =>
              fcb.asignados > 1 /\ fcb.asignados > Arriba(siguiente.tamanio),
           Marcar(b, bit, fcb, siguiente)
    PROVE  TypeOK' /\ PasoPosible'
<1>1. CASE b \in Bloques
  <2>1. /\ bitmap' = [bitmap EXCEPT ![b] = bit]
        /\ dictionaryFcbs' = [dictionaryFcbs EXCEPT ![paso.archivo] = fcb]
        /\ paso' = siguiente
        /\ UNCHANGED <<disco, fcbs, estado, promesas, cuentas>>
    BY <1>1 DEF Marcar
  <2>2. TypeOK'
    BY <2>1 DEF TypeOK, promesas, cuentas
  <2>3. actual' = fcb
    BY <2>1 DEF actual, TypeOK
  <2>4. siguiente.que \in Truncamientos
    BY DEF PasosDeTruncar
  <2>5. PasoPosible'
    BY <2>1, <2>3, <2>4, ValoresAssumption DEF PasoPosible, Truncamientos
  <2> QED
    BY <2>2, <2>5
<1>2. CASE b \notin Bloques
  BY <1>2, SeDetieneTipos DEF Marcar, TypeOK
<1> QED
  BY <1>1, <1>2

\* A request arrives.
LEMMA PideTipos ==
    ASSUME TypeOK, NEW f \in Nombres, Pide(f),
           fcbs' \in [Nombres -> Fcbs \cup {NoHay, Vacio}],
           dictionaryFcbs' \in [Nombres -> FcbsEnMemoria \cup {NoHay}],
           dictionaryFcbs'[f] # NoHay,
           roto' \subseteq Nombres, perdidos' \subseteq roto',
           paso' \in PasosDeCrear \cup PasosDeTruncar \cup PasosDeEscribir,
           paso'.archivo = f,
           paso'.que = "soltar" =>
              /\ dictionaryFcbs'[f].asignados > 1
              /\ dictionaryFcbs'[f].asignados > Arriba(paso'.tamanio),
           paso'.que = "escribir" =>
              paso'.desde <= paso'.puntero /\ paso'.puntero < paso'.fin
    PROVE  TypeOK' /\ PasoPosible'
<1>1. TypeOK'
  BY PedidosAssumption DEF Pide, TypeOK
<1>2. PasoPosible'
  BY DEF Pide, PasoPosible, actual
<1> QED
  BY <1>1, <1>2

\* KERNEL_CREAR_ARCHIVO
LEMMA CrearArchivoTipos ==
    ASSUME TypeOK, NEW f \in Nombres, CrearArchivo(f)
    PROVE  TypeOK' /\ PasoPosible'
<1>1. PICK basura \in Bloques \cup {FUERA} :
        dictionaryFcbs' = [dictionaryFcbs EXCEPT ![f] = crear_fcb_inicial(basura)]
  BY DEF CrearArchivo
<1>2. crear_fcb_inicial(basura) \in FcbsEnMemoria
  BY Numeros DEF crear_fcb_inicial, FcbEnMemoria, FcbsEnMemoria
<1>3. /\ dictionaryFcbs' \in [Nombres -> FcbsEnMemoria \cup {NoHay}]
      /\ dictionaryFcbs'[f] # NoHay
      /\ fcbs' \in [Nombres -> Fcbs \cup {NoHay, Vacio}]
      /\ roto' \subseteq Nombres /\ perdidos' \subseteq roto'
  BY <1>1, <1>2, ValoresAssumption DEF TypeOK, CrearArchivo, promesas
<1>4. paso' = [que |-> "cerrar_fcb", archivo |-> f, antes |-> NoHay]
  BY DEF CrearArchivo
<1>5. paso' \in PasosDeCrear /\ paso'.archivo = f /\ paso'.que = "cerrar_fcb"
  BY <1>4 DEF PasosDeCrear
<1> QED
  BY <1>3, <1>5, PideTipos DEF CrearArchivo

\* I_TRUNCATE
LEMMA TruncarTipos ==
    ASSUME TypeOK, NEW f \in Nombres, NEW tamanio \in Nat, Truncar(f, tamanio)
    PROVE  TypeOK' /\ PasoPosible'
<1> DEFINE fcb == dictionaryFcbs[f]
<1>1. PICK que \in Truncamientos :
        /\ paso' = Truncado(f, tamanio, que)
        /\ que = "soltar" => fcb.asignados > Arriba(tamanio)
                             /\ ~(tamanio = 0 /\ fcb.asignados = 1)
  BY DEF Truncar, Reducir, Mantener, Ampliar, Truncamientos
<1>2. /\ Pide(f) /\ fcb # NoHay
      /\ UNCHANGED <<fcbs, dictionaryFcbs>>
      /\ roto' \subseteq Nombres /\ perdidos' \subseteq roto'
  BY DEF Truncar, Reducir, Mantener, Ampliar, existe_archivo, Arriesga, promesas,
         TypeOK
<1>3. fcb \in FcbsEnMemoria /\ fcb.asignados \in Nat
  BY <1>2 DEF TypeOK, FcbsEnMemoria
<1>4. /\ paso' \in PasosDeTruncar
      /\ paso'.archivo = f /\ paso'.que = que /\ paso'.tamanio = tamanio
  BY <1>1, <1>3, EmptySeq DEF Truncado, PasosDeTruncar
<1>5. que = "soltar" => fcb.asignados > 1 /\ fcb.asignados > Arriba(tamanio)
  BY <1>1, <1>3, NecesitaValores, ArribaValores
<1>6. que # "escribir"
  BY DEF Truncamientos
<1> QED
  BY <1>2, <1>4, <1>5, <1>6, PideTipos DEF TypeOK

\* The blocks given back, one by one.
LEMMA SoltarTipos ==
    ASSUME TypeOK, PasoPosible, Soltar
    PROVE  TypeOK' /\ PasoPosible'
<1> DEFINE quedan == actual.asignados - 1
           que == CASE quedan = 1 -> "soltar_indirecto"
                    [] quedan > 1 /\ quedan = Arriba(paso.tamanio) -> "abrir_fcb"
                    [] OTHER -> "soltar"
           fcb == [actual EXCEPT !.asignados = quedan]
<1>1. /\ En("soltar") /\ paso \in PasosDeTruncar
      /\ paso.archivo \in Nombres /\ actual \in FcbsEnMemoria
  BY PasoTipos, ActualTipos DEF Soltar, En, Truncamientos
<1>2. /\ actual.asignados \in Nat /\ actual.asignados > 1
      /\ actual.asignados > Arriba(paso.tamanio)
      /\ Arriba(paso.tamanio) \in Nat
  BY <1>1, ActualTipos, ArribaValores
     DEF PasoPosible, En, FcbsEnMemoria, PasosDeTruncar
<1>3. fcb \in FcbsEnMemoria /\ fcb.asignados = quedan
  BY <1>1, <1>2 DEF FcbsEnMemoria
<1>4. que = "soltar" => quedan > 1 /\ quedan > Arriba(paso.tamanio)
  BY <1>2
<1>5. que \in Truncamientos
  BY DEF Truncamientos
<1>6. /\ A(que) \in PasosDeTruncar /\ A(que).archivo = paso.archivo
      /\ A(que).que = que /\ A(que).tamanio = paso.tamanio
  BY <1>1, <1>5 DEF A, PasosDeTruncar
<1>7. Marcar(Puntero(actual, quedan - 1), FALSE, fcb, A(que))
  BY DEF Soltar
<1>8. estado = "viva"
  BY DEF Soltar, En
<1> HIDE DEF que, fcb, quedan
<1> QED
  BY <1>1, <1>3, <1>4, <1>6, <1>7, <1>8, MarcarTipos

\* The block of pointers and the direct one, given back or taken.
LEMMA MarcarOtrosTipos ==
    ASSUME TypeOK, PasoPosible,
           SoltarIndirecto \/ SoltarDirecto \/ TomarDirecto \/ TomarIndirecto
    PROVE  TypeOK' /\ PasoPosible'
<1>1. /\ En("soltar_indirecto") \/ En("soltar_directo")
         \/ En("tomar_directo") \/ En("tomar_indirecto")
      /\ paso \in PasosDeTruncar /\ estado = "viva"
  BY PasoTipos
     DEF SoltarIndirecto, SoltarDirecto, TomarDirecto, TomarIndirecto, En,
         Truncamientos
<1>2. /\ paso.archivo \in Nombres /\ actual \in FcbsEnMemoria
      /\ actual.asignados \in Nat
  BY <1>1, ActualTipos DEF FcbsEnMemoria
<1>3. ASSUME NEW que \in Truncamientos
      PROVE  /\ A(que) \in PasosDeTruncar /\ A(que).archivo = paso.archivo
             /\ A(que).que = que
  BY <1>1, <1>3 DEF A, PasosDeTruncar
<1>4. ASSUME NEW b, NEW bit \in BOOLEAN, NEW que \in Truncamientos \ {"soltar"},
             NEW fcb, b \in Bloques => fcb \in FcbsEnMemoria,
             Marcar(b, bit, fcb, A(que))
      PROVE  TypeOK' /\ PasoPosible'
  <2>1. CASE b \in Bloques
    BY <1>1, <1>2, <1>3, <1>4, <2>1, MarcarTipos
  <2>2. CASE b \notin Bloques
    BY <1>4, <2>2, SeDetieneTipos DEF Marcar, TypeOK
  <2> QED
    BY <2>1, <2>2
<1>5. CASE SoltarIndirecto
  <2>1. [actual EXCEPT !.indirecto = 0] \in FcbsEnMemoria
    BY <1>2, Numeros DEF FcbsEnMemoria
  <2> DEFINE que == IF paso.tamanio = 0 THEN "soltar_directo" ELSE "abrir_fcb"
  <2>2. que \in Truncamientos \ {"soltar"}
    BY DEF Truncamientos
  <2>3. Marcar(actual.indirecto, FALSE, [actual EXCEPT !.indirecto = 0], A(que))
    BY <1>5 DEF SoltarIndirecto
  <2> HIDE DEF que
  <2> QED
    BY <1>4, <2>1, <2>2, <2>3
<1>6. CASE SoltarDirecto
  <2>1. [actual EXCEPT !.directo = 0, !.asignados = 0] \in FcbsEnMemoria
    BY <1>2, Numeros DEF FcbsEnMemoria
  <2>2. "abrir_fcb" \in Truncamientos \ {"soltar"}
    BY DEF Truncamientos
  <2>3. Marcar(actual.directo, FALSE,
               [actual EXCEPT !.directo = 0, !.asignados = 0], A("abrir_fcb"))
    BY <1>6 DEF SoltarDirecto
  <2> QED
    BY <1>4, <2>1, <2>2, <2>3
<1>7. CASE TomarDirecto
  <2> DEFINE b == bitmap_encontrar_bloque_libre
             solo == paso.tamanio <= SIZE_BLOQUE
             fcb == [actual EXCEPT !.asignados = b + (IF solo THEN 2 ELSE 1)]
             que == IF solo THEN "abrir_fcb" ELSE "tomar_indirecto"
  <2>1. b \in Bloques => fcb \in FcbsEnMemoria
    <3>1. b \in Bloques => b + (IF solo THEN 2 ELSE 1) \in Nat
      BY Numeros
    <3> QED
      BY <1>2, <3>1 DEF FcbsEnMemoria
  <2>2. que \in Truncamientos \ {"soltar"}
    BY DEF Truncamientos
  <2>3. Marcar(b, TRUE, fcb, A(que))
    BY <1>7 DEF TomarDirecto
  <2> HIDE DEF b, fcb, que
  <2> QED
    BY <1>4, <2>1, <2>2, <2>3
<1>8. CASE TomarIndirecto
  <2> DEFINE b == bitmap_encontrar_bloque_libre
             fcb == [actual EXCEPT !.indirecto = b, !.asignados = @ + 1]
  <2>1. b \in Bloques => fcb \in FcbsEnMemoria
    <3>1. /\ actual.asignados + 1 \in Nat
          /\ b \in Bloques => [actual EXCEPT !.indirecto = b] \in FcbsEnMemoria
      BY <1>2 DEF FcbsEnMemoria
    <3> QED
      BY <3>1 DEF FcbsEnMemoria
  <2>2. "tomar" \in Truncamientos \ {"soltar"}
    BY DEF Truncamientos
  <2>3. Marcar(b, TRUE, fcb, A("tomar"))
    BY <1>8 DEF TomarIndirecto
  <2> HIDE DEF b, fcb
  <2> QED
    BY <1>4, <2>1, <2>2, <2>3
<1> QED
  BY <1>5, <1>6, <1>7, <1>8

\* The blocks taken one by one, and their numbers.
LEMMA TomarTipos ==
    ASSUME TypeOK, PasoPosible, Tomar
    PROVE  TypeOK' /\ PasoPosible'
<1> DEFINE b == bitmap_encontrar_bloque_libre
           siguiente == [paso EXCEPT !.tomados = Append(@, b)]
<1>1. /\ En("tomar") /\ paso \in PasosDeTruncar /\ estado = "viva"
      /\ paso.que = "tomar" /\ paso.tomados \in Seq(Bloques)
  BY PasoTipos DEF Tomar, En, Truncamientos, PasosDeTruncar
<1>2. paso.archivo \in Nombres /\ actual \in FcbsEnMemoria
  BY <1>1, ActualTipos
<1>3. Marcar(b, TRUE, actual, siguiente)
  BY DEF Tomar
<1>4. CASE b \in Bloques
  <2>1. Append(paso.tomados, b) \in Seq(Bloques)
    BY <1>1, <1>4, AppendProperties
  <2>2. /\ siguiente \in PasosDeTruncar /\ siguiente.archivo = paso.archivo
        /\ siguiente.que = "tomar"
    BY <1>1, <2>1 DEF PasosDeTruncar
  <2> HIDE DEF b, siguiente
  <2> QED
    BY <1>1, <1>2, <1>3, <2>2, MarcarTipos
<1>5. CASE b \notin Bloques
  BY <1>3, <1>5, SeDetieneTipos DEF Marcar, TypeOK
<1> QED
  BY <1>4, <1>5

\* Words written to the disk.
LEMMA EscritoTipos ==
    ASSUME disco \in [Direcciones -> Nat], NEW desde, NEW palabras,
           \A i \in DOMAIN palabras : palabras[i] \in Nat
    PROVE  Escrito(desde, palabras) \in [Direcciones -> Nat]
  BY DEF Escrito

\* asignar_bloques, when its file is closed
LEMMA EscribirPunterosTipos ==
    ASSUME TypeOK, PasoPosible, EscribirPunteros
    PROVE  TypeOK' /\ PasoPosible'
<1>1. /\ En("tomar") /\ paso \in PasosDeTruncar /\ estado = "viva"
      /\ paso.que = "tomar" /\ paso.tomados \in Seq(Bloques)
  BY PasoTipos DEF EscribirPunteros, En, Truncamientos, PasosDeTruncar
<1>2. paso # Ocioso /\ paso.archivo \in Nombres
  BY <1>1, ActualTipos
<1>3. \A i \in DOMAIN paso.tomados : paso.tomados[i] \in Nat
  BY <1>1, LenProperties, ElementOfSeq, Numeros
<1>4. disco' \in [Direcciones -> Nat]
  BY <1>3, EscritoTipos DEF EscribirPunteros, TypeOK
<1>5. paso' = A("abrir_fcb") /\ A("abrir_fcb") \in PasosDeTruncar
  BY <1>1 DEF EscribirPunteros, A, PasosDeTruncar, Truncamientos
<1>6. TypeOK'
  <2>1. roto' \in {roto, Nombres} /\ perdidos' = perdidos
    BY DEF EscribirPunteros
  <2> QED
    BY <1>4, <1>5, <2>1 DEF EscribirPunteros, TypeOK, cuentas
<1>7. paso'.archivo = paso.archivo /\ paso'.que = "abrir_fcb"
  BY <1>1, <1>5 DEF A, PasosDeTruncar
<1>8. PasoPosible'
  BY <1>1, <1>2, <1>7 DEF EscribirPunteros, PasoPosible, actual
<1> QED
  BY <1>6, <1>8

\* persistir_fcb
LEMMA AbrirFcbTipos ==
    ASSUME TypeOK, PasoPosible, AbrirFcb
    PROVE  TypeOK' /\ PasoPosible'
<1>1. /\ En("abrir_fcb") /\ paso \in PasosDeTruncar /\ estado = "viva"
      /\ paso.tamanio \in Nat
  BY PasoTipos DEF AbrirFcb, En, Truncamientos, PasosDeTruncar
<1>2. paso.archivo \in Nombres /\ actual \in FcbsEnMemoria
  BY <1>1, ActualTipos
<1> DEFINE fcb == [actual EXCEPT !.tamanio = paso.tamanio]
<1>3. fcb \in FcbsEnMemoria
  BY <1>1, <1>2 DEF FcbsEnMemoria
<1>4. dictionaryFcbs' = [dictionaryFcbs EXCEPT ![paso.archivo] = fcb]
  BY <1>2 DEF AbrirFcb, actual
<1>5. /\ paso' = A("cerrar_fcb") /\ A("cerrar_fcb") \in PasosDeTruncar
      /\ paso'.archivo = paso.archivo /\ paso'.que = "cerrar_fcb"
  BY <1>1 DEF AbrirFcb, A, PasosDeTruncar, Truncamientos
<1> HIDE DEF fcb
<1>6. TypeOK'
  BY <1>2, <1>3, <1>4, <1>5 DEF AbrirFcb, TypeOK, promesas, cuentas
<1>7. actual' = fcb
  BY <1>2, <1>4, <1>5 DEF actual, TypeOK
<1>8. PasoPosible'
  BY <1>1, <1>3, <1>5, <1>7, ValoresAssumption DEF AbrirFcb, PasoPosible
<1> QED
  BY <1>6, <1>8

\* persistir_fcb, at fclose
LEMMA CerrarFcbTipos ==
    ASSUME TypeOK, PasoPosible, CerrarFcb
    PROVE  TypeOK' /\ PasoPosible'
<1>1. En("cerrar_fcb")
  BY DEF CerrarFcb
<1>2. paso.archivo \in Nombres /\ actual \in FcbsEnMemoria
  BY <1>1, ActualTipos
<1>3. Fcb(actual.tamanio, actual.directo, actual.indirecto) \in Fcbs
  BY <1>2 DEF Fcb, Fcbs, FcbsEnMemoria
<1>4. TypeOK'
  BY <1>2, <1>3 DEF CerrarFcb, TypeOK, promesas, cuentas
<1> QED
  BY <1>4 DEF CerrarFcb, PasoPosible

\* A word of the disk, or none, is a number.
LEMMA PalabraTipos ==
    ASSUME disco \in [Direcciones -> Nat], NEW d
    PROVE  Palabra(d) \in Int
  BY DEF Palabra, BASURA

\* A block of a file is a number, of a block or not.
LEMMA BloqueTipos ==
    ASSUME disco \in [Direcciones -> Nat], NEW fcb, fcb.directo \in Int, NEW n
    PROVE  Bloque(fcb, n) \in Int
  BY PalabraTipos DEF Bloque, Puntero

\* What the fields of an FCB are.
LEMMA FcbTipos ==
    ASSUME NEW fcb \in Fcbs \cup FcbsEnMemoria
    PROVE  /\ fcb.directo \in Int /\ fcb.tamanio \in Nat
           /\ fcb.indirecto \in Bloques /\ fcb.directo \in Bloques \cup {FUERA}
           /\ fcb # NoHay
<1>1. fcb # NoHay
  BY ValoresAssumption
<1>2. /\ fcb.tamanio \in Nat /\ fcb.indirecto \in Bloques
      /\ fcb.directo \in Bloques \cup {FUERA}
  BY DEF Fcbs, FcbsEnMemoria
<1>3. \A x \in Bloques \cup {FUERA} : x \in Int
  BY Numeros
<1> QED
  BY <1>1, <1>2, <1>3

\* I_F_WRITE
LEMMA EscribirArchivoTipos ==
    ASSUME TypeOK, NEW f \in Nombres, NEW puntero \in Nat, NEW n \in Nat \ {0},
           NEW dato \in Nat, EscribirArchivo(f, puntero, n, dato)
    PROVE  TypeOK' /\ PasoPosible'
<1>1. dictionaryFcbs[f] \in FcbsEnMemoria /\ dictionaryFcbs[f] # NoHay
  BY DEF EscribirArchivo, existe_archivo, TypeOK
<1> DEFINE bloque == obtener_bloque_absoluto(dictionaryFcbs[f], puntero)
           p == [que |-> "escribir", archivo |-> f, puntero |-> puntero,
                 desde |-> puntero, fin |-> puntero + n, dato |-> dato,
                 bloque |-> bloque]
<1>2. bloque \in Int
  BY <1>1, FcbTipos, BloqueTipos DEF obtener_bloque_absoluto, TypeOK
<1>3. /\ paso' \in PasosDeEscribir /\ paso'.archivo = f /\ paso'.que = "escribir"
      /\ paso'.desde = puntero /\ paso'.puntero = puntero
      /\ paso'.fin = puntero + n
  <2>1. paso' = p
    BY DEF EscribirArchivo
  <2> HIDE DEF bloque
  <2>2. p \in PasosDeEscribir
    BY <1>2 DEF PasosDeEscribir
  <2> QED
    BY <2>1, <2>2
<1>4. /\ roto' \subseteq Nombres /\ perdidos' \subseteq roto'
      /\ UNCHANGED <<fcbs, dictionaryFcbs>>
  BY DEF EscribirArchivo, Arriesga, TypeOK
<1> QED
  BY <1>1, <1>3, <1>4, PideTipos DEF EscribirArchivo, TypeOK

\* What an iteration writes stays in a block and in the request.
LEMMA IteracionValores ==
    ASSUME TypeOK, PasoPosible, En("escribir"),
           NEW n, n = Min({paso.fin - paso.puntero,
                           SIZE_BLOQUE - (paso.puntero % SIZE_BLOQUE)})
    PROVE  /\ paso \in PasosDeEscribir
           /\ paso.puntero % SIZE_BLOQUE \in 0 .. (SIZE_BLOQUE - 1)
           /\ n \in Nat /\ n > 0 /\ paso.puntero + n <= paso.fin
           /\ (paso.puntero % SIZE_BLOQUE) + n <= SIZE_BLOQUE
           /\ paso.puntero + n < paso.fin
                 => (paso.puntero % SIZE_BLOQUE) + n = SIZE_BLOQUE
           /\ paso.desde <= paso.puntero /\ paso.puntero < paso.fin
           /\ paso # Ocioso
<1>1. /\ paso \in PasosDeEscribir /\ paso # Ocioso
      /\ {paso.fin, paso.puntero, paso.desde} \subseteq Nat
      /\ paso.desde <= paso.puntero /\ paso.puntero < paso.fin
  BY PasoTipos, ActualTipos DEF En, PasoPosible, PasosDeEscribir
<1>2. paso.puntero % SIZE_BLOQUE \in 0 .. (SIZE_BLOQUE - 1)
  BY <1>1, Division
<1> DEFINE lugar == paso.puntero % SIZE_BLOQUE
<1> HIDE DEF lugar
<1>3. /\ paso.fin - paso.puntero \in Int /\ SIZE_BLOQUE - lugar \in Int
      /\ lugar \in 0 .. (SIZE_BLOQUE - 1)
  BY <1>1, <1>2, Numeros DEF lugar
<1>4. n = IF paso.fin - paso.puntero <= SIZE_BLOQUE - lugar
          THEN paso.fin - paso.puntero ELSE SIZE_BLOQUE - lugar
  BY <1>3, MinDeDos DEF lugar
<1>5. /\ n \in Nat /\ n > 0 /\ paso.puntero + n <= paso.fin
      /\ lugar + n <= SIZE_BLOQUE
      /\ paso.puntero + n < paso.fin => lugar + n = SIZE_BLOQUE
  BY <1>1, <1>3, <1>4, Numeros
<1> QED
  BY <1>1, <1>2, <1>5 DEF lugar

\* An iteration of escribir_archivo
LEMMA EscribirEnBloqueTipos ==
    ASSUME TypeOK, PasoPosible, EscribirEnBloque
    PROVE  TypeOK' /\ PasoPosible'
<1> DEFINE b == IF paso.puntero = paso.desde THEN paso.bloque
                ELSE buscar_siguiente_bloque(actual, paso.bloque)
           lugar == paso.puntero % SIZE_BLOQUE
           n == Min({paso.fin - paso.puntero, SIZE_BLOQUE - lugar})
           palabras == [i \in 1 .. n |-> paso.dato + paso.puntero - paso.desde + i - 1]
<1>1. /\ En("escribir")
      /\ disco' = Escrito(b * SIZE_BLOQUE + lugar, palabras)
      /\ paso' = IF paso.puntero + n = paso.fin THEN Ocioso
                 ELSE [paso EXCEPT !.puntero = @ + n, !.bloque = b]
      /\ UNCHANGED <<bitmap, fcbs, dictionaryFcbs, estado, promesas, cuentas>>
  BY DEF EscribirEnBloque
<1>2. /\ paso \in PasosDeEscribir /\ n \in Nat /\ n > 0
      /\ paso.puntero + n <= paso.fin
      /\ paso.desde <= paso.puntero /\ paso # Ocioso
  BY <1>1, IteracionValores
<1>3. /\ {paso.dato, paso.puntero, paso.desde, paso.fin} \subseteq Nat
      /\ paso.bloque \in Int /\ paso.archivo \in Nombres
  BY <1>2 DEF PasosDeEscribir
<1>4. actual \in FcbsEnMemoria
  BY <1>1, ActualTipos
<1>5. b \in Int
  <2>1. buscar_siguiente_bloque(actual, paso.bloque) \in Int
    <3>1. Puntero(actual, 0) \in Int
      BY PalabraTipos DEF Puntero, TypeOK
    <3> QED
      BY <1>3, <3>1 DEF buscar_siguiente_bloque, TypeOK
  <2> QED
    BY <1>3, <2>1
<1> HIDE DEF b, n
<1>6. disco' \in [Direcciones -> Nat]
  <2>1. \A i \in DOMAIN palabras : palabras[i] \in Nat
    BY <1>2, <1>3
  <2> QED
    BY <1>1, <2>1, EscritoTipos DEF TypeOK
<1>7. CASE paso.puntero + n = paso.fin
  BY <1>1, <1>6, <1>7 DEF TypeOK, PasoPosible, promesas, cuentas
<1>8. CASE paso.puntero + n # paso.fin
  <2>1. paso' = [paso EXCEPT !.puntero = paso.puntero + n, !.bloque = b]
    BY <1>1, <1>8
  <2>2. paso.puntero + n \in Nat
    BY <1>2, <1>3
  <2>3. paso' \in PasosDeEscribir
    BY <1>2, <1>5, <2>1, <2>2 DEF PasosDeEscribir
  <2>4. /\ paso'.archivo = paso.archivo /\ paso'.desde = paso.desde
        /\ paso'.puntero = paso.puntero + n /\ paso'.fin = paso.fin
        /\ paso'.que = "escribir"
    BY <1>2, <2>1 DEF PasosDeEscribir
  <2>5. TypeOK'
    BY <1>1, <1>6, <2>3 DEF TypeOK, promesas, cuentas
  <2>6. paso'.desde <= paso'.puntero /\ paso'.puntero < paso'.fin
    BY <1>2, <1>3, <1>8, <2>4
  <2>7. PasoPosible'
    BY <1>1, <1>2, <2>4, <2>6 DEF PasoPosible, actual, En
  <2> QED
    BY <2>5, <2>7
<1> QED
  BY <1>7, <1>8

\* abrir_fcbs
LEMMA IniciarTipos ==
    ASSUME TypeOK, PasoPosible, Iniciar
    PROVE  TypeOK' /\ PasoPosible'
<1>1. paso = Ocioso /\ paso' = Ocioso
  BY DEF PasoPosible, Iniciar
<1>2. CASE Vacio \in Range(fcbs)
  BY <1>1, <1>2 DEF Iniciar, TypeOK, PasoPosible, persistente, promesas,
     cuentas
<1>3. CASE Vacio \notin Range(fcbs)
  <2>1. ASSUME NEW f \in Nombres
        PROVE  cargar_fcb(fcbs[f]) \in FcbsEnMemoria \cup {NoHay}
    <3>1. fcbs[f] \in Fcbs \cup {NoHay}
      <4>1. fcbs[f] \in Range(fcbs)
        BY DEF Range, TypeOK
      <4> QED
        BY <1>3, <4>1 DEF TypeOK
    <3>2. CASE fcbs[f] \in Fcbs
      <4>1. fcbs[f].tamanio \in Nat /\ Arriba(fcbs[f].tamanio) \in Nat
        BY <3>2, FcbTipos, ArribaValores
      <4> QED
        BY <3>2, <4>1, FcbTipos DEF cargar_fcb, FcbEnMemoria, FcbsEnMemoria
    <3> QED
      BY <3>1, <3>2 DEF cargar_fcb
  <2>2. dictionaryFcbs' = [f \in Nombres |-> cargar_fcb(fcbs[f])]
    BY <1>3 DEF Iniciar
  <2>3. dictionaryFcbs' \in [Nombres -> FcbsEnMemoria \cup {NoHay}]
    BY <2>1, <2>2
  <2> QED
    BY <1>1, <1>3, <2>3 DEF Iniciar, TypeOK, PasoPosible, persistente, promesas,
     cuentas
<1> QED
  BY <1>2, <1>3

\* Every step keeps the types.
LEMMA TiposPaso ==
    ASSUME TypeOK, PasoPosible, [Next]_vars
    PROVE  TypeOK' /\ PasoPosible'
<1>1. CASE Iniciar
  BY <1>1, IniciarTipos
<1>2. CASE Caer
  <2>1. caidas' \in 0 .. MaxCaidas
    BY <1>2, PedidosAssumption DEF Caer, TypeOK
  <2> QED
    BY <1>2, <2>1, SeDetieneTipos DEF Caer
<1>3. ASSUME NEW f \in Nombres, CrearArchivo(f)
      PROVE  TypeOK' /\ PasoPosible'
  BY <1>3, CrearArchivoTipos
<1>4. ASSUME NEW f \in Nombres, NEW t \in Tamanios, Truncar(f, t)
      PROVE  TypeOK' /\ PasoPosible'
  BY <1>4, TruncarTipos, PedidosAssumption
<1>5. ASSUME NEW f \in Nombres, NEW n \in Largos, LeerArchivo(f, n)
      PROVE  TypeOK' /\ PasoPosible'
  BY <1>5, SeDetieneTipos DEF LeerArchivo, TypeOK
<1>6. ASSUME NEW f \in Nombres, NEW n \in Largos, NEW p \in Posiciones,
             EscribirArchivo(f, p, n, CANTIDAD_BLOQUES * (SIZE_BLOQUE + 1))
      PROVE  TypeOK' /\ PasoPosible'
  <2>1. CANTIDAD_BLOQUES * (SIZE_BLOQUE + 1) \in Nat
    BY Numeros
  <2> QED
    BY <1>6, <2>1, EscribirArchivoTipos, PedidosAssumption
<1>7. CASE Soltar \/ Tomar \/ EscribirPunteros \/ AbrirFcb \/ CerrarFcb
  BY <1>7, SoltarTipos, TomarTipos, EscribirPunterosTipos, AbrirFcbTipos,
     CerrarFcbTipos
<1>8. CASE SoltarIndirecto \/ SoltarDirecto \/ TomarDirecto \/ TomarIndirecto
  BY <1>8, MarcarOtrosTipos
<1>9. CASE EscribirEnBloque
  BY <1>9, EscribirEnBloqueTipos
<1>10. CASE UNCHANGED vars
  BY <1>10 DEF vars, persistente, promesas, cuentas, TypeOK, PasoPosible, actual
<1> QED
  BY <1>1, <1>2, <1>3, <1>4, <1>5, <1>6, <1>7, <1>8, <1>9, <1>10 DEF Next

\* It starts well.
LEMMA TiposInicial == Init => TypeOK /\ PasoPosible
<1> SUFFICES ASSUME Init
             PROVE  TypeOK /\ PasoPosible
  OBVIOUS
<1>1. /\ bitmap \in [Bloques -> BOOLEAN]
      /\ disco \in [Direcciones -> Nat]
      /\ fcbs \in [Nombres -> Fcbs \cup {NoHay}]
  BY DiscoInicial DEF Init
<1> QED
  BY <1>1, PedidosAssumption DEF Init, TypeOK, PasoPosible

\* The structures on disk and in memory, and the request that is being served,
\* have their types.  A number read from a block of pointers may be any.
THEOREM TypeOKTeorema == Spec => []TypeOK
  BY TiposInicial, TiposPaso, PTL DEF Spec

\* A request has a file, and stops before it gives back a block too many or
\* writes a word too many.
THEOREM PasoPosibleTeorema == Spec => []PasoPosible
  BY TiposInicial, TiposPaso, PTL DEF Spec

-----------------------------------------------------------------------------
(* Positions *)

\* The first word of a block.
LEMMA Producto ==
    /\ \A q \in Nat : q * SIZE_BLOQUE \in Nat
    /\ \A q \in Int : q * SIZE_BLOQUE \in Int
  BY Numeros

\* Positions of one block are consecutive in the disk.
LEMMA MismoBloque ==
    ASSUME NEW p \in Nat, NEW k \in Nat, (p % SIZE_BLOQUE) + k < SIZE_BLOQUE
    PROVE  /\ Abajo(p + k) = Abajo(p)
           /\ (p + k) % SIZE_BLOQUE = (p % SIZE_BLOQUE) + k
<1> DEFINE q == Abajo(p)
           r == p % SIZE_BLOQUE
<1>1. /\ q \in Nat /\ r \in 0 .. (SIZE_BLOQUE - 1) /\ p = q * SIZE_BLOQUE + r
      /\ q * SIZE_BLOQUE \in Nat
  BY Division, Producto
<1>2. r + k \in 0 .. (SIZE_BLOQUE - 1)
  BY <1>1, Numeros
<1> HIDE DEF q, r
<1>3. p + k = q * SIZE_BLOQUE + (r + k)
  BY <1>1, Numeros
<1>4. Abajo(p + k) = q /\ (p + k) % SIZE_BLOQUE = r + k
  BY <1>1, <1>2, <1>3, DivisionUnica
<1> QED
  BY <1>4 DEF q, r

\* And so are their addresses.
LEMMA PosicionEnBloque ==
    ASSUME NEW fcb, NEW p \in Nat, NEW k \in Nat,
           (p % SIZE_BLOQUE) + k < SIZE_BLOQUE,
           Bloque(fcb, Abajo(p)) \in Int
    PROVE  obtener_posicion_absoluta(fcb, p + k)
              = obtener_posicion_absoluta(fcb, p) + k
<1>1. /\ Abajo(p + k) = Abajo(p)
      /\ (p + k) % SIZE_BLOQUE = (p % SIZE_BLOQUE) + k
  BY MismoBloque
<1>2. p % SIZE_BLOQUE \in Nat
  BY Division, Numeros
<1> DEFINE x == Bloque(fcb, Abajo(p)) * SIZE_BLOQUE
           r == p % SIZE_BLOQUE
<1>3. /\ obtener_posicion_absoluta(fcb, p) = x + r
      /\ obtener_posicion_absoluta(fcb, p + k) = x + (r + k)
  BY <1>1 DEF obtener_posicion_absoluta, obtener_bloque_absoluto
<1>4. x \in Int /\ r \in Nat
  BY <1>2, Producto
<1> HIDE DEF x, r
<1> QED
  BY <1>3, <1>4

-----------------------------------------------------------------------------
(* The blocks of an FCB *)

EsFcb(x) == x \in Fcbs \cup FcbsEnMemoria

\* How many blocks of data it has
Numero(x) == Arriba(x.tamanio)

\* The first n blocks of an FCB, and that of pointers on a condition.
Primeros(x, n, condicion) ==
    {Bloque(x, i) : i \in 0 .. (n - 1)}
    \cup (IF condicion THEN {x.indirecto} ELSE {})

\* They are different.
Distintos(x) ==
    /\ \A i, j \in 0 .. (Numero(x) - 1) : Bloque(x, i) = Bloque(x, j) => i = j
    /\ Numero(x) > 1 =>
          \A i \in 0 .. (Numero(x) - 1) : Bloque(x, i) # x.indirecto

\* y has blocks of x, the first ones.
Hereda(y, x) ==
    \/ y \in {NoHay, Vacio}
    \/ Numero(y) = 0
    \/ /\ EsFcb(x) /\ Numero(y) <= Numero(x)
       /\ y.directo = x.directo
       /\ Numero(y) > 1 => y.indirecto = x.indirecto

\* An FCB has a number of blocks of data.
LEMMA NumeroNat ==
    ASSUME NEW x, EsFcb(x)
    PROVE  Numero(x) \in Nat
  BY FcbTipos, ArribaValores DEF EsFcb, Numero

\* BloquesDe as a set: the blocks of data, and that of pointers.
LEMMA BloquesDeValores ==
    ASSUME NEW x, EsFcb(x)
    PROVE  /\ Range(BloquesDe(x)) = Primeros(x, Numero(x), Numero(x) > 1)
           /\ IsInjective(BloquesDe(x)) <=> Distintos(x)
<1> DEFINE n == Numero(x)
           s == BloquesDe(x)
           m == Necesita(x.tamanio)
<1>1. /\ n \in Nat /\ m \in Nat
      /\ n > 1 => m = n + 1
      /\ n <= 1 => m = n
  BY NumeroNat, NecesitaValores, FcbTipos DEF EsFcb, Numero
<1>2. s = [i \in 1 .. m |-> IF i <= n THEN Bloque(x, i - 1) ELSE x.indirecto]
  BY ValoresAssumption DEF BloquesDe, EsFcb, Numero
<1> HIDE DEF n, s, m
<1>3. /\ DOMAIN s = 1 .. m
      /\ \A i \in 0 .. (n - 1) : i + 1 \in 1 .. m /\ s[i + 1] = Bloque(x, i)
      /\ n > 1 => n + 1 \in 1 .. m /\ s[n + 1] = x.indirecto
      /\ \A i \in 1 .. m : (i - 1 \in 0 .. (n - 1) /\ s[i] = Bloque(x, i - 1))
                           \/ (n > 1 /\ i = n + 1 /\ s[i] = x.indirecto)
  BY <1>1, <1>2
<1>4. Range(s) = Primeros(x, n, n > 1)
  <2>1. ASSUME NEW i \in 1 .. m
        PROVE  s[i] \in Primeros(x, n, n > 1)
    BY <1>3 DEF Primeros
  <2>2. ASSUME NEW b \in Primeros(x, n, n > 1)
        PROVE  b \in Range(s)
    BY <1>3 DEF Primeros, Range
  <2> QED
    BY <1>3, <2>1, <2>2 DEF Range
<1>5. IsInjective(s) => Distintos(x)
  <2> SUFFICES ASSUME IsInjective(s)
               PROVE  Distintos(x)
    OBVIOUS
  <2>1. \A i, j \in 1 .. m : s[i] = s[j] => i = j
    BY <1>3 DEF IsInjective
  <2>2. ASSUME NEW i \in 0 .. (n - 1), NEW j \in 0 .. (n - 1),
               Bloque(x, i) = Bloque(x, j)
        PROVE  i = j
    <3>1. i + 1 = j + 1
      BY <1>3, <2>1, <2>2
    <3> QED
      BY <1>1, <3>1
  <2>3. ASSUME n > 1, NEW i \in 0 .. (n - 1), Bloque(x, i) = x.indirecto
        PROVE  FALSE
    <3>1. i + 1 = n + 1
      BY <1>3, <2>1, <2>3
    <3> QED
      BY <1>1, <3>1
  <2> QED
    BY <2>2, <2>3 DEF Distintos, n
<1>6. Distintos(x) => IsInjective(s)
  <2> SUFFICES ASSUME Distintos(x), NEW i \in 1 .. m, NEW j \in 1 .. m,
                      s[i] = s[j]
               PROVE  i = j
    BY <1>3 DEF IsInjective
  <2>1. /\ \A k, l \in 0 .. (n - 1) : Bloque(x, k) = Bloque(x, l) => k = l
        /\ n > 1 => \A k \in 0 .. (n - 1) : Bloque(x, k) # x.indirecto
    BY DEF Distintos, n
  <2>2. i - 1 \in 0 .. (n - 1) /\ j - 1 \in 0 .. (n - 1) => i - 1 = j - 1
    BY <1>3, <2>1
  <2> QED
    BY <1>1, <1>3, <2>1, <2>2
<1> QED
  BY <1>4, <1>5, <1>6 DEF n, s

\* Blocks that are inherited are some of those there were.
LEMMA HeredaBloques ==
    ASSUME NEW x, NEW y, EsFcb(y) \/ y \in {NoHay, Vacio}, Hereda(y, x),
           IsInjective(BloquesDe(x))
    PROVE  /\ IsInjective(BloquesDe(y))
           /\ Range(BloquesDe(y)) \subseteq Range(BloquesDe(x))
<1>1. CASE y \in {NoHay, Vacio}
  BY <1>1 DEF BloquesDe, IsInjective, Range
<1>2. CASE EsFcb(y) /\ Numero(y) = 0
  BY <1>2, BloquesDeValores DEF Distintos, Primeros
<1>3. CASE EsFcb(y) /\ Numero(y) # 0
  <2>1. EsFcb(x) /\ Numero(y) <= Numero(x) /\ y.directo = x.directo
        /\ (Numero(y) > 1 => y.indirecto = x.indirecto)
    BY <1>3, ValoresAssumption DEF Hereda, EsFcb
  <2>2. Numero(x) \in Nat /\ Numero(y) \in Nat
    BY <1>3, <2>1, NumeroNat
  <2>3. \A i \in 0 .. (Numero(y) - 1) :
           i \in 0 .. (Numero(x) - 1) /\ Bloque(y, i) = Bloque(x, i)
    <3> TAKE i \in 0 .. (Numero(y) - 1)
    <3>1. i # 0 => Numero(y) > 1
      BY <2>2
    <3> QED
      BY <2>1, <2>2, <3>1 DEF Bloque, Puntero
  <2>4. Distintos(x)
    BY <2>1, BloquesDeValores
  <2>5. Distintos(y)
    BY <2>1, <2>2, <2>3, <2>4 DEF Distintos
  <2>6. Primeros(y, Numero(y), Numero(y) > 1)
           \subseteq Primeros(x, Numero(x), Numero(x) > 1)
    BY <2>1, <2>2, <2>3 DEF Primeros
  <2> QED
    BY <1>3, <2>1, <2>5, <2>6, BloquesDeValores
<1> QED
  BY <1>1, <1>2, <1>3

-----------------------------------------------------------------------------
(* The FCB of a file, in a state and in the next one *)

\* Which is the FCB of a file.
LEMMA FcbDeValores ==
    ASSUME NEW f
    PROVE  /\ f \in perdidos => FcbDe(f) = NoHay
           /\ f \notin perdidos /\ estado # "viva" => FcbDe(f) = fcbs[f]
           /\ Cambiando(f) => FcbDe(f) = paso.antes
           /\ f \notin perdidos /\ estado = "viva" /\ ~Cambiando(f) =>
                 FcbDe(f) = dictionaryFcbs[f]
           /\ f \in perdidos' => FcbDe(f)' = NoHay
           /\ f \notin perdidos' /\ estado' # "viva" => FcbDe(f)' = fcbs'[f]
           /\ Cambiando(f)' => FcbDe(f)' = paso'.antes
           /\ f \notin perdidos' /\ estado' = "viva" /\ ~Cambiando(f)' =>
                 FcbDe(f)' = dictionaryFcbs'[f]
  BY DEF FcbDe, Cambiando

\* No request, or one that does not change FCBs, is changing a file.
LEMMA CambiandoValores ==
    ASSUME NEW f
    PROVE  /\ paso.que \in {"ocioso", "escribir"} => ~Cambiando(f)
           /\ paso'.que \in {"ocioso", "escribir"} => ~Cambiando(f)'
           /\ estado' # "viva" => ~Cambiando(f)'
           /\ Cambiando(f) => f = paso.archivo /\ f \notin perdidos
           /\ Cambiando(f)' => f = paso'.archivo /\ f \notin perdidos'
  BY DEF Cambiando

\* The file, not a lost one, of a request that changes it.
LEMMA CambiandoEste ==
    ASSUME TypeOK, PasoPosible, paso.que \notin {"ocioso", "escribir"},
           paso.archivo \notin perdidos
    PROVE  paso.archivo \in Nombres /\ Cambiando(paso.archivo) /\ estado = "viva"
  BY PasoTipos DEF PasoPosible, Cambiando, Ocioso

\* It is one of memory or of disk.
LEMMA FcbDeTipos ==
    ASSUME TypeOK, NEW f \in Nombres
    PROVE  EsFcb(FcbDe(f)) \/ FcbDe(f) \in {NoHay, Vacio}
<1>1. Cambiando(f) => paso.antes \in FcbsEnMemoria \cup {NoHay}
  BY DEF TypeOK, Cambiando, Ocioso, PasosDeCrear, PasosDeTruncar, PasosDeEscribir
<1> QED
  BY <1>1 DEF FcbDe, EsFcb, TypeOK

\* And so it is in the next state.
LEMMA FcbDeTiposPrima ==
    ASSUME TypeOK', NEW f \in Nombres
    PROVE  EsFcb(FcbDe(f)') \/ FcbDe(f)' \in {NoHay, Vacio}
<1>1. Cambiando(f)' => paso'.antes \in FcbsEnMemoria \cup {NoHay}
  BY DEF TypeOK, Cambiando, Ocioso, PasosDeCrear, PasosDeTruncar, PasosDeEscribir
<1> QED
  BY <1>1 DEF FcbDe, EsFcb, TypeOK

\* While no word of the disk changes, an FCB has the same blocks.
LEMMA BloquesPrima ==
    ASSUME disco' = disco, NEW f
    PROVE  /\ BloquesDe(FcbDe(f))' = BloquesDe(FcbDe(f)')
           /\ EnUso(f)' = Range(BloquesDe(FcbDe(f)'))
  BY DEF EnUso, BloquesDe, Bloque, Puntero, Palabra

\* The files stay apart when each inherits.
LEMMA SeparadosPrima ==
    ASSUME TypeOK', Separados, disco' = disco,
           \A f \in Nombres : Hereda(FcbDe(f)', FcbDe(f))
    PROVE  /\ \A f \in Nombres : EnUso(f)' \subseteq EnUso(f)
           /\ \A f \in Nombres :
                 FcbDe(f)' \notin {NoHay, Vacio} /\ Numero(FcbDe(f)') > 0
                    => EsFcb(FcbDe(f))
           /\ Separados'
<1>1. ASSUME NEW f \in Nombres
      PROVE  /\ EnUso(f)' \subseteq EnUso(f)
             /\ IsInjective(BloquesDe(FcbDe(f))')
             /\ FcbDe(f)' \notin {NoHay, Vacio} =>
                   Numero(FcbDe(f)') <= SIZE_BLOQUE + 1
             /\ FcbDe(f)' \notin {NoHay, Vacio} /\ Numero(FcbDe(f)') > 0
                    => EsFcb(FcbDe(f))
  <2> DEFINE x == FcbDe(f)
             y == FcbDe(f)'
  <2>1. /\ Hereda(y, x) /\ (EsFcb(y) \/ y \in {NoHay, Vacio})
        /\ IsInjective(BloquesDe(x))
        /\ x \notin {NoHay, Vacio} => Numero(x) <= SIZE_BLOQUE + 1
    BY FcbDeTiposPrima DEF Separados, Numero
  <2>2. /\ BloquesDe(FcbDe(f))' = BloquesDe(y)
        /\ EnUso(f)' = Range(BloquesDe(y)) /\ EnUso(f) = Range(BloquesDe(x))
    BY BloquesPrima DEF EnUso
  <2> HIDE DEF x, y
  <2>3. EsFcb(x) => x \notin {NoHay, Vacio}
    BY ValoresAssumption DEF EsFcb
  <2>4. /\ IsInjective(BloquesDe(y))
        /\ Range(BloquesDe(y)) \subseteq Range(BloquesDe(x))
    BY <2>1, HeredaBloques
  <2>5. y \notin {NoHay, Vacio} => Numero(y) <= SIZE_BLOQUE + 1
    <3>1. EsFcb(x) /\ EsFcb(y) => Numero(x) \in Nat /\ Numero(y) \in Nat
      BY NumeroNat
    <3> QED
      BY <2>1, <2>3, <3>1, Numeros DEF Hereda
  <2>6. y \notin {NoHay, Vacio} /\ Numero(y) > 0 => EsFcb(x)
    <3>1. EsFcb(y) => Numero(y) \in Nat
      BY NumeroNat
    <3> QED
      BY <2>1, <3>1 DEF Hereda
  <2> QED
    BY <2>2, <2>4, <2>5, <2>6 DEF x, y
<1>2. Separados'
  <2>1. ASSUME NEW f \in Nombres
        PROVE  /\ EnUso(f)' \subseteq Bloques
               /\ \A g \in Nombres \ {f} : EnUso(f)' \cap EnUso(g)' = {}
    BY <1>1 DEF Separados
  <2> QED
    BY <1>1, <2>1 DEF Separados, Numero
<1> QED
  BY <1>1, <1>2

\* The bitmap stays right when it does not change, nor do the blocks that are
\* not given back.
LEMMA MarcadosPrima ==
    ASSUME Marcados, bitmap' = bitmap, roto \subseteq roto', roto' \subseteq Nombres,
           \A f \in Nombres \ roto' : Quedan(f)' = Quedan(f)
    PROVE  Marcados'
<1>1. \A f \in Nombres \ roto' : \A b \in Quedan(f)' : bitmap'[b]
  BY DEF Marcados
<1>2. ASSUME roto' = {}, NEW b \in Bloques, bitmap'[b]
      PROVE  \E f \in Nombres : b \in Quedan(f)'
  BY <1>2 DEF Marcados
<1> QED
  BY <1>1, <1>2 DEF Marcados

\* Which those are.
LEMMA QuedanValores ==
    ASSUME NEW f
    PROVE  /\ ~Cambiando(f) => Quedan(f) = EnUso(f)
           /\ Cambiando(f) => Quedan(f) =
                 Primeros(actual, actual.asignados,
                          actual.asignados > 1 \/ paso.que = "soltar_indirecto")
           /\ ~Cambiando(f)' => Quedan(f)' = EnUso(f)'
           /\ disco' = disco /\ Cambiando(f)' => Quedan(f)' =
                 Primeros(actual', actual'.asignados,
                          actual'.asignados > 1 \/ paso'.que = "soltar_indirecto")
  BY DEF Quedan, Primeros, Bloque, Puntero, Palabra

\* A request that begins: the file keeps its FCB, and has all of its blocks.
LEMMA EmpiezaValores ==
    ASSUME TypeOK, FcbsIguales, NEW f \in Nombres, Pide(f)
    PROVE  /\ \A g \in Nombres : ~Cambiando(g) /\ Quedan(g) = EnUso(g)
           /\ \A g \in Nombres \ perdidos :
                 /\ FcbDe(g) = dictionaryFcbs[g]
                 /\ dictionaryFcbs[g] = cargar_fcb(fcbs[g]) /\ fcbs[g] # Vacio
           /\ \A g \in perdidos : FcbDe(g) = NoHay
           /\ f \notin perdidos /\ dictionaryFcbs[f] # NoHay =>
                 /\ EsFcb(dictionaryFcbs[f])
                 /\ dictionaryFcbs[f].asignados = Numero(dictionaryFcbs[f])
<1>1. estado = "viva" /\ paso.que = "ocioso"
  BY DEF Pide, Ocioso
<1>2. /\ \A g \in Nombres : ~Cambiando(g)
      /\ \A g \in Nombres \ perdidos : FcbDe(g) = dictionaryFcbs[g]
      /\ \A g \in perdidos : FcbDe(g) = NoHay
  BY <1>1, CambiandoValores, FcbDeValores
<1>3. \A g \in Nombres \ perdidos :
         dictionaryFcbs[g] = cargar_fcb(fcbs[g]) /\ fcbs[g] # Vacio
  BY <1>1, <1>2 DEF FcbsIguales
<1>4. f \notin perdidos /\ dictionaryFcbs[f] # NoHay =>
         /\ EsFcb(dictionaryFcbs[f])
         /\ dictionaryFcbs[f].asignados = Numero(dictionaryFcbs[f])
  BY <1>3 DEF cargar_fcb, FcbEnMemoria, Numero, EsFcb, TypeOK
<1> QED
  BY <1>2, <1>3, <1>4, QuedanValores

-----------------------------------------------------------------------------
(* Starts, stops, and requests that begin *)

\* A file has on disk what it has in memory: same blocks.
LEMMA CargarValores ==
    ASSUME NEW x, x \in Fcbs \cup {NoHay}
    PROVE  /\ Hereda(x, cargar_fcb(x)) /\ Hereda(cargar_fcb(x), x)
           /\ BloquesDe(cargar_fcb(x)) = BloquesDe(x)
<1>1. CASE x = NoHay
  BY <1>1 DEF Hereda, cargar_fcb
<1>2. CASE x # NoHay
  <2> DEFINE y == cargar_fcb(x)
  <2>1. y = FcbEnMemoria(x.tamanio, x.directo, x.indirecto, Arriba(x.tamanio))
    BY <1>2 DEF cargar_fcb
  <2>2. /\ y.tamanio = x.tamanio /\ y.directo = x.directo
        /\ y.indirecto = x.indirecto
    BY <2>1 DEF FcbEnMemoria
  <2>3. EsFcb(x) /\ EsFcb(y)
    <3>1. EsFcb(x)
      BY <1>2 DEF EsFcb
    <3>2. y \in FcbsEnMemoria
      BY <1>2, <2>1, <3>1, ArribaValores, FcbTipos
         DEF EsFcb, FcbEnMemoria, FcbsEnMemoria
    <3> QED
      BY <3>1, <3>2 DEF EsFcb
  <2>4. {x, y} \cap {NoHay, Vacio} = {}
    BY <2>3, ValoresAssumption DEF EsFcb
  <2>5. BloquesDe(y) = BloquesDe(x)
    BY <2>2, <2>4 DEF BloquesDe, Bloque, Puntero
  <2> QED
    BY <2>2, <2>3, <2>5, NumeroNat DEF Hereda, Numero
<1> QED
  BY <1>1, <1>2

\* abrir_fcbs
LEMMA IniciarDisco ==
    ASSUME TypeOK, TypeOK', PasoPosible, DiscoSano, Iniciar
    PROVE  DiscoSano'
<1>1. /\ estado = "caida" /\ paso = Ocioso /\ paso' = paso /\ paso'.que = "ocioso"
      /\ UNCHANGED <<bitmap, disco, fcbs, roto, perdidos>>
      /\ estado' \in {"viva", "muerta"}
  BY DEF Iniciar, PasoPosible, persistente, promesas, Ocioso
<1>2. \A f \in Nombres : ~Cambiando(f) /\ ~Cambiando(f)'
  BY <1>1, CambiandoValores
<1>3. estado' = "viva" =>
         /\ \A f \in Nombres : fcbs[f] # Vacio
         /\ dictionaryFcbs' = [f \in Nombres |-> cargar_fcb(fcbs[f])]
  BY DEF Iniciar, Range, TypeOK
<1>4. FcbsIguales'
  BY <1>1, <1>2, <1>3 DEF FcbsIguales, DiscoSano, cargar_fcb, FcbEnMemoria
<1>5. ASSUME NEW f \in Nombres
      PROVE  /\ Hereda(FcbDe(f)', FcbDe(f))
             /\ BloquesDe(FcbDe(f)') = BloquesDe(FcbDe(f))
  <2>1. CASE f \in perdidos
    BY <1>1, <2>1, FcbDeValores DEF Hereda
  <2>2. CASE f \notin perdidos
    <3>1. FcbDe(f) = fcbs[f] /\ (EsFcb(fcbs[f]) \/ fcbs[f] \in {NoHay, Vacio})
      BY <1>1, <2>2, FcbDeValores DEF TypeOK, EsFcb
    <3>2. CASE estado' = "muerta"
      <4>1. FcbDe(f)' = fcbs[f]
        BY <1>1, <2>2, <3>2, FcbDeValores
      <4> QED
        BY <3>1, <4>1, NumeroNat DEF Hereda
    <3>3. CASE estado' = "viva"
      <4>1. FcbDe(f)' = cargar_fcb(fcbs[f]) /\ fcbs[f] # Vacio
        BY <1>1, <1>2, <1>3, <2>2, <3>3, FcbDeValores
      <4> QED
        BY <3>1, <4>1, CargarValores DEF TypeOK
    <3> QED
      BY <1>1, <3>2, <3>3
  <2> QED
    BY <2>1, <2>2
<1>6. Separados'
  BY <1>1, <1>5, SeparadosPrima DEF DiscoSano
<1>7. \A f \in Nombres : Quedan(f)' = Quedan(f)
  <2> TAKE f \in Nombres
  <2>1. EnUso(f)' = EnUso(f)
    BY <1>1, <1>5, BloquesPrima DEF EnUso
  <2> QED
    BY <1>2, <2>1, QuedanValores
<1>8. Marcados'
  BY <1>1, <1>7, MarcadosPrima DEF DiscoSano, TypeOK
<1>9. Reduciendo' /\ Creciendo' /\ Escribiendo'
  BY <1>1, <1>2 DEF Reduciendo, Creciendo, Escribiendo
<1> QED
  BY <1>4, <1>6, <1>8, <1>9 DEF DiscoSano

\* The program ends: the FCB on disk is that of the files that were not being
\* changed.
LEMMA SeDetieneDisco ==
    ASSUME TypeOK, TypeOK', PasoPosible, DiscoSano, estado = "viva", SeDetiene
    PROVE  DiscoSano'
<1>1. /\ estado' = "caida" /\ paso'.que = "ocioso"
      /\ UNCHANGED <<bitmap, disco, fcbs, perdidos>>
      /\ roto \subseteq roto'
      /\ \A f \in Nombres : Cambiando(f) => f \in roto'
  BY DEF SeDetiene, persistente, Ocioso, Cambiando
<1>2. \A f \in Nombres : /\ ~Cambiando(f)'
                         /\ f \in perdidos => FcbDe(f)' = NoHay
                         /\ f \notin perdidos => FcbDe(f)' = fcbs[f]
  BY <1>1, CambiandoValores, FcbDeValores
<1>3. FcbsIguales'
  BY <1>1, <1>2 DEF FcbsIguales, DiscoSano
<1>4. ASSUME NEW f \in Nombres
      PROVE  /\ Hereda(FcbDe(f)', FcbDe(f))
             /\ ~Cambiando(f) => BloquesDe(FcbDe(f)') = BloquesDe(FcbDe(f))
  <2>1. fcbs[f] \in Fcbs \cup {NoHay, Vacio}
    BY DEF TypeOK
  <2>2. CASE f \in perdidos
    BY <1>2, <2>2, FcbDeValores DEF Hereda
  <2>3. CASE f \notin perdidos /\ ~Cambiando(f)
    <3>1. FcbDe(f) = cargar_fcb(fcbs[f]) /\ fcbs[f] # Vacio
      BY <2>3, FcbDeValores DEF DiscoSano, FcbsIguales
    <3> QED
      BY <1>2, <2>1, <2>3, <3>1, CargarValores
  <2>4. CASE Cambiando(f)
    <3>1. IF paso.que = "cerrar_fcb" THEN fcbs[f] = Vacio
          ELSE fcbs[f] # Vacio /\ paso.antes = cargar_fcb(fcbs[f])
      BY <2>4, CambiandoValores DEF DiscoSano, FcbsIguales
    <3>2. FcbDe(f) = paso.antes /\ f \notin perdidos
      BY <2>4, FcbDeValores, CambiandoValores
    <3> QED
      BY <1>2, <2>1, <2>4, <3>1, <3>2, CargarValores DEF Hereda
  <2> QED
    BY <2>2, <2>3, <2>4
<1>5. Separados'
  BY <1>1, <1>4, SeparadosPrima DEF DiscoSano
<1>6. \A f \in Nombres \ roto' : Quedan(f)' = Quedan(f)
  <2> TAKE f \in Nombres \ roto'
  <2>1. ~Cambiando(f) /\ EnUso(f)' = EnUso(f)
    BY <1>1, <1>4, BloquesPrima DEF EnUso
  <2> QED
    BY <1>2, <2>1, QuedanValores
<1>7. Marcados'
  BY <1>1, <1>6, MarcadosPrima DEF DiscoSano, TypeOK
<1>8. Reduciendo' /\ Creciendo' /\ Escribiendo'
  BY <1>1, <1>2 DEF Reduciendo, Creciendo, Escribiendo
<1> QED
  BY <1>3, <1>5, <1>7, <1>8 DEF DiscoSano

\* A request that begins and whose file keeps its FCB until it ends.
LEMMA EmpiezaDisco ==
    ASSUME TypeOK, TypeOK', DiscoSano, NEW f \in Nombres, Pide(f), roto' = roto,
           \A g \in Nombres : FcbDe(g)' = FcbDe(g),
           Quedan(f)' = Quedan(f),
           \A g \in Nombres \ {f} : ~Cambiando(g)'
    PROVE  Separados' /\ Marcados'
<1>1. disco' = disco /\ bitmap' = bitmap
  BY DEF Pide
<1>2. \A g \in Nombres : Hereda(FcbDe(g)', FcbDe(g))
  BY FcbDeTipos, NumeroNat DEF Hereda
<1>3. Separados'
  BY <1>1, <1>2, SeparadosPrima DEF DiscoSano
<1>4. ASSUME NEW g \in Nombres \ {f}
      PROVE  Quedan(g)' = Quedan(g)
  <2>1. EnUso(g)' = EnUso(g)
    BY <1>1, BloquesPrima DEF EnUso
  <2> QED
    BY <2>1, QuedanValores, EmpiezaValores DEF DiscoSano
<1>5. Marcados'
  BY <1>1, <1>4, MarcadosPrima DEF DiscoSano, TypeOK
<1> QED
  BY <1>3, <1>5

\* KERNEL_CREAR_ARCHIVO
LEMMA CrearArchivoDisco ==
    ASSUME TypeOK, TypeOK', DiscoSano, NEW f \in Nombres \ perdidos,
           CrearArchivo(f)
    PROVE  DiscoSano'
<1>1. PICK basura :
        dictionaryFcbs' = [dictionaryFcbs EXCEPT ![f] = crear_fcb_inicial(basura)]
  BY DEF CrearArchivo
<1>2. /\ Pide(f) /\ estado = "viva" /\ estado' = "viva" /\ disco' = disco
      /\ dictionaryFcbs[f] = NoHay
      /\ fcbs' = [fcbs EXCEPT ![f] = Vacio]
      /\ roto' = roto /\ perdidos' = perdidos
      /\ paso'.que = "cerrar_fcb" /\ paso'.archivo = f /\ paso'.antes = NoHay
  BY DEF CrearArchivo, Pide, existe_archivo, promesas
<1>3. Cambiando(f)' /\ \A g \in Nombres \ {f} : ~Cambiando(g)'
  BY <1>2 DEF Cambiando
<1>4. /\ actual' = crear_fcb_inicial(basura)
      /\ actual'.tamanio = 0 /\ actual'.asignados = 0
      /\ \A g \in Nombres \ {f} : dictionaryFcbs'[g] = dictionaryFcbs[g]
      /\ fcbs'[f] = Vacio
      /\ \A g \in Nombres \ {f} : fcbs'[g] = fcbs[g]
  BY <1>1, <1>2 DEF actual, TypeOK, crear_fcb_inicial, FcbEnMemoria
<1>5. /\ \A g \in Nombres : ~Cambiando(g) /\ Quedan(g) = EnUso(g)
      /\ \A g \in Nombres \ perdidos :
            /\ FcbDe(g) = dictionaryFcbs[g]
            /\ dictionaryFcbs[g] = cargar_fcb(fcbs[g]) /\ fcbs[g] # Vacio
      /\ \A g \in perdidos : FcbDe(g) = NoHay
  BY <1>2, EmpiezaValores DEF DiscoSano
<1>6. FcbsIguales'
  BY <1>2, <1>3, <1>4, <1>5 DEF FcbsIguales, cargar_fcb, FcbEnMemoria
<1>7. Reduciendo' /\ Creciendo'
  BY <1>2, <1>3, <1>4 DEF Reduciendo, Creciendo
<1>8. \A g \in Nombres : FcbDe(g)' = FcbDe(g)
  BY <1>2, <1>3, <1>4, <1>5, FcbDeValores
<1>9. Quedan(f)' = Quedan(f)
  <2>1. 0 .. (0 - 1) = {}
    OBVIOUS
  <2>2. Quedan(f)' = {}
    BY <1>2, <1>3, <1>4, <2>1, QuedanValores DEF Primeros
  <2>3. Quedan(f) = {}
    <3>1. FcbDe(f) = NoHay /\ Quedan(f) = Range(BloquesDe(FcbDe(f)))
      BY <1>2, <1>5 DEF EnUso
    <3> QED
      BY <3>1 DEF BloquesDe, Range
  <2> QED
    BY <2>2, <2>3
<1>10. Separados' /\ Marcados'
  BY <1>2, <1>3, <1>8, <1>9, EmpiezaDisco
<1>11. Escribiendo'
  BY <1>2 DEF Escribiendo
<1> QED
  BY <1>6, <1>7, <1>10, <1>11 DEF DiscoSano

\* I_TRUNCATE, when the file does not grow
LEMMA TruncarDisco ==
    ASSUME TypeOK, TypeOK', DiscoSano, NEW f \in Nombres \ perdidos,
           NEW tamanio \in Nat, Reducir(f, tamanio) \/ Mantener(f, tamanio)
    PROVE  DiscoSano'
<1> DEFINE fcb == dictionaryFcbs[f]
<1>1. PICK que \in {"soltar_directo", "soltar", "abrir_fcb"} :
        /\ paso' = Truncado(f, tamanio, que)
        /\ fcb.asignados >= Arriba(tamanio)
        /\ que = "soltar_directo" => tamanio = 0 /\ fcb.asignados = 1
        /\ que = "abrir_fcb" => fcb.asignados = Arriba(tamanio)
  <2>1. fcb.asignados \in Nat /\ Arriba(tamanio) \in Nat
    BY ArribaValores
       DEF Reducir, Mantener, existe_archivo, TypeOK, FcbsEnMemoria
  <2> QED
    BY <2>1 DEF Reducir, Mantener
<1>2. /\ Pide(f) /\ estado = "viva" /\ estado' = "viva" /\ disco' = disco
      /\ fcb # NoHay
      /\ UNCHANGED <<fcbs, dictionaryFcbs, roto, perdidos>>
  BY DEF Reducir, Mantener, Pide, existe_archivo, Arriesga, promesas
<1>3. /\ paso'.que = que /\ paso'.archivo = f /\ paso'.antes = fcb
      /\ paso'.tamanio = tamanio
  BY <1>1 DEF Truncado
<1>4. Cambiando(f)' /\ (\A g \in Nombres \ {f} : ~Cambiando(g)') /\ actual' = fcb
  BY <1>2, <1>3 DEF Cambiando, actual
<1>5. /\ \A g \in Nombres : ~Cambiando(g) /\ Quedan(g) = EnUso(g)
      /\ \A g \in Nombres \ perdidos :
            /\ FcbDe(g) = dictionaryFcbs[g]
            /\ dictionaryFcbs[g] = cargar_fcb(fcbs[g]) /\ fcbs[g] # Vacio
      /\ \A g \in perdidos : FcbDe(g) = NoHay
      /\ EsFcb(fcb) /\ fcb.asignados = Numero(fcb)
  BY <1>2, EmpiezaValores DEF DiscoSano
<1>6. FcbsIguales'
  BY <1>2, <1>3, <1>4, <1>5 DEF FcbsIguales, cargar_fcb, FcbEnMemoria
<1>7. Reduciendo'
  <2>1. fcb.asignados \in Nat /\ Arriba(tamanio) \in Nat
    BY <1>5, NumeroNat, ArribaValores
  <2> QED
    BY <1>1, <1>2, <1>3, <1>4, <1>5, <2>1 DEF Reduciendo, Numero
<1>8. \A g \in Nombres : FcbDe(g)' = FcbDe(g)
  BY <1>2, <1>3, <1>4, <1>5, FcbDeValores
<1>9. Quedan(f)' = Quedan(f)
  <2>1. Quedan(f)' = Primeros(fcb, Numero(fcb), Numero(fcb) > 1)
    BY <1>2, <1>3, <1>4, <1>5, QuedanValores
  <2>2. EnUso(f) = Primeros(fcb, Numero(fcb), Numero(fcb) > 1)
    BY <1>5, BloquesDeValores DEF EnUso
  <2> QED
    BY <1>5, <2>1, <2>2
<1>10. Separados' /\ Marcados'
  BY <1>2, <1>4, <1>8, <1>9, EmpiezaDisco
<1>11. Creciendo' /\ Escribiendo'
  BY <1>2, <1>3 DEF Creciendo, Escribiendo
<1> QED
  BY <1>6, <1>7, <1>10, <1>11 DEF DiscoSano

\* I_F_WRITE, inside the blocks of the file
LEMMA EscribirArchivoDisco ==
    ASSUME TypeOK, TypeOK', DiscoSano, roto' # Nombres,
           NEW f \in Nombres, NEW puntero \in Nat, NEW n \in Nat \ {0}, NEW dato,
           EscribirArchivo(f, puntero, n, dato)
    PROVE  DiscoSano'
<1> DEFINE fcb == dictionaryFcbs[f]
<1>1. /\ Pide(f) /\ estado = "viva" /\ estado' = "viva" /\ disco' = disco
      /\ UNCHANGED <<fcbs, dictionaryFcbs, roto, perdidos>> /\ f \notin perdidos
      /\ Abajo(puntero + n - 1) < Arriba(fcb.tamanio)
      /\ paso'.que = "escribir" /\ paso'.archivo = f
      /\ paso'.puntero = puntero /\ paso'.desde = puntero
      /\ paso'.fin = puntero + n
      /\ paso'.bloque = obtener_bloque_absoluto(fcb, puntero)
  BY DEF EscribirArchivo, Pide, Arriesga
<1>2. (\A g \in Nombres : ~Cambiando(g)') /\ actual' = fcb
  BY <1>1, CambiandoValores DEF actual
<1>3. /\ \A g \in Nombres : ~Cambiando(g) /\ Quedan(g) = EnUso(g)
      /\ \A g \in Nombres \ perdidos :
            /\ FcbDe(g) = dictionaryFcbs[g]
            /\ dictionaryFcbs[g] = cargar_fcb(fcbs[g]) /\ fcbs[g] # Vacio
      /\ \A g \in perdidos : FcbDe(g) = NoHay
  BY <1>1, EmpiezaValores DEF DiscoSano
<1>4. FcbsIguales'
  BY <1>1, <1>2, <1>3 DEF FcbsIguales, cargar_fcb, FcbEnMemoria
<1>5. Reduciendo' /\ Creciendo'
  BY <1>1, <1>2 DEF Reduciendo, Creciendo
<1>6. \A g \in Nombres : FcbDe(g)' = FcbDe(g)
  BY <1>1, <1>2, <1>3, FcbDeValores
<1>7. Quedan(f)' = Quedan(f)
  BY <1>1, <1>2, <1>3, <1>6, BloquesPrima, QuedanValores DEF EnUso
<1>8. Separados' /\ Marcados'
  BY <1>1, <1>2, <1>6, <1>7, EmpiezaDisco
<1>9. Escribiendo'
  <2>1. \A i \in puntero .. (puntero - 1) : FALSE
    OBVIOUS
  <2> QED
    BY <1>1, <1>2, <2>1 DEF Escribiendo, obtener_bloque_absoluto, Bloque, Puntero, Palabra
<1> QED
  BY <1>4, <1>5, <1>8, <1>9 DEF DiscoSano

-----------------------------------------------------------------------------
(* Truncations *)

\* The blocks not given back are the first ones of those the file had, and they
\* are different.
LEMMA ReduciendoValores ==
    ASSUME TypeOK, PasoPosible, DiscoSano,
           paso.que \notin {"ocioso", "escribir"}, paso.antes # NoHay,
           paso.archivo \notin perdidos,
           NEW f, f = paso.archivo
    PROVE  /\ f \in Nombres /\ Cambiando(f) /\ estado = "viva"
           /\ paso \in PasosDeTruncar
           /\ EsFcb(paso.antes) /\ EsFcb(actual)
           /\ Numero(paso.antes) \in Nat /\ actual.asignados \in Nat
           /\ actual.asignados <= Numero(paso.antes)
           /\ EnUso(f) \subseteq Bloques
           /\ \A i \in 0 .. (actual.asignados - 1) :
                 /\ Bloque(actual, i) = Bloque(paso.antes, i)
                 /\ Bloque(actual, i) \in EnUso(f)
           /\ \A i, j \in 0 .. (actual.asignados - 1) :
                 Bloque(actual, i) = Bloque(actual, j) => i = j
           /\ actual.asignados > 1 \/ paso.que = "soltar_indirecto" =>
                 /\ actual.indirecto = paso.antes.indirecto
                 /\ actual.indirecto \in EnUso(f)
                 /\ \A i \in 0 .. (actual.asignados - 1) :
                       Bloque(actual, i) # actual.indirecto
<1>1. f \in Nombres /\ Cambiando(f) /\ estado = "viva" /\ paso # Ocioso
  BY CambiandoEste DEF Ocioso
<1>2. paso \in PasosDeTruncar /\ paso.antes \in FcbsEnMemoria
  BY <1>1 DEF TypeOK, PasosDeCrear, PasosDeTruncar, PasosDeEscribir
<1>3. actual \in FcbsEnMemoria /\ actual.asignados \in Nat
  BY <1>1 DEF PasoPosible, actual, TypeOK, FcbsEnMemoria
<1>4. EsFcb(paso.antes) /\ EsFcb(actual) /\ Numero(paso.antes) \in Nat
  BY <1>2, <1>3, NumeroNat DEF EsFcb
<1>5. /\ actual.asignados <= Numero(paso.antes)
      /\ actual.asignados > 0 => actual.directo = paso.antes.directo
      /\ actual.asignados > 1 \/ paso.que = "soltar_indirecto" =>
            actual.indirecto = paso.antes.indirecto /\ Numero(paso.antes) > 1
  BY <1>1 DEF DiscoSano, Reduciendo, Numero
<1>6. FcbDe(f) = paso.antes
  BY <1>1, FcbDeValores
<1>7. /\ EnUso(f) \subseteq Bloques /\ Distintos(paso.antes)
      /\ EnUso(f) = Primeros(paso.antes, Numero(paso.antes), Numero(paso.antes) > 1)
  BY <1>1, <1>4, <1>6, BloquesDeValores DEF DiscoSano, Separados, EnUso
<1>8. ASSUME NEW i \in 0 .. (actual.asignados - 1)
      PROVE  /\ Bloque(actual, i) = Bloque(paso.antes, i)
             /\ i \in 0 .. (Numero(paso.antes) - 1)
             /\ Bloque(actual, i) \in EnUso(f)
  <2>1. i \in 0 .. (Numero(paso.antes) - 1) /\ actual.asignados > 0
    BY <1>3, <1>4, <1>5
  <2>2. i # 0 => actual.asignados > 1
    BY <1>3
  <2>3. Bloque(actual, i) = Bloque(paso.antes, i)
    BY <1>5, <2>1, <2>2 DEF Bloque, Puntero
  <2> QED
    BY <1>7, <2>1, <2>3 DEF Primeros
<1>9. \A i, j \in 0 .. (actual.asignados - 1) :
         Bloque(actual, i) = Bloque(actual, j) => i = j
  BY <1>7, <1>8 DEF Distintos
<1>10. ASSUME actual.asignados > 1 \/ paso.que = "soltar_indirecto"
       PROVE  /\ actual.indirecto = paso.antes.indirecto
              /\ actual.indirecto \in EnUso(f)
              /\ \A i \in 0 .. (actual.asignados - 1) :
                    Bloque(actual, i) # actual.indirecto
  BY <1>5, <1>7, <1>8, <1>10 DEF Distintos, Primeros
<1> QED
  BY <1>1, <1>2, <1>3, <1>4, <1>5, <1>7, <1>8, <1>9, <1>10

\* A block of the file is given back.
LEMMA MarcarDisco ==
    ASSUME TypeOK, TypeOK', DiscoSano, NEW f \in Nombres, f = paso.archivo,
           Cambiando(f), paso.que # "cerrar_fcb",
           NEW b, NEW fcb, NEW siguiente, Marcar(b, FALSE, fcb, siguiente),
           b \in Quedan(f), Quedan(f) \subseteq EnUso(f),
           siguiente.archivo = f, siguiente.antes = paso.antes,
           siguiente.que \in {"soltar", "soltar_indirecto", "soltar_directo",
                             "abrir_fcb"},
           disco' = disco /\ actual' = fcb /\ paso' = siguiente /\ Cambiando(f)'
              => Quedan(f)' = Quedan(f) \ {b}
    PROVE  /\ FcbsIguales' /\ Creciendo' /\ Separados' /\ Marcados' /\ Escribiendo'
           /\ actual' = fcb /\ paso' = siguiente
           /\ \A g \in Nombres : Cambiando(g)' <=> g = f
<1>1. b \in Bloques
  BY DEF DiscoSano, Separados
<1>2. /\ bitmap' = [bitmap EXCEPT ![b] = FALSE]
      /\ dictionaryFcbs' = [dictionaryFcbs EXCEPT ![f] = fcb]
      /\ paso' = siguiente
      /\ UNCHANGED <<disco, fcbs, estado, roto, perdidos>>
  BY <1>1 DEF Marcar, promesas
<1>3. /\ actual' = fcb
      /\ \A g \in Nombres \ {f} : dictionaryFcbs'[g] = dictionaryFcbs[g]
      /\ estado = "viva" /\ estado' = "viva" /\ f \notin perdidos
  BY <1>2 DEF actual, TypeOK, Cambiando
<1>4. \A g \in Nombres : (Cambiando(g)' <=> g = f) /\ (Cambiando(g) <=> g = f)
  BY <1>2, <1>3 DEF Cambiando
<1>5. FcbsIguales'
  <2>1. ASSUME NEW g \in Nombres \ perdidos, g # f
        PROVE  fcbs[g] # Vacio /\ dictionaryFcbs'[g] = cargar_fcb(fcbs[g])
    BY <1>3, <1>4, <2>1 DEF DiscoSano, FcbsIguales
  <2>2. fcbs[f] # Vacio /\ siguiente.antes = cargar_fcb(fcbs[f])
    BY <1>3 DEF DiscoSano, FcbsIguales
  <2> QED
    BY <1>2, <1>3, <1>4, <2>1, <2>2 DEF FcbsIguales, cargar_fcb, FcbEnMemoria
<1>6. \A g \in Nombres : FcbDe(g)' = FcbDe(g)
  BY <1>2, <1>3, <1>4, FcbDeValores
<1>7. Separados'
  <2>1. \A g \in Nombres : Hereda(FcbDe(g)', FcbDe(g))
    BY <1>6, FcbDeTipos, NumeroNat DEF Hereda
  <2> QED
    BY <1>2, <2>1, SeparadosPrima DEF DiscoSano
<1>8. Quedan(f)' = Quedan(f) \ {b}
  BY <1>2, <1>3, <1>4
<1>9. ASSUME NEW g \in Nombres, g # f
      PROVE  Quedan(g)' = Quedan(g) /\ b \notin Quedan(g)
  <2>1. Quedan(g)' = EnUso(g)' /\ Quedan(g) = EnUso(g)
    BY <1>4, <1>9, QuedanValores
  <2>2. EnUso(g)' = EnUso(g)
    BY <1>2, <1>6, BloquesPrima DEF EnUso
  <2>3. b \notin EnUso(g)
    BY <1>9 DEF DiscoSano, Separados
  <2> QED
    BY <2>1, <2>2, <2>3
<1>10. Marcados'
  <2>1. \A c \in Bloques : bitmap'[c] <=> bitmap[c] /\ c # b
    BY <1>2 DEF TypeOK
  <2>2. ASSUME NEW g \in Nombres \ roto, NEW c \in Quedan(g)'
        PROVE  bitmap'[c]
    <3>1. c \in Quedan(g) /\ c # b
      BY <1>8, <1>9
    <3>2. Quedan(g) \subseteq EnUso(g)
      BY <1>4, QuedanValores
    <3>3. c \in Bloques /\ bitmap[c]
      BY <3>1, <3>2 DEF DiscoSano, Separados, Marcados
    <3> QED
      BY <2>1, <3>1, <3>3
  <2>3. ASSUME roto = {}, NEW c \in Bloques, bitmap'[c]
        PROVE  \E g \in Nombres : c \in Quedan(g)'
    <3>1. bitmap[c] /\ c # b
      BY <2>1, <2>3
    <3>2. PICK g \in Nombres : c \in Quedan(g)
      BY <2>3, <3>1 DEF DiscoSano, Marcados
    <3> QED
      BY <1>8, <1>9, <3>1, <3>2
  <2> QED
    BY <1>2, <2>2, <2>3 DEF Marcados
<1>11. Creciendo' /\ Escribiendo'
  BY <1>2, <1>3 DEF Creciendo, Escribiendo
<1> QED
  BY <1>2, <1>3, <1>4, <1>5, <1>7, <1>10, <1>11

\* desasignar_ultimo_bloque: a block of data
LEMMA SoltarDisco ==
    ASSUME TypeOK, TypeOK', PasoPosible, DiscoSano, Soltar
    PROVE  DiscoSano'
<1> PICK f : f = paso.archivo
  OBVIOUS
<1> DEFINE k == actual.asignados
           quedan == k - 1
           b == Puntero(actual, quedan - 1)
           que == CASE quedan = 1 -> "soltar_indirecto"
                    [] quedan > 1 /\ quedan = Arriba(paso.tamanio) -> "abrir_fcb"
                    [] OTHER -> "soltar"
           fcb == [actual EXCEPT !.asignados = quedan]
<1>1. paso.que = "soltar" /\ Marcar(b, FALSE, fcb, A(que))
  BY DEF Soltar, En
<1>2. /\ f \in Nombres /\ Cambiando(f) /\ paso # Ocioso
      /\ paso.archivo \notin perdidos
  BY <1>1, CambiandoEste DEF Ocioso, DiscoSano, Creciendo
<1>3. /\ paso.antes # NoHay
      /\ k > 1 /\ k > Arriba(paso.tamanio)
      /\ k <= Arriba(paso.antes.tamanio)
      /\ actual.directo = paso.antes.directo
  <2>1. k > 1 /\ k > Arriba(paso.tamanio)
    BY <1>1, <1>2 DEF PasoPosible
  <2>2. paso.antes # NoHay
    BY <1>1, <1>2 DEF DiscoSano, Reduciendo
  <2>3. /\ k <= Arriba(paso.antes.tamanio)
        /\ k > 0 => actual.directo = paso.antes.directo
    BY <1>2, <2>2 DEF DiscoSano, Reduciendo
  <2> QED
    BY <2>1, <2>2, <2>3, ActualTipos DEF Soltar, FcbsEnMemoria
<1>4. /\ paso \in PasosDeTruncar /\ actual \in FcbsEnMemoria /\ k \in Nat
      /\ \A i \in 0 .. (k - 1) : Bloque(actual, i) \in EnUso(f)
      /\ \A i, j \in 0 .. (k - 1) : Bloque(actual, i) = Bloque(actual, j) => i = j
      /\ actual.indirecto = paso.antes.indirecto /\ actual.indirecto \in EnUso(f)
      /\ \A i \in 0 .. (k - 1) : Bloque(actual, i) # actual.indirecto
      /\ Numero(paso.antes) \in Nat
  BY <1>1, <1>2, <1>3, ReduciendoValores, ActualTipos DEF Soltar
<1>5. /\ que \in {"soltar_indirecto", "abrir_fcb", "soltar"}
      /\ que = "soltar_indirecto" => k = 2
      /\ que # "soltar_indirecto" => k - 1 > 1
      /\ que = "abrir_fcb" => k - 1 = Arriba(paso.tamanio)
  BY <1>3, <1>4
<1>6. /\ A(que).archivo = f /\ A(que).antes = paso.antes /\ A(que).que = que
      /\ A(que).tamanio = paso.tamanio
  BY <1>4 DEF A, PasosDeTruncar
<1>7. /\ fcb.asignados = k - 1 /\ fcb.directo = actual.directo
      /\ fcb.indirecto = actual.indirecto /\ fcb.tamanio = actual.tamanio
  BY <1>4 DEF FcbsEnMemoria
<1>8. b = Bloque(actual, k - 1) /\ k - 1 \in 0 .. (k - 1)
  BY <1>3, <1>4 DEF Bloque
<1> HIDE DEF que, fcb, b
<1>9. Quedan(f) = {Bloque(actual, i) : i \in 0 .. (k - 1)} \cup {actual.indirecto}
  BY <1>2, <1>3, QuedanValores DEF Primeros
<1>10. b \in Quedan(f) /\ Quedan(f) \subseteq EnUso(f)
  BY <1>4, <1>8, <1>9
<1>11. ASSUME disco' = disco, actual' = fcb, paso' = A(que), Cambiando(f)'
       PROVE  Quedan(f)' = Quedan(f) \ {b}
  <2>1. Quedan(f)' = {Bloque(fcb, i) : i \in 0 .. (k - 2)} \cup {actual.indirecto}
    <3>1. fcb.asignados > 1 \/ que = "soltar_indirecto"
      BY <1>5, <1>7
    <3>2. fcb.asignados - 1 = k - 2
      BY <1>4, <1>7
    <3> QED
      BY <1>6, <1>7, <1>11, <3>1, <3>2, QuedanValores DEF Primeros
  <2>2. \A i \in 0 .. (k - 2) : Bloque(fcb, i) = Bloque(actual, i)
    BY <1>7 DEF Bloque, Puntero
  <2>3. 0 .. (k - 1) = 0 .. (k - 2) \cup {k - 1} /\ k - 1 \notin 0 .. (k - 2)
    BY <1>3, <1>4
  <2> QED
    BY <1>4, <1>8, <1>9, <2>1, <2>2, <2>3
<1>12. /\ FcbsIguales' /\ Creciendo' /\ Separados' /\ Marcados' /\ Escribiendo'
       /\ actual' = fcb /\ paso' = A(que)
       /\ \A g \in Nombres : Cambiando(g)' <=> g = f
  <2>1. A(que).que \in {"soltar_indirecto", "abrir_fcb", "soltar"}
    BY <1>5, <1>6
  <2> QED
    BY <1>1, <1>2, <1>6, <1>10, <1>11, <2>1, MarcarDisco
<1>13. Reduciendo'
  <2>1. /\ paso'.antes = paso.antes /\ paso'.tamanio = paso.tamanio /\ paso'.que = que
        /\ actual'.asignados = k - 1 /\ actual'.directo = actual.directo
        /\ actual'.indirecto = actual.indirecto
    BY <1>6, <1>7, <1>12
  <2>2. /\ Arriba(paso.tamanio) \in Nat /\ Arriba(paso.antes.tamanio) \in Nat
        /\ k - 1 >= Arriba(paso.tamanio) /\ k - 1 <= Arriba(paso.antes.tamanio)
        /\ Arriba(paso.antes.tamanio) > 1
        /\ que = "soltar_indirecto" => Arriba(paso.tamanio) <= 1 /\ k - 1 = 1
        /\ actual.indirecto = paso.antes.indirecto
    <3>1. paso.tamanio \in Nat
      BY <1>4 DEF PasosDeTruncar
    <3>2. Arriba(paso.tamanio) \in Nat /\ Arriba(paso.antes.tamanio) \in Nat
      BY <1>4, <3>1, ArribaValores DEF Numero
    <3> QED
      BY <1>3, <1>4, <1>5, <3>2
  <2> QED
    BY <1>3, <1>5, <1>12, <2>1, <2>2 DEF Reduciendo
<1> QED
  BY <1>12, <1>13 DEF DiscoSano

\* The block of pointers, when one of data is left
LEMMA SoltarIndirectoDisco ==
    ASSUME TypeOK, TypeOK', PasoPosible, DiscoSano, SoltarIndirecto
    PROVE  DiscoSano'
<1> PICK f : f = paso.archivo
  OBVIOUS
<1> DEFINE b == actual.indirecto
           que == IF paso.tamanio = 0 THEN "soltar_directo" ELSE "abrir_fcb"
           fcb == [actual EXCEPT !.indirecto = 0]
<1>1. paso.que = "soltar_indirecto" /\ Marcar(b, FALSE, fcb, A(que))
  BY DEF SoltarIndirecto, En
<1>2. /\ f \in Nombres /\ Cambiando(f) /\ paso # Ocioso
      /\ paso.archivo \notin perdidos
  BY <1>1, CambiandoEste DEF Ocioso, DiscoSano, Creciendo
<1>3. paso.antes # NoHay
  BY <1>1, <1>2 DEF DiscoSano, Reduciendo
<1>4. /\ Arriba(paso.tamanio) <= 1 /\ actual.asignados = 1
      /\ actual.directo = paso.antes.directo
      /\ Arriba(paso.antes.tamanio) >= 1
  BY <1>1, <1>2, <1>3 DEF DiscoSano, Reduciendo
<1>5. /\ paso \in PasosDeTruncar /\ actual \in FcbsEnMemoria
      /\ Bloque(actual, 0) \in EnUso(f)
      /\ b \in EnUso(f) /\ Bloque(actual, 0) # b
  <2>1. 0 \in 0 .. (1 - 1)
    OBVIOUS
  <2> QED
    BY <1>1, <1>2, <1>3, <1>4, <2>1, ReduciendoValores, ActualTipos DEF SoltarIndirecto
<1>6. /\ A(que).archivo = f /\ A(que).antes = paso.antes /\ A(que).que = que
      /\ A(que).tamanio = paso.tamanio /\ que \in {"soltar_directo", "abrir_fcb"}
  BY <1>5 DEF A, PasosDeTruncar
<1>7. fcb.asignados = 1 /\ fcb.directo = actual.directo
  BY <1>4, <1>5 DEF FcbsEnMemoria
<1>8. que = "abrir_fcb" => Arriba(paso.tamanio) = 1
  <2>1. paso.tamanio \in Nat
    BY <1>5 DEF PasosDeTruncar
  <2>2. Arriba(paso.tamanio) \in Nat
        /\ (paso.tamanio > 0 => Arriba(paso.tamanio) > 0)
    BY <2>1, ArribaValores, NecesitaValores
  <2> HIDE DEF b, fcb
  <2> QED
    BY <1>4, <2>1, <2>2
<1>9. que = "soltar_directo" => paso.tamanio = 0
  OBVIOUS
<1> HIDE DEF que, fcb, b
<1>10. 0 .. (1 - 1) = {0}
  OBVIOUS
<1>11. Quedan(f) = {Bloque(actual, 0), b}
  BY <1>1, <1>2, <1>4, <1>10, QuedanValores DEF Primeros, b
<1>12. ASSUME disco' = disco, actual' = fcb, paso' = A(que), Cambiando(f)'
       PROVE  Quedan(f)' = Quedan(f) \ {b}
  <2>1. Quedan(f)' = {Bloque(fcb, 0)}
    BY <1>6, <1>7, <1>10, <1>12, QuedanValores DEF Primeros
  <2>2. Bloque(fcb, 0) = Bloque(actual, 0)
    BY <1>7 DEF Bloque
  <2> QED
    BY <1>5, <1>11, <2>1, <2>2
<1>13. /\ FcbsIguales' /\ Creciendo' /\ Separados' /\ Marcados' /\ Escribiendo'
       /\ actual' = fcb /\ paso' = A(que)
       /\ \A g \in Nombres : Cambiando(g)' <=> g = f
  <2>1. A(que).que \in {"soltar_directo", "abrir_fcb"}
    BY <1>6
  <2>2. b \in Quedan(f) /\ Quedan(f) \subseteq EnUso(f)
    BY <1>5, <1>11
  <2> QED
    BY <1>1, <1>2, <1>6, <1>12, <2>1, <2>2, MarcarDisco
<1>14. Reduciendo'
  <2>1. Arriba(paso.tamanio) \in Nat
    BY <1>5, ArribaValores DEF PasosDeTruncar
  <2> QED
    BY <1>3, <1>4, <1>6, <1>7, <1>8, <1>9, <1>13, <2>1 DEF Reduciendo
<1> QED
  BY <1>13, <1>14 DEF DiscoSano

\* The last one
LEMMA SoltarDirectoDisco ==
    ASSUME TypeOK, TypeOK', PasoPosible, DiscoSano, SoltarDirecto
    PROVE  DiscoSano'
<1> PICK f : f = paso.archivo
  OBVIOUS
<1> DEFINE b == actual.directo
           fcb == [actual EXCEPT !.directo = 0, !.asignados = 0]
<1>1. paso.que = "soltar_directo" /\ Marcar(b, FALSE, fcb, A("abrir_fcb"))
  BY DEF SoltarDirecto, En
<1>2. /\ f \in Nombres /\ Cambiando(f) /\ paso # Ocioso
      /\ paso.archivo \notin perdidos
  BY <1>1, CambiandoEste DEF Ocioso, DiscoSano, Creciendo
<1>3. paso.antes # NoHay
  BY <1>1, <1>2 DEF DiscoSano, Reduciendo
<1>4. /\ paso.tamanio = 0 /\ actual.asignados = 1
      /\ Arriba(paso.antes.tamanio) >= 1
  BY <1>1, <1>2, <1>3 DEF DiscoSano, Reduciendo
<1>5. /\ paso \in PasosDeTruncar /\ actual \in FcbsEnMemoria
      /\ Bloque(actual, 0) \in EnUso(f)
  <2>1. 0 \in 0 .. (1 - 1)
    OBVIOUS
  <2> QED
    BY <1>1, <1>2, <1>3, <1>4, <2>1, ReduciendoValores, ActualTipos DEF SoltarDirecto
<1>6. LET p == A("abrir_fcb")
      IN  /\ p.archivo = f /\ p.antes = paso.antes /\ p.que = "abrir_fcb"
          /\ p.tamanio = 0
  BY <1>4, <1>5 DEF A, PasosDeTruncar
<1>7. fcb.asignados = 0
  BY <1>5 DEF FcbsEnMemoria
<1> HIDE DEF fcb
<1>8. 0 .. (1 - 1) = {0} /\ 0 .. (0 - 1) = {}
  OBVIOUS
<1>9. Quedan(f) = {b}
  BY <1>1, <1>2, <1>4, <1>8, QuedanValores DEF Primeros, Bloque
<1>10. ASSUME disco' = disco, actual' = fcb, paso' = A("abrir_fcb"), Cambiando(f)'
       PROVE  Quedan(f)' = Quedan(f) \ {b}
  BY <1>6, <1>7, <1>8, <1>9, <1>10, QuedanValores DEF Primeros
<1>11. /\ FcbsIguales' /\ Creciendo' /\ Separados' /\ Marcados' /\ Escribiendo'
       /\ actual' = fcb /\ paso' = A("abrir_fcb")
       /\ \A g \in Nombres : Cambiando(g)' <=> g = f
  <2>1. b \in Quedan(f) /\ Quedan(f) \subseteq EnUso(f)
    BY <1>5, <1>9 DEF Bloque
  <2> QED
    BY <1>1, <1>2, <1>6, <1>10, <2>1, MarcarDisco
<1>12. Arriba(paso.antes.tamanio) \in Nat
  BY <1>1, <1>2, <1>3, ReduciendoValores DEF Numero
<1>13. Reduciendo'
  <2>1. Arriba(0) = 0
    BY ArribaValores
  <2>2. /\ paso'.antes = paso.antes /\ paso'.que = "abrir_fcb" /\ paso'.tamanio = 0
        /\ actual'.asignados = 0
    BY <1>6, <1>7, <1>11
  <2>3. Arriba(paso.antes.tamanio) >= 0
    BY <1>4, <1>12
  <2> QED
    BY <1>3, <1>11, <2>1, <2>2, <2>3 DEF Reduciendo
<1> QED
  BY <1>11, <1>13 DEF DiscoSano

-----------------------------------------------------------------------------
(* The FCB that is written *)

\* persistir_fcb, until fopen
LEMMA AbrirFcbDisco ==
    ASSUME TypeOK, TypeOK', PasoPosible, DiscoSano, AbrirFcb,
           paso.archivo \notin perdidos
    PROVE  DiscoSano'
<1> PICK f : f = paso.archivo
  OBVIOUS
<1>1. /\ paso.que = "abrir_fcb" /\ En("abrir_fcb")
      /\ fcbs' = [fcbs EXCEPT ![f] = Vacio]
      /\ dictionaryFcbs' = [dictionaryFcbs EXCEPT ![f].tamanio = paso.tamanio]
      /\ paso' = A("cerrar_fcb")
      /\ UNCHANGED <<bitmap, disco, estado, roto, perdidos>>
  BY DEF AbrirFcb, En, promesas
<1>2. /\ f \in Nombres /\ Cambiando(f) /\ paso \in PasosDeTruncar
      /\ actual \in FcbsEnMemoria /\ estado = "viva"
  BY <1>1, CambiandoEste, PasoTipos, ActualTipos DEF Truncamientos
<1>3. /\ paso'.archivo = f /\ paso'.antes = paso.antes /\ paso'.que = "cerrar_fcb"
      /\ paso'.tamanio = paso.tamanio
  BY <1>1, <1>2 DEF A, PasosDeTruncar
<1>4. \A g \in Nombres : (Cambiando(g)' <=> g = f) /\ (Cambiando(g) <=> g = f)
  BY <1>1, <1>2, <1>3 DEF Cambiando
<1>5. /\ actual'.tamanio = paso.tamanio
      /\ actual'.directo = actual.directo /\ actual'.indirecto = actual.indirecto
      /\ actual'.asignados = actual.asignados
      /\ \A g \in Nombres \ {f} : dictionaryFcbs'[g] = dictionaryFcbs[g]
      /\ fcbs'[f] = Vacio /\ \A g \in Nombres \ {f} : fcbs'[g] = fcbs[g]
  <2>1. actual' = [actual EXCEPT !.tamanio = paso.tamanio]
    BY <1>1, <1>2, <1>3 DEF actual, TypeOK
  <2> QED
    BY <1>1, <1>2, <2>1 DEF TypeOK, FcbsEnMemoria
<1>6. FcbsIguales'
  <2>1. ASSUME NEW g \in Nombres \ perdidos, g # f
        PROVE  fcbs'[g] # Vacio /\ dictionaryFcbs'[g] = cargar_fcb(fcbs'[g])
    BY <1>2, <1>4, <1>5, <2>1 DEF DiscoSano, FcbsIguales
  <2> QED
    BY <1>1, <1>2, <1>3, <1>4, <1>5, <2>1
       DEF FcbsIguales, cargar_fcb, FcbEnMemoria
<1>7. Reduciendo'
  <2>1. /\ paso.antes # NoHay
        /\ actual.asignados >= Arriba(paso.tamanio)
        /\ actual.asignados <= Arriba(paso.antes.tamanio)
        /\ actual.asignados > 0 => actual.directo = paso.antes.directo
        /\ actual.asignados > 1 =>
              actual.indirecto = paso.antes.indirecto /\ Arriba(paso.antes.tamanio) > 1
        /\ actual.asignados = Arriba(paso.tamanio)
    BY <1>1, <1>2 DEF DiscoSano, Reduciendo
  <2> QED
    BY <1>3, <1>4, <1>5, <2>1 DEF Reduciendo
<1>8. \A g \in Nombres : FcbDe(g)' = FcbDe(g)
  BY <1>1, <1>2, <1>3, <1>4, <1>5, FcbDeValores
<1>9. Separados'
  <2>1. \A g \in Nombres : Hereda(FcbDe(g)', FcbDe(g))
    BY <1>8, FcbDeTipos, NumeroNat DEF Hereda
  <2> QED
    BY <1>1, <2>1, SeparadosPrima DEF DiscoSano
<1>10. Quedan(f)' = Quedan(f)
  <2>1. /\ Quedan(f) = Primeros(actual, actual.asignados, actual.asignados > 1)
        /\ Quedan(f)' = Primeros(actual', actual.asignados, actual.asignados > 1)
    BY <1>1, <1>2, <1>3, <1>4, <1>5, QuedanValores
  <2> QED
    BY <1>5, <2>1 DEF Primeros, Bloque, Puntero
<1>11. ASSUME NEW g \in Nombres, g # f
       PROVE  Quedan(g)' = Quedan(g)
  BY <1>1, <1>4, <1>8, <1>11, QuedanValores, BloquesPrima DEF EnUso
<1>12. Marcados'
  BY <1>1, <1>10, <1>11, MarcadosPrima DEF DiscoSano, TypeOK
<1>13. Creciendo' /\ Escribiendo'
  BY <1>3 DEF Creciendo, Escribiendo
<1> QED
  BY <1>6, <1>7, <1>9, <1>12, <1>13 DEF DiscoSano

\* persistir_fcb, at fclose
LEMMA CerrarFcbDisco ==
    ASSUME TypeOK, TypeOK', PasoPosible, DiscoSano, CerrarFcb,
           paso.archivo \notin perdidos
    PROVE  DiscoSano'
<1> PICK f : f = paso.archivo
  OBVIOUS
<1> DEFINE n == actual.asignados
           fcb == Fcb(actual.tamanio, actual.directo, actual.indirecto)
<1>1. /\ paso.que = "cerrar_fcb" /\ En("cerrar_fcb")
      /\ fcbs' = [fcbs EXCEPT ![f] = fcb]
      /\ paso' = Ocioso /\ paso'.que = "ocioso"
      /\ UNCHANGED <<bitmap, disco, dictionaryFcbs, estado, roto, perdidos>>
  BY DEF CerrarFcb, En, Ocioso, promesas
<1>2. /\ f \in Nombres /\ Cambiando(f) /\ estado = "viva"
      /\ actual \in FcbsEnMemoria /\ EsFcb(actual)
      /\ actual = FcbEnMemoria(actual.tamanio, actual.directo, actual.indirecto, n)
  BY <1>1, CambiandoEste, ActualTipos DEF EsFcb, FcbEnMemoria
<1>3. \A g \in Nombres : ~Cambiando(g)' /\ (Cambiando(g) <=> g = f)
  BY <1>1, <1>2, CambiandoValores DEF Cambiando
<1>4. /\ n = Arriba(actual.tamanio)
      /\ n # 0 => /\ paso.antes # NoHay
                  /\ n <= Arriba(paso.antes.tamanio)
                  /\ n > 0 => actual.directo = paso.antes.directo
                  /\ n > 1 => actual.indirecto = paso.antes.indirecto
  <2>1. CASE paso.antes = NoHay
    <3>1. actual.tamanio = 0 /\ n = 0
      BY <1>2, <2>1 DEF DiscoSano, Reduciendo
    <3> QED
      BY <3>1, ArribaValores
  <2>2. CASE paso.antes # NoHay
    <3>1. /\ n = Arriba(paso.tamanio) /\ actual.tamanio = paso.tamanio
          /\ n <= Arriba(paso.antes.tamanio)
          /\ n > 0 => actual.directo = paso.antes.directo
          /\ n > 1 => actual.indirecto = paso.antes.indirecto
      BY <1>1, <1>2, <2>2 DEF DiscoSano, Reduciendo
    <3> QED
      BY <2>2, <3>1
  <2> QED
    BY <2>1, <2>2
<1>5. /\ fcbs'[f] = fcb /\ \A g \in Nombres \ {f} : fcbs'[g] = fcbs[g]
      /\ fcb \in Fcbs /\ fcb \notin {NoHay, Vacio}
      /\ cargar_fcb(fcb) = actual
  <2>1. fcb \in Fcbs
    BY <1>2 DEF Fcb, Fcbs, FcbsEnMemoria
  <2>2. fcb \notin {NoHay, Vacio}
    BY <2>1, ValoresAssumption
  <2>3. cargar_fcb(fcb) = FcbEnMemoria(actual.tamanio, actual.directo,
                                       actual.indirecto, Arriba(actual.tamanio))
    BY <2>2 DEF cargar_fcb, Fcb
  <2> QED
    BY <1>1, <1>2, <1>4, <2>1, <2>2, <2>3 DEF TypeOK
<1>6. FcbsIguales'
  <2>1. ASSUME NEW g \in Nombres \ perdidos, g # f
        PROVE  fcbs'[g] # Vacio /\ dictionaryFcbs'[g] = cargar_fcb(fcbs'[g])
    BY <1>1, <1>2, <1>3, <1>5, <2>1 DEF DiscoSano, FcbsIguales
  <2>2. fcbs'[f] # Vacio /\ dictionaryFcbs'[f] = cargar_fcb(fcbs'[f])
    BY <1>1, <1>5 DEF actual
  <2> QED
    BY <1>1, <1>2, <1>3, <2>1, <2>2 DEF FcbsIguales, cargar_fcb, FcbEnMemoria
<1>7. /\ FcbDe(f) = paso.antes /\ FcbDe(f)' = actual
      /\ \A g \in Nombres \ {f} : FcbDe(g)' = FcbDe(g)
  BY <1>1, <1>2, <1>3, FcbDeValores DEF actual
<1>8. \A g \in Nombres : Hereda(FcbDe(g)', FcbDe(g))
  <2>1. \A g \in Nombres \ {f} : Hereda(FcbDe(g)', FcbDe(g))
    BY <1>7, FcbDeTipos, NumeroNat DEF Hereda
  <2>2. Hereda(actual, paso.antes)
    <3>1. Numero(actual) = n /\ n \in Nat
      BY <1>2, <1>4, NumeroNat DEF Numero
    <3>2. CASE n = 0
      BY <3>1, <3>2 DEF Hereda
    <3>3. CASE n # 0
      <4>1. EsFcb(paso.antes)
        BY <1>1, <1>4, <3>3, ReduciendoValores
      <4> QED
        BY <1>4, <3>1, <3>3, <4>1 DEF Hereda, Numero
    <3> QED
      BY <3>2, <3>3
  <2> QED
    BY <1>7, <2>1, <2>2
<1>9. Separados'
  BY <1>1, <1>8, SeparadosPrima DEF DiscoSano
<1>10. Quedan(f)' = Quedan(f)
  <2>1. Quedan(f) = Primeros(actual, n, n > 1)
    BY <1>1, <1>2, QuedanValores
  <2>2. Quedan(f)' = Range(BloquesDe(actual))
    BY <1>1, <1>2, <1>3, <1>7, QuedanValores, BloquesPrima
  <2> QED
    BY <1>2, <1>4, <2>1, <2>2, BloquesDeValores DEF Numero
<1>11. ASSUME NEW g \in Nombres, g # f
       PROVE  Quedan(g)' = Quedan(g)
  BY <1>1, <1>3, <1>7, <1>11, QuedanValores, BloquesPrima DEF EnUso
<1>12. Marcados'
  BY <1>1, <1>10, <1>11, MarcadosPrima DEF DiscoSano, TypeOK
<1>13. Reduciendo' /\ Creciendo' /\ Escribiendo'
  BY <1>1, <1>3 DEF Reduciendo, Creciendo, Escribiendo
<1> QED
  BY <1>6, <1>9, <1>12, <1>13 DEF DiscoSano

-----------------------------------------------------------------------------
(* Writes *)

\* A position further on is in the same block or in one further on.
LEMMA AbajoCrece ==
    ASSUME NEW a \in Nat, NEW b \in Nat, a <= b
    PROVE  Abajo(a) <= Abajo(b)
<1> DEFINE qa == Abajo(a)
           qb == Abajo(b)
           ra == a % SIZE_BLOQUE
           rb == b % SIZE_BLOQUE
<1>1. /\ qa \in Nat /\ ra \in 0 .. (SIZE_BLOQUE - 1) /\ a = qa * SIZE_BLOQUE + ra
      /\ qb \in Nat /\ rb \in 0 .. (SIZE_BLOQUE - 1) /\ b = qb * SIZE_BLOQUE + rb
  BY Division
<1> SUFFICES ASSUME qa > qb
             PROVE  FALSE
  BY <1>1
<1> HIDE DEF qa, qb, ra, rb
<1>2. PICK k \in Nat : qa = qb + 1 + k
  <2>1. qa - qb - 1 \in Nat /\ qa = qb + 1 + (qa - qb - 1)
    BY <1>1
  <2> QED
    BY <2>1
<1>3. qa * SIZE_BLOQUE = qb * SIZE_BLOQUE + SIZE_BLOQUE + k * SIZE_BLOQUE
  BY <1>1, <1>2, Numeros
<1>4. /\ k * SIZE_BLOQUE \in Nat /\ qb * SIZE_BLOQUE \in Nat
      /\ qa * SIZE_BLOQUE \in Nat
  BY <1>1, <1>2, Producto
<1> DEFINE x == k * SIZE_BLOQUE
           y == qb * SIZE_BLOQUE
           z == qa * SIZE_BLOQUE
<1> HIDE DEF x, y, z
<1>5. x \in Nat /\ y \in Nat /\ z = y + SIZE_BLOQUE + x /\ a = z + ra /\ b = y + rb
  BY <1>1, <1>3, <1>4 DEF x, y, z
<1> QED
  BY <1>1, <1>5, Numeros

\* Where a block begins, the position before is in another one: the one before.
LEMMA AbajoAnterior ==
    ASSUME NEW p \in Nat, p > 0, p % SIZE_BLOQUE = 0
    PROVE  Abajo(p) = Abajo(p - 1) + 1
<1> DEFINE q == Abajo(p)
<1>1. q \in Nat /\ p = q * SIZE_BLOQUE + 0 /\ q * SIZE_BLOQUE \in Nat
  BY Division, Producto
<1> HIDE DEF q
<1>2. (q - 1) * SIZE_BLOQUE = q * SIZE_BLOQUE - SIZE_BLOQUE
  BY <1>1, Numeros
<1>3. p - 1 = (q - 1) * SIZE_BLOQUE + (SIZE_BLOQUE - 1)
  BY <1>1, <1>2, Numeros
<1>4. SIZE_BLOQUE - 1 \in 0 .. (SIZE_BLOQUE - 1) /\ q - 1 \in Int
  BY <1>1, Numeros
<1>5. Abajo((q - 1) * SIZE_BLOQUE + (SIZE_BLOQUE - 1)) = q - 1
  BY <1>4, DivisionUnica
<1> QED
  BY <1>1, <1>3, <1>5 DEF q

\* After a block of data of a file, the search finds the next one.
LEMMA SiguienteBloque ==
    ASSUME TypeOK, NEW x, EsFcb(x), Distintos(x), Numero(x) <= SIZE_BLOQUE + 1,
           NEW k \in Nat, k + 1 < Numero(x)
    PROVE  buscar_siguiente_bloque(x, Bloque(x, k)) = Bloque(x, k + 1)
<1>1. /\ Numero(x) \in Nat /\ x.indirecto \in Bloques
      /\ k \in 0 .. (Numero(x) - 1) /\ 0 \in 0 .. (Numero(x) - 1)
      /\ k <= SIZE_BLOQUE - 1
  BY NumeroNat, FcbTipos, Numeros DEF EsFcb
<1>2. CASE k = 0
  <2>1. Bloque(x, k) = x.directo /\ Bloque(x, k + 1) = Puntero(x, 0)
    BY <1>2 DEF Bloque
  <2> QED
    BY <2>1 DEF buscar_siguiente_bloque
<1>3. CASE k # 0
  <2> DEFINE b == Bloque(x, k)
             z == x.indirecto * SIZE_BLOQUE
             d == z + (k - 1)
             iguales == {e \in Direcciones : e >= z /\ disco[e] = b}
  <2>1. z \in Nat /\ k - 1 \in 0 .. (SIZE_BLOQUE - 1) /\ k \in 0 .. (SIZE_BLOQUE - 1)
    <3>1. x.indirecto \in Nat
      BY <1>1, Numeros
    <3>2. z \in Nat
      BY <3>1, Producto
    <3> HIDE DEF z
    <3> QED
      BY <1>1, <1>3, <3>2, Numeros
  <2>2. d \in Direcciones /\ z + k \in Direcciones
    BY <1>1, <2>1, DireccionDeBloque
  <2>3. \A i \in 1 .. SIZE_BLOQUE :
           z + (i - 1) \in Direcciones /\ Bloque(x, i) = disco[z + (i - 1)]
    <3> TAKE i \in 1 .. SIZE_BLOQUE
    <3>1. i - 1 \in 0 .. (SIZE_BLOQUE - 1) /\ i # 0
      BY Numeros
    <3>2. z + (i - 1) \in Direcciones
      BY <1>1, <3>1, DireccionDeBloque
    <3> QED
      BY <3>1, <3>2 DEF Bloque, Puntero, Palabra
  <2>4. b = disco[d] /\ Bloque(x, k + 1) = disco[z + k]
    <3>1. k \in 1 .. SIZE_BLOQUE /\ k + 1 \in 1 .. SIZE_BLOQUE
          /\ z + ((k + 1) - 1) = z + k
      BY <1>1, <1>3, <2>1, Numeros
    <3> QED
      BY <2>3, <3>1
  <2>5. b # x.directo
    <3>1. b # Bloque(x, 0)
      BY <1>1, <1>3 DEF Distintos
    <3> QED
      BY <3>1 DEF Bloque
  <2>6. d \in iguales /\ iguales \subseteq Nat
    <3> HIDE DEF z
    <3>1. d >= z
      BY <2>1
    <3>2. \A e \in Direcciones : e \in Nat
      BY Numeros
    <3> QED
      BY <2>2, <2>4, <3>1, <3>2
  <2>7. ASSUME NEW e \in iguales
        PROVE  d <= e
    <3> SUFFICES ASSUME e < d
                 PROVE  FALSE
      BY <2>6
    <3>1. e \in Nat /\ e >= z /\ disco[e] = b
      BY <2>6
    <3> DEFINE i == e - z + 1
    <3>2. i \in Nat /\ 1 <= i /\ i < k /\ z + (i - 1) = e
      BY <2>1, <3>1
    <3> HIDE DEF i
    <3>3. i \in 1 .. SIZE_BLOQUE /\ i \in 0 .. (Numero(x) - 1)
      BY <1>1, <3>2, Numeros
    <3>4. Bloque(x, i) = b
      BY <2>3, <3>1, <3>2, <3>3
    <3> QED
      BY <1>1, <3>2, <3>3, <3>4 DEF Distintos
  <2> HIDE DEF iguales, d, z
  <2>8. Min(iguales) = d
    <3>1. \A e \in iguales : (\A y \in iguales : e <= y) => e = d
      BY <2>6, <2>7
    <3> QED
      BY <2>6, <2>7, <3>1 DEF Min
  <2>9. d + 1 = z + k
    BY <2>1 DEF d
  <2>10. buscar_siguiente_bloque(x, b)
            = IF Min(iguales) + 1 \in Direcciones
              THEN disco[Min(iguales) + 1] ELSE b
    BY <2>5, <2>6 DEF buscar_siguiente_bloque, iguales, z
  <2> QED
    BY <2>2, <2>4, <2>8, <2>9, <2>10
<1> QED
  BY <1>2, <1>3

\* Words written inside a block: they are there, and other blocks keep theirs.
LEMMA EscritoValores ==
    ASSUME TypeOK, NEW b \in Bloques, NEW lugar \in Nat, NEW n \in Nat,
           lugar + n <= SIZE_BLOQUE, NEW palabras, DOMAIN palabras = 1 .. n,
           disco' = Escrito(b * SIZE_BLOQUE + lugar, palabras)
    PROVE  /\ \A d \in Direcciones : Abajo(d) # b => disco'[d] = disco[d]
           /\ \A j \in 0 .. (n - 1) : disco'[b * SIZE_BLOQUE + lugar + j] = palabras[j + 1]
           /\ \A d \in Direcciones :
                 (\A j \in 0 .. (n - 1) : d # b * SIZE_BLOQUE + (lugar + j))
                    => disco'[d] = disco[d]
<1> DEFINE z == b * SIZE_BLOQUE
<1>1. z \in Nat
  BY Producto, Numeros
<1>2. \A d \in Direcciones : disco'[d] = IF d - (z + lugar) + 1 \in 1 .. n
                                         THEN palabras[d - (z + lugar) + 1] ELSE disco[d]
  BY DEF Escrito
<1>3. \A j \in 0 .. (n - 1) :
         /\ lugar + j \in 0 .. (SIZE_BLOQUE - 1)
         /\ z + (lugar + j) \in Direcciones /\ Abajo(z + (lugar + j)) = b
  <2> TAKE j \in 0 .. (n - 1)
  <2>1. lugar + j \in 0 .. (SIZE_BLOQUE - 1)
    BY Numeros
  <2> QED
    BY <2>1, DireccionDeBloque
<1> HIDE DEF z
<1>4. ASSUME NEW d \in Direcciones, \A j \in 0 .. (n - 1) : d # z + (lugar + j)
      PROVE  disco'[d] = disco[d]
  <2> DEFINE j == d - z - lugar
  <2>1. d \in Nat
    BY Numeros
  <2>2. d - (z + lugar) + 1 \in 1 .. n => j \in 0 .. (n - 1) /\ z + (lugar + j) = d
    BY <1>1, <2>1
  <2> HIDE DEF j
  <2>3. d - (z + lugar) + 1 \notin 1 .. n
    BY <1>4, <2>2
  <2> QED
    BY <1>2, <2>3
<1>5. ASSUME NEW j \in 0 .. (n - 1)
      PROVE  disco'[z + lugar + j] = palabras[j + 1]
  <2>1. /\ z + lugar + j = z + (lugar + j)
        /\ (z + (lugar + j)) - (z + lugar) + 1 = j + 1 /\ j + 1 \in 1 .. n
    BY <1>1
  <2>2. z + (lugar + j) \in Direcciones
    BY <1>3
  <2> QED
    BY <1>2, <2>1, <2>2
<1>6. \A d \in Direcciones : Abajo(d) # b => disco'[d] = disco[d]
  BY <1>3, <1>4
<1> QED
  BY <1>4, <1>5, <1>6 DEF z

\* A place of a block, and that of a position in its own.
Direccion(b, lugar) == b * SIZE_BLOQUE + lugar
Lugar(p) == p % SIZE_BLOQUE

\* How many words an iteration writes from a position on.
Caben(p) == Min({paso.fin - p, SIZE_BLOQUE - (p % SIZE_BLOQUE)})

\* Words written inside a block: they are there, and other blocks keep theirs.
LEMMA EscritoEnBloque ==
    ASSUME TypeOK, NEW b \in Bloques, NEW lugar \in Nat, NEW n \in Nat,
           lugar + n <= SIZE_BLOQUE, NEW palabras, DOMAIN palabras = 1 .. n,
           disco' = Escrito(Direccion(b, lugar), palabras)
    PROVE  /\ \A d \in Direcciones : Abajo(d) # b => disco'[d] = disco[d]
           /\ \A j \in 0 .. (n - 1) : disco'[Direccion(b, lugar + j)] = palabras[j + 1]
           /\ \A d \in Direcciones :
                 (\A j \in 0 .. (n - 1) : d # Direccion(b, lugar + j))
                    => disco'[d] = disco[d]
<1> DEFINE z == b * SIZE_BLOQUE
<1>1. z \in Nat
  BY Producto, Numeros
<1>2. \A d \in Direcciones : Abajo(d) # b => disco'[d] = disco[d]
  BY EscritoValores DEF Direccion
<1>3. \A j \in 0 .. (n - 1) : disco'[z + lugar + j] = palabras[j + 1]
  BY EscritoValores DEF Direccion
<1>6. \A d \in Direcciones :
         (\A j \in 0 .. (n - 1) : d # z + (lugar + j)) => disco'[d] = disco[d]
  BY EscritoValores DEF Direccion
<1> HIDE DEF z
<1>4. \A j \in 0 .. (n - 1) : z + lugar + j = z + (lugar + j)
  BY <1>1
<1>5. \A j \in 0 .. (n - 1) : disco'[z + (lugar + j)] = palabras[j + 1]
  BY <1>3, <1>4
<1> QED
  BY <1>2, <1>5, <1>6 DEF Direccion, z

\* An iteration that writes n words, from position p of file f, in block b.
Iteracion(f, x, p, b, n) ==
    /\ f \in Nombres /\ x = dictionaryFcbs[f] /\ FcbDe(f) = x /\ EsFcb(x)
    /\ Abajo(p) \in 0 .. (Numero(x) - 1) /\ Distintos(x)
    /\ b \in EnUso(f) /\ b \in Bloques
    /\ \A d \in Direcciones : Abajo(d) # b => disco'[d] = disco[d]
    /\ \A j \in 0 .. (n - 1) :
          disco'[Direccion(b, Lugar(p) + j)]
             = paso.dato + p - paso.desde + j
    /\ \A d \in Direcciones :
          (\A j \in 0 .. (n - 1) : d # Direccion(b, Lugar(p) + j))
             => disco'[d] = disco[d]
    /\ paso' = IF p + n = paso.fin THEN Ocioso
               ELSE [paso EXCEPT !.puntero = p + n, !.bloque = b]

\* An iteration of escribir_archivo writes in the block of the file where the
\* position is: the block it was told of, or the one the search found.
LEMMA IteracionDisco ==
    ASSUME TypeOK, PasoPosible, DiscoSano, EscribirEnBloque,
           NEW f, f = paso.archivo, NEW x, x = actual,
           NEW p, p = paso.puntero, NEW b, b = Bloque(x, Abajo(p)),
           NEW n, n = Caben(p)
    PROVE  Iteracion(f, x, p, b, n)
<1> DEFINE lugar == Lugar(p)
           c == IF p = paso.desde THEN paso.bloque
                ELSE buscar_siguiente_bloque(actual, paso.bloque)
           palabras == [i \in 1 .. n |-> paso.dato + p - paso.desde + i - 1]
<1>1. /\ En("escribir") /\ paso.que = "escribir" /\ estado = "viva"
      /\ disco' = Escrito(Direccion(c, lugar), palabras)
      /\ paso' = IF p + n = paso.fin THEN Ocioso
                 ELSE [paso EXCEPT !.puntero = p + n, !.bloque = c]
  BY DEF EscribirEnBloque, En, Direccion, Lugar, Caben
<1>2. /\ paso \in PasosDeEscribir /\ lugar \in 0 .. (SIZE_BLOQUE - 1)
      /\ n \in Nat /\ n > 0 /\ p + n <= paso.fin /\ lugar + n <= SIZE_BLOQUE
      /\ paso.desde <= p /\ p < paso.fin
  BY <1>1, IteracionValores DEF Lugar, Caben
<1>3. /\ p \in Nat /\ paso.desde \in Nat /\ paso.fin \in Nat /\ paso.dato \in Nat
      /\ f \in Nombres /\ x = dictionaryFcbs[f] /\ EsFcb(x)
  BY <1>1, <1>2, ActualTipos DEF PasosDeEscribir, actual, EsFcb
<1>4. FcbDe(f) = x
  BY <1>1, <1>3, FcbDeValores, CambiandoValores DEF DiscoSano, Creciendo
<1>5. /\ Numero(x) \in Nat /\ Numero(x) <= SIZE_BLOQUE + 1 /\ Distintos(x)
      /\ EnUso(f) \subseteq Bloques
      /\ \A i \in 0 .. (Numero(x) - 1) : Bloque(x, i) \in EnUso(f)
  <2>1. x \notin {NoHay, Vacio}
    BY <1>3, ValoresAssumption DEF EsFcb
  <2>2. /\ Numero(x) <= SIZE_BLOQUE + 1 /\ IsInjective(BloquesDe(x))
        /\ EnUso(f) \subseteq Bloques /\ EnUso(f) = Range(BloquesDe(x))
    BY <1>3, <1>4, <2>1 DEF DiscoSano, Separados, Numero, EnUso
  <2> QED
    BY <1>3, <2>2, BloquesDeValores, NumeroNat DEF Primeros
<1>6. Abajo(p) \in 0 .. (Numero(x) - 1)
  <2>1. Abajo(paso.fin - 1) < Numero(x)
    BY <1>1 DEF DiscoSano, Escribiendo, Numero
  <2>2. /\ p <= paso.fin - 1 /\ paso.fin - 1 \in Nat
    BY <1>2, <1>3
  <2>3. /\ Abajo(p) <= Abajo(paso.fin - 1)
        /\ Abajo(p) \in Nat /\ Abajo(paso.fin - 1) \in Nat
    BY <1>3, <2>2, AbajoCrece, Division
  <2> QED
    BY <1>5, <2>1, <2>3
<1>7. c = b
  <2>1. CASE p = paso.desde
    BY <1>1, <2>1 DEF DiscoSano, Escribiendo, obtener_bloque_absoluto
  <2>2. CASE p # paso.desde
    <3>1. /\ p % SIZE_BLOQUE = 0 /\ p > 0
          /\ paso.bloque = Bloque(x, Abajo(p - 1))
      BY <1>1, <1>2, <1>3, <2>2 DEF DiscoSano, Escribiendo, obtener_bloque_absoluto
    <3>2. Abajo(p) = Abajo(p - 1) + 1 /\ Abajo(p - 1) \in Nat
      BY <1>3, <3>1, AbajoAnterior, Division
    <3>3. Abajo(p - 1) + 1 < Numero(x)
      BY <1>5, <1>6, <3>2
    <3>4. buscar_siguiente_bloque(x, Bloque(x, Abajo(p - 1)))
             = Bloque(x, Abajo(p - 1) + 1)
      BY <1>3, <1>5, <3>2, <3>3, SiguienteBloque
    <3> QED
      BY <2>2, <3>1, <3>2, <3>4
  <2> QED
    BY <2>1, <2>2
<1>8. b \in EnUso(f) /\ b \in Bloques
  BY <1>5, <1>6
<1>9. /\ DOMAIN palabras = 1 .. n
      /\ \A j \in 0 .. (n - 1) :
            palabras[j + 1] = paso.dato + p - paso.desde + j
  <2>1. ASSUME NEW j \in 0 .. (n - 1)
        PROVE  palabras[j + 1] = paso.dato + p - paso.desde + j
    <3>1. j + 1 \in 1 .. n
      BY <1>2
    <3> QED
      BY <1>3, <3>1
  <2> QED
    BY <2>1
<1> HIDE DEF c, palabras
<1>10. /\ \A d \in Direcciones : Abajo(d) # b => disco'[d] = disco[d]
       /\ \A j \in 0 .. (n - 1) :
             disco'[Direccion(b, lugar + j)] = palabras[j + 1]
       /\ \A d \in Direcciones :
             (\A j \in 0 .. (n - 1) : d # Direccion(b, lugar + j))
                => disco'[d] = disco[d]
  <2>1. lugar \in Nat
    BY <1>2
  <2> HIDE DEF lugar
  <2> QED
    BY <1>1, <1>2, <1>7, <1>8, <1>9, <2>1, EscritoEnBloque
<1>11. \A j \in 0 .. (n - 1) :
          disco'[Direccion(b, lugar + j)] = paso.dato + p - paso.desde + j
  <2> HIDE DEF lugar
  <2> QED
    BY <1>9, <1>10
<1>12. paso' = IF p + n = paso.fin THEN Ocioso
               ELSE [paso EXCEPT !.puntero = p + n, !.bloque = b]
  BY <1>1, <1>7
<1> QED
  BY <1>3, <1>4, <1>5, <1>6, <1>8, <1>10, <1>11, <1>12 DEF Iteracion

\* The pointers of a file that are not in the block where words were written: it
\* keeps its blocks.
LEMMA PunterosFuera ==
    ASSUME TypeOK, Separados, NEW b,
           \A d \in Direcciones : Abajo(d) # b => disco'[d] = disco[d],
           NEW g \in Nombres, FcbDe(g)' = FcbDe(g), NEW y, y = FcbDe(g),
           EsFcb(y) /\ Numero(y) > 1 => y.indirecto # b
    PROVE  /\ EsFcb(y) => \A i \in 0 .. (Numero(y) - 1) : Bloque(y, i)' = Bloque(y, i)
           /\ BloquesDe(FcbDe(g))' = BloquesDe(FcbDe(g))
<1>1. ASSUME EsFcb(y), NEW i \in 0 .. (Numero(y) - 1), i # 0
      PROVE  /\ y.indirecto * SIZE_BLOQUE + (i - 1) \in Direcciones
             /\ disco'[y.indirecto * SIZE_BLOQUE + (i - 1)]
                   = disco[y.indirecto * SIZE_BLOQUE + (i - 1)]
  <2>1. /\ Numero(y) \in Nat /\ Numero(y) <= SIZE_BLOQUE + 1 /\ Numero(y) > 1
        /\ y.indirecto \in Bloques
    <3>1. y \notin {NoHay, Vacio}
      BY <1>1, ValoresAssumption DEF EsFcb
    <3>2. Numero(y) <= SIZE_BLOQUE + 1
      BY <3>1 DEF Separados, Numero
    <3>3. Numero(y) \in Nat /\ y.indirecto \in Bloques
      BY <1>1, NumeroNat, FcbTipos DEF EsFcb
    <3> QED
      BY <1>1, <3>2, <3>3
  <2>2. i - 1 \in 0 .. (SIZE_BLOQUE - 1)
    BY <1>1, <2>1, Numeros
  <2>3. /\ y.indirecto * SIZE_BLOQUE + (i - 1) \in Direcciones
        /\ Abajo(y.indirecto * SIZE_BLOQUE + (i - 1)) = y.indirecto
    BY <2>1, <2>2, DireccionDeBloque
  <2> QED
    BY <1>1, <2>1, <2>3
<1>2. ASSUME EsFcb(y), NEW i \in 0 .. (Numero(y) - 1)
      PROVE  Bloque(y, i)' = Bloque(y, i)
  BY <1>1, <1>2 DEF Bloque, Puntero, Palabra
<1>3. BloquesDe(y)' = BloquesDe(y)
  <2>1. CASE y \in {NoHay, Vacio}
    BY <2>1 DEF BloquesDe
  <2>2. CASE EsFcb(y)
    <3>1. y \notin {NoHay, Vacio} /\ y.tamanio \in Nat
      BY <2>2, ValoresAssumption, FcbTipos DEF EsFcb
    <3>2. ASSUME NEW i \in 1 .. Necesita(y.tamanio), i <= Arriba(y.tamanio)
          PROVE  Bloque(y, i - 1)' = Bloque(y, i - 1)
      <4>1. Numero(y) \in Nat /\ Necesita(y.tamanio) \in Nat
        BY <2>2, <3>1, NumeroNat, NecesitaValores
      <4>2. i - 1 \in 0 .. (Numero(y) - 1)
        BY <3>2, <4>1 DEF Numero
      <4> QED
        BY <1>2, <2>2, <4>2
    <3> QED
      BY <3>1, <3>2 DEF BloquesDe
  <2> QED
    BY <2>1, <2>2, FcbDeTipos
<1>4. BloquesDe(FcbDe(g))' = BloquesDe(y)'
  BY DEF BloquesDe, Bloque, Puntero, Palabra
<1> QED
  BY <1>2, <1>3, <1>4

\* No pointer of a file is in a block of data: each keeps its blocks.
LEMMA PunterosIntactos ==
    ASSUME TypeOK, Separados, NEW f \in Nombres, NEW x, x = FcbDe(f), EsFcb(x),
           NEW k \in 0 .. (Numero(x) - 1), NEW b, b = Bloque(x, k),
           \A d \in Direcciones : Abajo(d) # b => disco'[d] = disco[d],
           NEW g \in Nombres, FcbDe(g)' = FcbDe(g), NEW y, y = FcbDe(g)
    PROVE  /\ EsFcb(y) => \A i \in 0 .. (Numero(y) - 1) : Bloque(y, i)' = Bloque(y, i)
           /\ BloquesDe(FcbDe(g))' = BloquesDe(FcbDe(g))
<1>1. /\ Distintos(x) /\ b \in EnUso(f)
      /\ Numero(x) > 1 => b # x.indirecto
  <2>1. IsInjective(BloquesDe(x)) /\ EnUso(f) = Range(BloquesDe(x))
    BY DEF Separados, EnUso
  <2> QED
    BY <2>1, BloquesDeValores DEF Primeros, Distintos
<1>2. ASSUME EsFcb(y), Numero(y) > 1
      PROVE  y.indirecto # b
  <2>1. y.indirecto \in EnUso(g)
    <3>1. EnUso(g) = Primeros(y, Numero(y), Numero(y) > 1)
      BY <1>2, BloquesDeValores DEF EnUso
    <3> QED
      BY <1>2, <3>1 DEF Primeros
  <2>2. CASE g = f
    BY <1>1, <1>2, <2>2
  <2>3. CASE g # f
    BY <1>1, <2>1, <2>3 DEF Separados
  <2> QED
    BY <2>2, <2>3
<1> QED
  BY <1>2, PunterosFuera

\* The words of the request, from the first, are in their place.
LEMMA EscritosHasta ==
    ASSUME TypeOK, PasoPosible, DiscoSano, EscribirEnBloque,
           NEW x, x = actual, NEW p, p = paso.puntero,
           NEW n, n = Caben(p)
    PROVE  \A i \in paso.desde .. (p + n - 1) :
              /\ Abajo(i) \in 0 .. (Numero(x) - 1)
              /\ disco'[obtener_posicion_absoluta(x, i)] = paso.dato + i - paso.desde
<1> PICK f : f = paso.archivo
  OBVIOUS
<1> PICK b : b = Bloque(x, Abajo(p))
  OBVIOUS
<1> TAKE i \in paso.desde .. (p + n - 1)
<1>1. En("escribir") /\ paso.que = "escribir"
  BY DEF EscribirEnBloque, En
<1>2. /\ p % SIZE_BLOQUE \in 0 .. (SIZE_BLOQUE - 1)
      /\ n \in Nat /\ n > 0 /\ (p % SIZE_BLOQUE) + n <= SIZE_BLOQUE
      /\ p \in Nat /\ paso.desde \in Nat /\ paso.desde <= p /\ paso.dato \in Nat
      /\ i \in Nat
  BY <1>1, IteracionValores DEF PasosDeEscribir, Caben
<1>3. /\ f \in Nombres /\ EsFcb(x) /\ Distintos(x)
      /\ Abajo(p) \in 0 .. (Numero(x) - 1) /\ b \in Bloques
      /\ \A d \in Direcciones : Abajo(d) # b => disco'[d] = disco[d]
      /\ \A j \in 0 .. (n - 1) :
            disco'[Direccion(b, Lugar(p) + j)]
               = paso.dato + p - paso.desde + j
      /\ FcbDe(f) = x
  <2>1. Iteracion(f, x, p, b, n)
    BY IteracionDisco
  <2> QED
    BY <2>1 DEF Iteracion
<1>4. /\ EnUso(f) \subseteq Bloques
      /\ \A k \in 0 .. (Numero(x) - 1) : Bloque(x, k) \in EnUso(f)
  <2>1. IsInjective(BloquesDe(x)) /\ EnUso(f) \subseteq Bloques
        /\ EnUso(f) = Range(BloquesDe(x))
    BY <1>3 DEF DiscoSano, Separados, EnUso
  <2> QED
    BY <1>3, <2>1, BloquesDeValores DEF Primeros
<1>5. Numero(x) \in Nat
  BY <1>3, NumeroNat
<1>6. CASE i < p
  <2>1. /\ p # paso.desde /\ p % SIZE_BLOQUE = 0 /\ p > 0
        /\ disco[obtener_posicion_absoluta(x, i)] = paso.dato + i - paso.desde
    <3>1. p # paso.desde /\ p > 0 /\ i \in paso.desde .. (p - 1)
      BY <1>2, <1>6
    <3> QED
      BY <1>1, <3>1 DEF DiscoSano, Escribiendo
  <2>2. Abajo(i) \in 0 .. (Numero(x) - 1) /\ Abajo(i) # Abajo(p)
    <3>1. i <= p - 1 /\ p - 1 \in Nat
      BY <1>2, <1>6
    <3>2. Abajo(i) <= Abajo(p - 1) /\ Abajo(i) \in Nat /\ Abajo(p - 1) \in Nat
      BY <1>2, <3>1, AbajoCrece, Division
    <3>3. Abajo(p) = Abajo(p - 1) + 1
      BY <1>2, <2>1, AbajoAnterior
    <3> QED
      BY <1>3, <1>5, <3>2, <3>3
  <2>3. Bloque(x, Abajo(i)) # b /\ Bloque(x, Abajo(i)) \in Bloques
    BY <1>3, <1>4, <2>2 DEF Distintos
  <2>4. i % SIZE_BLOQUE \in 0 .. (SIZE_BLOQUE - 1)
    BY <1>2, Division
  <2>5. /\ obtener_posicion_absoluta(x, i) \in Direcciones
        /\ Abajo(obtener_posicion_absoluta(x, i)) = Bloque(x, Abajo(i))
    BY <2>3, <2>4, DireccionDeBloque
       DEF obtener_posicion_absoluta, obtener_bloque_absoluto
  <2> QED
    BY <1>3, <2>1, <2>2, <2>3, <2>5
<1>7. CASE i >= p
  <2> DEFINE j == i - p
             r == Lugar(p)
             z == b * SIZE_BLOQUE
  <2>1. /\ j \in 0 .. (n - 1) /\ i = p + j /\ j \in Nat
        /\ r \in Nat /\ r + n <= SIZE_BLOQUE
        /\ z \in Int
    BY <1>2, <1>3, <1>7, Producto, Numeros DEF Lugar
  <2>2. r + j < SIZE_BLOQUE
    <3> HIDE DEF j, r
    <3> QED
      BY <1>2, <2>1, Numeros
  <2>3. Abajo(i) = Abajo(p)
    BY <1>2, <2>1, <2>2, MismoBloque DEF Lugar
  <2>4. obtener_posicion_absoluta(x, p + j) = obtener_posicion_absoluta(x, p) + j
    <3>1. Bloque(x, Abajo(p)) \in Int
      BY <1>3, Numeros
    <3> QED
      BY <1>2, <2>1, <2>2, <3>1, PosicionEnBloque DEF Lugar
  <2>5. obtener_posicion_absoluta(x, p) = z + r
    BY DEF obtener_posicion_absoluta, obtener_bloque_absoluto, Lugar
  <2>6. Direccion(b, r + j) = z + (r + j)
    BY DEF Direccion
  <2>7. disco'[Direccion(b, r + j)] = paso.dato + p - paso.desde + j
    BY <1>3, <2>1
  <2> HIDE DEF j, r, z
  <2>8. obtener_posicion_absoluta(x, i) = Direccion(b, r + j)
    BY <2>1, <2>4, <2>5, <2>6
  <2>9. paso.dato + p - paso.desde + j = paso.dato + i - paso.desde
    BY <1>2, <2>1
  <2> QED
    BY <1>3, <2>3, <2>7, <2>8, <2>9
<1> QED
  BY <1>2, <1>6, <1>7

\* The request goes on: where it was, as it is said of the next state.
LEMMA EscribiendoPrima ==
    ASSUME NEW q, paso'.puntero = q, NEW desde, paso'.desde = desde,
           NEW dato, paso'.dato = dato, NEW x, actual' = x,
           Abajo(paso'.fin - 1) < Arriba(x.tamanio),
           q # desde, q % SIZE_BLOQUE = 0,
           paso'.bloque = obtener_bloque_absoluto(x, q - 1)',
           \A i \in desde .. (q - 1) :
              disco'[obtener_posicion_absoluta(x, i)'] = dato + i - desde
    PROVE  Escribiendo'
<1>1. obtener_bloque_absoluto(actual, paso.puntero - 1)'
         = obtener_bloque_absoluto(x, q - 1)'
  BY DEF obtener_bloque_absoluto, Bloque, Puntero, Palabra, Abajo
<1>2. ASSUME NEW i \in desde .. (q - 1)
      PROVE  obtener_posicion_absoluta(actual, i)' = obtener_posicion_absoluta(x, i)'
  BY DEF obtener_posicion_absoluta, obtener_bloque_absoluto, Bloque, Puntero,
         Palabra, Abajo
<1>3. Abajo(paso'.fin - 1) < Arriba(actual'.tamanio)
  OBVIOUS
<1>4. \A i \in paso'.desde .. (paso'.puntero - 1) :
         disco'[obtener_posicion_absoluta(actual, i)'] = paso'.dato + i - paso'.desde
  BY <1>2
<1> QED
  BY <1>1, <1>3, <1>4 DEF Escribiendo

\* An iteration of escribir_archivo
LEMMA EscribirEnBloqueDisco ==
    ASSUME TypeOK, TypeOK', PasoPosible, DiscoSano, EscribirEnBloque
    PROVE  DiscoSano' /\ \A g \in Nombres : FcbDe(g)' = FcbDe(g)
<1> PICK f : f = paso.archivo
  OBVIOUS
<1> PICK x : x = actual
  OBVIOUS
<1> PICK p : p = paso.puntero
  OBVIOUS
<1> PICK b : b = Bloque(x, Abajo(p))
  OBVIOUS
<1> PICK n : n = Caben(p)
  OBVIOUS
<1>1. /\ En("escribir") /\ paso.que = "escribir" /\ estado = "viva"
      /\ UNCHANGED <<bitmap, fcbs, dictionaryFcbs, estado, roto, perdidos>>
  BY DEF EscribirEnBloque, En, promesas
<1>2. /\ paso \in PasosDeEscribir
      /\ p % SIZE_BLOQUE \in 0 .. (SIZE_BLOQUE - 1)
      /\ n \in Nat /\ n > 0 /\ (p % SIZE_BLOQUE) + n <= SIZE_BLOQUE
      /\ p + n <= paso.fin
      /\ p + n < paso.fin => (p % SIZE_BLOQUE) + n = SIZE_BLOQUE
      /\ p \in Nat /\ paso.desde \in Nat /\ paso.desde <= p
  BY <1>1, IteracionValores DEF PasosDeEscribir, Caben
<1>3. /\ f \in Nombres /\ x = dictionaryFcbs[f] /\ EsFcb(x) /\ FcbDe(f) = x
      /\ Abajo(p) \in 0 .. (Numero(x) - 1)
      /\ \A d \in Direcciones : Abajo(d) # b => disco'[d] = disco[d]
      /\ paso' = IF p + n = paso.fin THEN Ocioso
                 ELSE [paso EXCEPT !.puntero = p + n, !.bloque = b]
  <2>1. Iteracion(f, x, p, b, n)
    BY IteracionDisco
  <2> QED
    BY <2>1 DEF Iteracion
<1>4. /\ paso'.que \in {"ocioso", "escribir"}
      /\ paso'.que = "escribir" => paso'.archivo = f
  BY <1>2, <1>3 DEF Ocioso, PasosDeEscribir
<1>5. /\ \A g \in Nombres : ~Cambiando(g) /\ ~Cambiando(g)'
      /\ \A g \in Nombres : FcbDe(g)' = FcbDe(g)
  BY <1>1, <1>4, CambiandoValores, FcbDeValores
<1>6. FcbsIguales' /\ Reduciendo' /\ Creciendo'
  BY <1>1, <1>4, <1>5 DEF DiscoSano, FcbsIguales, Reduciendo, Creciendo, cargar_fcb,
                          FcbEnMemoria
<1>7. ASSUME NEW g \in Nombres
      PROVE  BloquesDe(FcbDe(g))' = BloquesDe(FcbDe(g))
  BY <1>3, <1>5, PunterosIntactos DEF DiscoSano
<1>8. \A g \in Nombres : EnUso(g)' = EnUso(g) /\ Quedan(g)' = Quedan(g)
  BY <1>5, <1>7, QuedanValores DEF EnUso
<1>9. Separados'
  <2>1. ASSUME NEW g \in Nombres
        PROVE  /\ FcbDe(g)' \notin {NoHay, Vacio} =>
                     Arriba(FcbDe(g)'.tamanio) <= SIZE_BLOQUE + 1
               /\ IsInjective(BloquesDe(FcbDe(g))') /\ EnUso(g)' \subseteq Bloques
               /\ \A h \in Nombres \ {g} : EnUso(g)' \cap EnUso(h)' = {}
    BY <1>5, <1>7, <1>8 DEF DiscoSano, Separados
  <2> QED
    BY <2>1 DEF Separados
<1>10. Marcados'
  BY <1>1, <1>8, MarcadosPrima DEF DiscoSano, TypeOK
<1>11. Escribiendo'
  <2>1. CASE p + n = paso.fin
    BY <1>3, <2>1 DEF Escribiendo, Ocioso
  <2>2. CASE p + n # paso.fin
    <3>1. /\ paso'.archivo = f /\ paso'.puntero = p + n /\ paso'.bloque = b
          /\ paso'.desde = paso.desde /\ paso'.fin = paso.fin
          /\ paso'.dato = paso.dato
      BY <1>2, <1>3, <2>2 DEF PasosDeEscribir
    <3>2. actual' = x
      BY <1>1, <1>3, <3>1 DEF actual
    <3>3. Abajo(paso'.fin - 1) < Arriba(actual'.tamanio)
      BY <1>1, <3>1, <3>2 DEF DiscoSano, Escribiendo
    <3>4. \A i \in 0 .. (Numero(x) - 1) : Bloque(x, i)' = Bloque(x, i)
      BY <1>3, <1>5, PunterosIntactos DEF DiscoSano
    <3>5. /\ p + n # paso.desde /\ (p + n) % SIZE_BLOQUE = 0
          /\ Abajo(p + n - 1) = Abajo(p)
      <4>1. p + n < paso.fin /\ n - 1 \in Nat
            /\ (p % SIZE_BLOQUE) + (n - 1) < SIZE_BLOQUE
            /\ (p % SIZE_BLOQUE) + n = SIZE_BLOQUE /\ p + n # paso.desde
        BY <1>2, <2>2, Numeros DEF PasosDeEscribir
      <4>2. Abajo(p + (n - 1)) = Abajo(p)
        BY <1>2, <4>1, MismoBloque
      <4>3. (p + n) % SIZE_BLOQUE = 0
        <5> DEFINE q == Abajo(p)
                   r == p % SIZE_BLOQUE
        <5>1. q \in Nat /\ p = q * SIZE_BLOQUE + r /\ r \in Nat /\ r + n = SIZE_BLOQUE
          <6>1. q \in Nat /\ p = q * SIZE_BLOQUE + r /\ r \in 0 .. (SIZE_BLOQUE - 1)
            BY <1>2, Division
          <6> HIDE DEF q, r
          <6> QED
            BY <4>1, <6>1 DEF r
        <5> HIDE DEF q, r
        <5>2. n \in Nat /\ q * SIZE_BLOQUE \in Nat
              /\ (q + 1) * SIZE_BLOQUE = q * SIZE_BLOQUE + SIZE_BLOQUE
          BY <1>2, <5>1, Producto, Numeros
        <5>4. p + n = (q + 1) * SIZE_BLOQUE + 0
          <6> DEFINE y == q * SIZE_BLOQUE
                     w == (q + 1) * SIZE_BLOQUE
          <6> HIDE DEF y, w
          <6>1. p = y + r /\ w = y + SIZE_BLOQUE /\ y \in Nat
            BY <5>1, <5>2 DEF y, w
          <6>2. p + n = w + 0
            BY <5>1, <5>2, <6>1, Numeros
          <6> QED
            BY <6>2 DEF w
        <5>3. q + 1 \in Int /\ 0 \in 0 .. (SIZE_BLOQUE - 1)
          BY <5>1, Numeros
        <5> QED
          BY <5>3, <5>4, DivisionUnica
      <4>4. p + (n - 1) = p + n - 1
        BY <1>2
      <4> QED
        BY <4>1, <4>2, <4>3, <4>4
    <3> PICK q : q = p + n
      OBVIOUS
    <3> PICK desde : desde = paso.desde
      OBVIOUS
    <3>6. b = obtener_bloque_absoluto(x, q - 1)'
      <4>1. Abajo(q - 1) = Abajo(p)
        <5>1. q - 1 = p + n - 1
          BY <1>2
        <5> QED
          BY <3>5, <5>1
      <4>2. Bloque(x, Abajo(q - 1))' = Bloque(x, Abajo(q - 1))
        BY <1>3, <3>4, <4>1
      <4> QED
        BY <4>1, <4>2 DEF obtener_bloque_absoluto
    <3>7. ASSUME NEW i \in desde .. (q - 1)
          PROVE  disco'[obtener_posicion_absoluta(x, i)']
                    = paso.dato + i - desde
      <4>1. /\ Abajo(i) \in 0 .. (Numero(x) - 1)
            /\ disco'[obtener_posicion_absoluta(x, i)] = paso.dato + i - desde
        <5>1. \A k \in paso.desde .. (p + n - 1) :
                 /\ Abajo(k) \in 0 .. (Numero(x) - 1)
                 /\ disco'[obtener_posicion_absoluta(x, k)]
                       = paso.dato + k - paso.desde
          BY EscritosHasta
        <5>2. i \in paso.desde .. (p + n - 1)
          BY <1>2
        <5> QED
          BY <1>2, <5>1, <5>2
      <4>2. Bloque(x, Abajo(i))' = Bloque(x, Abajo(i))
        BY <3>4, <4>1
      <4>3. obtener_posicion_absoluta(x, i)' = obtener_posicion_absoluta(x, i)
        BY <4>2 DEF obtener_posicion_absoluta, obtener_bloque_absoluto
      <4> QED
        BY <4>1, <4>3
    <3> QED
      <4>1. /\ paso'.puntero = q /\ paso'.desde = desde /\ paso'.bloque = b
            /\ Abajo(paso'.fin - 1) < Arriba(x.tamanio)
            /\ q # desde /\ q % SIZE_BLOQUE = 0
        BY <3>1, <3>2, <3>3, <3>5
      <4>2. \A i \in desde .. (q - 1) :
               disco'[obtener_posicion_absoluta(x, i)'] = paso'.dato + i - desde
        BY <3>1, <3>7
      <4> QED
        BY <3>2, <3>6, <4>1, <4>2, EscribiendoPrima
  <2> QED
    BY <2>1, <2>2
<1> QED
  BY <1>5, <1>6, <1>9, <1>10, <1>11 DEF DiscoSano

-----------------------------------------------------------------------------
(* The disk it starts with *)

\* The place in its reparto of the block i of a file, that of pointers being the
\* second.
Indice(i) == IF i = 0 THEN 1 ELSE i + 2

\* The blocks of the FCB of a file are those of its reparto.
LEMMA BloquesIniciales ==
    ASSUME NEW r \in Repartos, NEW t \in [Nombres -> Tamanios \cup {NoHay}],
           DiscoDe(r, t), NEW f \in Nombres, t[f] # NoHay, NEW x, x = fcbs[f]
    PROVE  /\ x \in Fcbs /\ t[f] \in Nat /\ x.tamanio = t[f]
           /\ r[f] \in Seq(Bloques) /\ Cabe(t[f], r[f])
           /\ Numero(x) <= SIZE_BLOQUE + 1
           /\ \A i \in 0 .. (Numero(x) - 1) :
                 /\ Indice(i) \in 1 .. Necesita(t[f])
                 /\ Bloque(x, i) = r[f][Indice(i)]
           /\ Numero(x) > 1 => 2 \in 1 .. Necesita(t[f]) /\ x.indirecto = r[f][2]
<1> DEFINE suyos(g) == Suyos(r[g], t[g])
           punteros == {g \in Nombres : Len(suyos(g)) > 1}
           m == Necesita(t[f])
<1>1. /\ r[f] \in Seq(Bloques) /\ t[f] \in Nat /\ Cabe(t[f], r[f])
      /\ Len(suyos(f)) = m
  <2>1. r[f] \in Seq(Bloques) /\ t[f] \in Nat /\ Cabe(t[f], r[f])
    BY RepartosAssumption, PedidosAssumption DEF DiscoDe
  <2> QED
    BY <2>1, SuyosValores
<1>2. x = Fcb(t[f], IF t[f] = 0 THEN 0 ELSE r[f][1],
                    IF f \in punteros THEN r[f][2] ELSE 0)
  BY DEF DiscoDe
<1>3. /\ x.tamanio = t[f]
      /\ t[f] # 0 => x.directo = r[f][1]
      /\ f \in punteros => x.indirecto = r[f][2]
  BY <1>2 DEF Fcb
<1>4. x \in Fcbs
  BY DiscoInicial
<1>5. /\ Numero(x) \in Nat /\ m \in Nat /\ Numero(x) <= SIZE_BLOQUE + 1
      /\ Numero(x) > 1 => m = Numero(x) + 1
      /\ Numero(x) <= 1 => m = Numero(x)
      /\ t[f] # 0 <=> Numero(x) > 0
      /\ f \in punteros <=> Numero(x) > 1
  <2>1. Numero(x) = Arriba(t[f])
    BY <1>3 DEF Numero
  <2>2. f \in punteros <=> m > 1
    BY <1>1
  <2>3. Arriba(t[f]) <= SIZE_BLOQUE + 1
    BY <1>1 DEF Cabe
  <2>4. /\ Arriba(t[f]) \in Nat /\ m \in Nat
        /\ Arriba(t[f]) > 1 => m = Arriba(t[f]) + 1
        /\ Arriba(t[f]) <= 1 => m = Arriba(t[f])
        /\ t[f] > 0 <=> Arriba(t[f]) > 0
    BY <1>1, NecesitaValores, ArribaValores
  <2> HIDE DEF m, punteros
  <2> QED
    BY <1>1, <2>1, <2>2, <2>3, <2>4
<1> DEFINE F(d) == {g \in punteros : r[g][2] = Abajo(d)}
           i3(d) == (d % SIZE_BLOQUE) + 3
<1>9. disco = [d \in Direcciones |->
                  IF F(d) # {} /\ \A g \in F(d) : i3(d) <= Len(suyos(g))
                  THEN r[CHOOSE g \in F(d) : TRUE][i3(d)]
                  ELSE CANTIDAD_BLOQUES + d]
  BY DEF DiscoDe
<1> HIDE DEF m
<1>6. \A i \in 0 .. (Numero(x) - 1) : Indice(i) \in 1 .. m
  BY <1>5 DEF Indice
<1>7. ASSUME NEW i \in 0 .. (Numero(x) - 1)
      PROVE  Bloque(x, i) = r[f][Indice(i)]
  <2>1. CASE i = 0
    BY <1>3, <1>5, <2>1 DEF Bloque, Indice
  <2>2. CASE i # 0
    <3> DEFINE d == x.indirecto * SIZE_BLOQUE + (i - 1)
    <3>1. /\ Numero(x) > 1 /\ f \in punteros /\ x.indirecto = r[f][2]
          /\ i - 1 \in 0 .. (SIZE_BLOQUE - 1) /\ i + 2 = (i - 1) + 3 /\ i + 2 <= m
          /\ 2 \in 1 .. m
      BY <1>3, <1>5, <2>2, Numeros
    <3>2. x.indirecto \in Bloques
      BY <1>4, FcbTipos
    <3>3. d \in Direcciones /\ Abajo(d) = r[f][2] /\ d % SIZE_BLOQUE = i - 1
      <4>1. d \in Direcciones /\ Abajo(d) = x.indirecto
        BY <3>1, <3>2, DireccionDeBloque
      <4>2. d % SIZE_BLOQUE = i - 1
        <5>1. \A c \in Bloques : c \in Int
          BY Numeros
        <5> QED
          BY <3>1, <3>2, <5>1, DivisionUnica
      <4> QED
        BY <3>1, <4>1, <4>2
    <3>4. F(d) = {f}
      <4>1. f \in F(d)
        BY <3>1, <3>3
      <4>2. ASSUME NEW g \in F(d), g # f
            PROVE  FALSE
        <5>1. /\ g \in Nombres /\ r[g][2] = r[f][2] /\ r[g] \in Seq(Bloques)
              /\ Len(suyos(g)) > 1
          BY <3>3, RepartosAssumption
        <5>2. t[g] # NoHay
          BY <5>1 DEF Suyos
        <5>3. t[g] \in Nat /\ Cabe(t[g], r[g])
          BY <5>1, <5>2, PedidosAssumption DEF DiscoDe
        <5>4. 2 \in DOMAIN r[g]
          <6>1. Len(suyos(g)) = Necesita(t[g]) /\ Necesita(t[g]) \in Nat
            BY <5>1, <5>2, <5>3, SuyosValores, NecesitaValores
          <6>2. 2 \in 1 .. Necesita(t[g])
            BY <5>1, <6>1
          <6> QED
            BY <5>1, <5>2, <5>3, <6>2, SuyosValores
        <5>5. 2 \in DOMAIN r[f]
          BY <1>1, <3>1, SuyosValores DEF m
        <5>6. Range(r[f]) \cap Range(r[g]) = {}
          BY <4>2, <5>1, RepartosAssumption
        <5> QED
          BY <5>1, <5>4, <5>5, <5>6 DEF Range
      <4> QED
        BY <4>1, <4>2
    <3>5. i3(d) = i + 2
      BY <3>1, <3>3
    <3>6. F(d) # {} /\ \A g \in F(d) : i3(d) <= Len(suyos(g))
      BY <1>1, <3>1, <3>4, <3>5 DEF m
    <3>7. (CHOOSE g \in F(d) : TRUE) = f
      BY <3>4
    <3> HIDE DEF F, i3, suyos, punteros
    <3>8. disco[d] = r[f][i + 2]
      BY <1>9, <3>3, <3>5, <3>6, <3>7
    <3> QED
      BY <2>2, <3>3, <3>8 DEF Bloque, Puntero, Palabra, Indice
  <2> QED
    BY <2>1, <2>2
<1>8. Numero(x) > 1 => 2 \in 1 .. m /\ x.indirecto = r[f][2]
  BY <1>3, <1>5
<1> QED
  BY <1>1, <1>3, <1>4, <1>5, <1>6, <1>7, <1>8 DEF m

\* The disk it starts with is well: each file has the first blocks of a reparto.
LEMMA InicialDisco == Init => DiscoSano
<1> SUFFICES ASSUME Init
             PROVE  DiscoSano
  OBVIOUS
<1>1. TypeOK /\ estado = "caida" /\ paso.que = "ocioso" /\ perdidos = {}
  BY TiposInicial DEF Init, Ocioso
<1>2. PICK r \in Repartos, t \in [Nombres -> Tamanios \cup {NoHay}] : DiscoDe(r, t)
  BY DEF Init
<1>3. \A f \in Nombres : ~Cambiando(f) /\ FcbDe(f) = fcbs[f]
  BY <1>1, CambiandoValores, FcbDeValores
<1>4. /\ fcbs \in [Nombres -> Fcbs \cup {NoHay}]
      /\ \A f \in Nombres : fcbs[f] # Vacio
  <2>1. fcbs \in [Nombres -> Fcbs \cup {NoHay}]
    BY <1>2, DiscoInicial
  <2> QED
    BY <2>1, ValoresAssumption
<1>5. FcbsIguales /\ Reduciendo /\ Creciendo /\ Escribiendo
  BY <1>1, <1>3, <1>4 DEF FcbsIguales, Reduciendo, Creciendo, Escribiendo
<1>6. ASSUME NEW f \in Nombres
      PROVE  /\ EnUso(f) = Range(Suyos(r[f], t[f]))
             /\ EnUso(f) \subseteq Bloques \cap Range(r[f])
             /\ IsInjective(BloquesDe(fcbs[f]))
             /\ fcbs[f] # NoHay => Numero(fcbs[f]) <= SIZE_BLOQUE + 1
  <2>1. CASE t[f] = NoHay
    <3>1. fcbs[f] = NoHay
      BY <1>2, <2>1 DEF DiscoDe
    <3>2. BloquesDe(fcbs[f]) = <<>> /\ Suyos(r[f], t[f]) = <<>>
      BY <2>1, <3>1 DEF BloquesDe, Suyos
    <3> QED
      BY <1>3, <3>1, <3>2 DEF EnUso, Range, IsInjective
  <2>2. CASE t[f] # NoHay
    <3> PICK x : x = fcbs[f]
      OBVIOUS
    <3> DEFINE n == Numero(x)
               m == Necesita(t[f])
               s == Suyos(r[f], t[f])
    <3>1. /\ x \in Fcbs /\ t[f] \in Nat /\ x.tamanio = t[f]
          /\ r[f] \in Seq(Bloques) /\ Cabe(t[f], r[f])
          /\ n <= SIZE_BLOQUE + 1
          /\ \A i \in 0 .. (n - 1) :
                Indice(i) \in 1 .. m /\ Bloque(x, i) = r[f][Indice(i)]
          /\ n > 1 => 2 \in 1 .. m /\ x.indirecto = r[f][2]
      BY <1>2, <2>2, BloquesIniciales
    <3>2. /\ DOMAIN s = 1 .. m
          /\ \A i \in 1 .. m : /\ s[i] = r[f][i]
                               /\ i \in DOMAIN r[f] /\ r[f][i] \in Bloques
      BY <2>2, <3>1, SuyosValores
    <3>3. /\ n \in Nat /\ m \in Nat
          /\ n > 1 => m = n + 1
          /\ n <= 1 => m = n
      BY <3>1, NecesitaValores, ArribaValores DEF Numero
    <3>4. EsFcb(x)
      BY <3>1 DEF EsFcb
    <3> HIDE DEF n, m, s
    <3>5. \A i, j \in 1 .. m : r[f][i] = r[f][j] => i = j
      <4>1. IsInjective(r[f])
        BY RepartosAssumption
      <4> QED
        BY <3>2, <4>1 DEF IsInjective
    <3>6. Distintos(x)
      <4>1. ASSUME NEW i \in 0 .. (n - 1), NEW j \in 0 .. (n - 1),
                   Bloque(x, i) = Bloque(x, j)
            PROVE  i = j
        <5>1. Indice(i) = Indice(j)
          BY <3>1, <3>5, <4>1
        <5> QED
          BY <3>3, <5>1 DEF Indice
      <4>2. ASSUME n > 1, NEW i \in 0 .. (n - 1), Bloque(x, i) = x.indirecto
            PROVE  FALSE
        <5>1. Indice(i) = 2
          BY <3>1, <3>5, <4>2
        <5> QED
          BY <3>3, <5>1 DEF Indice
      <4> QED
        BY <4>1, <4>2 DEF Distintos, n
    <3>7. EnUso(f) = Range(s)
      <4>1. EnUso(f) = Primeros(x, n, n > 1)
        BY <1>3, <3>4, BloquesDeValores DEF EnUso, n
      <4>2. ASSUME NEW b \in Primeros(x, n, n > 1)
            PROVE  \E i \in 1 .. m : b = s[i]
        BY <3>1, <3>2 DEF Primeros
      <4>3. ASSUME NEW i \in 1 .. m
            PROVE  s[i] \in Primeros(x, n, n > 1)
        <5>1. CASE i = 2
          <6>1. n > 1 /\ s[i] = x.indirecto
            BY <3>1, <3>2, <3>3, <4>3, <5>1, SMTT(30)
          <6> QED
            BY <6>1 DEF Primeros
        <5>2. CASE i # 2
          <6>1. PICK k \in 0 .. (n - 1) : Indice(k) = i
            <7>1. CASE i = 1
              <8>1. 0 \in 0 .. (n - 1) /\ Indice(0) = 1
                BY <3>3, <4>3, <7>1 DEF Indice
              <8> QED
                BY <7>1, <8>1
            <7>2. CASE i # 1
              <8>1. i - 2 \in 0 .. (n - 1) /\ Indice(i - 2) = i
                BY <3>3, <4>3, <5>2, <7>2 DEF Indice
              <8> QED
                BY <8>1
            <7> QED
              BY <7>1, <7>2
          <6>2. s[i] = Bloque(x, k)
            BY <3>1, <3>2, <6>1
          <6> QED
            BY <6>1, <6>2 DEF Primeros
        <5> QED
          BY <5>1, <5>2
      <4> QED
        BY <3>2, <4>1, <4>2, <4>3 DEF Range
    <3>8. Range(s) \subseteq Bloques \cap Range(r[f])
      BY <3>2 DEF Range
    <3> QED
      BY <3>1, <3>4, <3>6, <3>7, <3>8, BloquesDeValores DEF n, s
  <2> QED
    BY <2>1, <2>2
<1>7. Separados
  <2>1. ASSUME NEW f \in Nombres, NEW g \in Nombres \ {f}
        PROVE  EnUso(f) \cap EnUso(g) = {}
    <3>1. Range(r[f]) \cap Range(r[g]) = {}
      BY RepartosAssumption
    <3> QED
      BY <1>6, <3>1
  <2> QED
    BY <1>3, <1>4, <1>6, <2>1 DEF Separados, Numero
<1>8. Marcados
  <2>1. \A b \in Bloques : bitmap[b] <=> \E f \in Nombres : b \in Range(Suyos(r[f], t[f]))
    BY <1>2 DEF DiscoDe
  <2>2. \A f \in Nombres : Quedan(f) = EnUso(f)
    BY <1>3, QuedanValores
  <2> QED
    BY <1>6, <2>1, <2>2 DEF Marcados
<1> QED
  BY <1>5, <1>7, <1>8 DEF DiscoSano

-----------------------------------------------------------------------------
(* Files that grow, and lost ones *)

\* A step for a lost file: the others keep their FCBs, and no block is given back.
DePerdido(f) ==
    /\ f \in Nombres /\ f \in perdidos'
    /\ estado = "viva" /\ estado' = "viva"
    /\ roto \subseteq roto' /\ perdidos \subseteq perdidos'
    /\ paso # Ocioso => paso.archivo = f
    /\ paso'.que # "escribir" /\ (paso' # Ocioso => paso'.archivo = f)
    /\ \A g \in Nombres \ perdidos' :
          fcbs'[g] = fcbs[g] /\ dictionaryFcbs'[g] = dictionaryFcbs[g]
    /\ \A b \in Bloques : bitmap[b] => bitmap'[b]

\* The others are not being changed, and have the same FCB.
LEMMA PerdidoFcb ==
    ASSUME TypeOK, NEW f, DePerdido(f), NEW g \in Nombres \ perdidos'
    PROVE  /\ g \notin perdidos /\ ~Cambiando(g) /\ ~Cambiando(g)'
           /\ FcbDe(g) = dictionaryFcbs[g] /\ FcbDe(g)' = FcbDe(g)
           /\ disco' = disco => BloquesDe(FcbDe(g))' = BloquesDe(FcbDe(g))
<1>1. g \notin perdidos /\ g # f
  BY DEF DePerdido
<1>2. ~Cambiando(g) /\ ~Cambiando(g)'
  BY <1>1 DEF DePerdido, Cambiando, Ocioso
<1>3. FcbDe(g) = dictionaryFcbs[g] /\ FcbDe(g)' = FcbDe(g)
  BY <1>1, <1>2, FcbDeValores DEF DePerdido
<1>4. disco' = disco => BloquesDe(FcbDe(g))' = BloquesDe(FcbDe(g))
  BY <1>3, BloquesPrima
<1> QED
  BY <1>1, <1>2, <1>3, <1>4

\* It keeps the disk well if the others keep their blocks.
LEMMA PerdidoDisco ==
    ASSUME TypeOK, TypeOK', DiscoSano, NEW f, DePerdido(f),
           \A g \in Nombres \ perdidos' : BloquesDe(FcbDe(g))' = BloquesDe(FcbDe(g))
    PROVE  /\ FcbsIguales' /\ Reduciendo' /\ Separados' /\ Marcados' /\ Escribiendo'
           /\ \A g \in Nombres \ perdidos' : EnUso(g)' = EnUso(g)
<1>1. ASSUME NEW g \in Nombres \ perdidos'
      PROVE  /\ g \notin perdidos /\ ~Cambiando(g) /\ ~Cambiando(g)'
             /\ FcbDe(g)' = FcbDe(g)
             /\ BloquesDe(FcbDe(g))' = BloquesDe(FcbDe(g)) /\ EnUso(g)' = EnUso(g)
             /\ fcbs'[g] = fcbs[g] /\ dictionaryFcbs'[g] = dictionaryFcbs[g]
  BY PerdidoFcb DEF DePerdido, EnUso
<1>2. ASSUME NEW g \in perdidos'
      PROVE  /\ ~Cambiando(g)' /\ FcbDe(g)' = NoHay
             /\ BloquesDe(FcbDe(g))' = <<>> /\ EnUso(g)' = {}
  <2>1. ~Cambiando(g)' /\ FcbDe(g)' = NoHay
    BY FcbDeValores, CambiandoValores
  <2>2. BloquesDe(FcbDe(g))' = <<>>
    BY <2>1 DEF BloquesDe
  <2>3. EnUso(g)' = Range(BloquesDe(FcbDe(g))')
    BY DEF EnUso, Range
  <2>4. Range(<<>>) = {}
    BY DEF Range
  <2> QED
    BY <2>1, <2>2, <2>3, <2>4
<1>3. FcbsIguales'
  BY <1>1 DEF DePerdido, DiscoSano, FcbsIguales, cargar_fcb, FcbEnMemoria
<1>4. Reduciendo' /\ Escribiendo'
  BY <1>1, <1>2 DEF DePerdido, Reduciendo, Escribiendo
<1>5. Separados'
  <2>1. ASSUME NEW g \in Nombres
        PROVE  /\ FcbDe(g)' \notin {NoHay, Vacio} =>
                     Arriba(FcbDe(g)'.tamanio) <= SIZE_BLOQUE + 1
               /\ IsInjective(BloquesDe(FcbDe(g))') /\ EnUso(g)' \subseteq Bloques
               /\ EnUso(g)' \subseteq EnUso(g)
    <3>1. CASE g \in perdidos'
      BY <1>2, <3>1 DEF IsInjective
    <3>2. CASE g \notin perdidos'
      BY <1>1, <3>2 DEF DiscoSano, Separados
    <3> QED
      BY <3>1, <3>2
  <2>2. \A g \in Nombres : \A h \in Nombres \ {g} : EnUso(g) \cap EnUso(h) = {}
    BY DEF DiscoSano, Separados
  <2>3. \A g \in Nombres : \A h \in Nombres \ {g} : EnUso(g)' \cap EnUso(h)' = {}
    BY <2>1, <2>2
  <2> QED
    BY <2>1, <2>3 DEF Separados
<1>6. Marcados'
  <2>1. roto' # {} /\ perdidos' \subseteq roto'
    BY DEF TypeOK, DePerdido
  <2>2. ASSUME NEW g \in Nombres \ roto', NEW b \in Quedan(g)'
        PROVE  bitmap'[b]
    <3>1. g \notin perdidos' /\ g \notin roto
      BY <2>1 DEF DePerdido
    <3>2. b \in EnUso(g) /\ b \in Quedan(g)
      BY <1>1, <2>2, <3>1, QuedanValores
    <3>3. b \in Bloques /\ bitmap[b]
      BY <3>1, <3>2 DEF DiscoSano, Separados, Marcados
    <3> QED
      BY <3>3 DEF DePerdido
  <2> QED
    BY <2>1, <2>2 DEF Marcados
<1> QED
  BY <1>1, <1>3, <1>4, <1>5, <1>6

\* A lost file may be created again, and its FCB written.
PerdidoQuieto(f) ==
    \/ CrearArchivo(f)
    \/ \E t \in Tamanios : Mantener(f, t)
    \/ paso.archivo = f /\ (AbrirFcb \/ CerrarFcb)

\* Such a step touches that file alone, and no block,
LEMMA QuietoPerdido ==
    ASSUME TypeOK, NEW f \in perdidos, PerdidoQuieto(f)
    PROVE  /\ DePerdido(f) /\ disco' = disco /\ UNCHANGED <<roto, perdidos>>
           /\ paso'.que \in {"ocioso", "abrir_fcb", "cerrar_fcb"}
<1>1. f \in Nombres
  BY DEF TypeOK
<1>2. CASE CrearArchivo(f)
  BY <1>1, <1>2 DEF CrearArchivo, Pide, promesas, DePerdido, TypeOK
<1>3. CASE \E t \in Tamanios : Mantener(f, t)
  BY <1>1, <1>3 DEF Mantener, Truncado, Pide, promesas, DePerdido
<1>4. CASE paso.archivo = f /\ AbrirFcb
  <2>1. paso \in PasosDeTruncar
    BY <1>4, PasoTipos DEF AbrirFcb, En, Truncamientos
  <2>2. paso'.archivo = f /\ paso'.que = "cerrar_fcb"
    BY <1>4, <2>1 DEF AbrirFcb, A, PasosDeTruncar
  <2> QED
    BY <1>1, <1>4, <2>2 DEF AbrirFcb, En, promesas, DePerdido, TypeOK
<1>5. CASE paso.archivo = f /\ CerrarFcb
  BY <1>1, <1>5 DEF CerrarFcb, En, Ocioso, promesas, DePerdido, TypeOK
<1> QED
  BY <1>2, <1>3, <1>4, <1>5 DEF PerdidoQuieto

\* and keeps the disk well.
LEMMA QuietoDisco ==
    ASSUME TypeOK, TypeOK', DiscoSano, NEW f \in perdidos, PerdidoQuieto(f)
    PROVE  DiscoSano'
<1>1. /\ DePerdido(f) /\ disco' = disco
      /\ paso'.que \in {"ocioso", "abrir_fcb", "cerrar_fcb"}
  BY QuietoPerdido
<1>2. /\ FcbsIguales' /\ Reduciendo' /\ Separados' /\ Marcados' /\ Escribiendo'
  BY <1>1, PerdidoFcb, PerdidoDisco
<1>3. Creciendo'
  BY <1>1 DEF Creciendo
<1> QED
  BY <1>2, <1>3 DEF DiscoSano

\* I_TRUNCATE, when the file grows: it is lost, and it alone is touched.
LEMMA AmpliarPerdido ==
    ASSUME TypeOK, NEW f \in Nombres, NEW tamanio, Ampliar(f, tamanio),
           roto' # Nombres
    PROVE  /\ DePerdido(f) /\ disco' = disco /\ f \notin perdidos
           /\ roto' = roto \cup {f} /\ perdidos' = roto'
           /\ paso'.archivo = f /\ actual' = dictionaryFcbs[f]
           /\ paso'.que = "tomar" => dictionaryFcbs[f].asignados \notin {0, 1}
           /\ paso'.que \in {"tomar_directo", "tomar_indirecto", "tomar"}
<1>1. /\ Pide(f) /\ UNCHANGED <<fcbs, dictionaryFcbs>>
      /\ f \notin perdidos /\ roto' = roto \cup {f} /\ perdidos' = roto'
  BY DEF Ampliar
<1>2. PICK que \in {"tomar_directo", "tomar_indirecto", "tomar"} :
         /\ paso' = Truncado(f, tamanio, que)
         /\ que = "tomar" => dictionaryFcbs[f].asignados \notin {0, 1}
  BY DEF Ampliar
<1>3. paso'.que = que /\ paso'.archivo = f /\ actual' = dictionaryFcbs[f]
  BY <1>1, <1>2 DEF Truncado, actual
<1>4. DePerdido(f) /\ disco' = disco
  BY <1>1, <1>3 DEF Pide, TypeOK, DePerdido
<1> QED
  BY <1>1, <1>2, <1>3, <1>4

\* So it keeps the disk well.
LEMMA AmpliarDisco ==
    ASSUME TypeOK, TypeOK', DiscoSano, NEW f \in Nombres, NEW tamanio,
           Ampliar(f, tamanio), roto' # Nombres
    PROVE  DiscoSano'
<1> DEFINE fcb == dictionaryFcbs[f]
<1>1. /\ DePerdido(f) /\ disco' = disco /\ f \notin perdidos
      /\ roto' = roto \cup {f} /\ perdidos' = roto'
      /\ paso'.archivo = f /\ actual' = fcb
      /\ paso'.que = "tomar" => fcb.asignados \notin {0, 1}
      /\ paso'.que \in {"tomar_directo", "tomar_indirecto", "tomar"}
  BY AmpliarPerdido
<1>2. /\ FcbsIguales' /\ Reduciendo' /\ Separados' /\ Marcados' /\ Escribiendo'
      /\ \A g \in Nombres \ perdidos' : EnUso(g)' = EnUso(g)
  BY <1>1, PerdidoFcb, PerdidoDisco
<1>3. ASSUME fcb.asignados \notin {0, 1}
      PROVE  fcb.asignados > 0 /\ fcb.indirecto \in EnUso(f)
  <2>1. /\ FcbDe(f) = fcb /\ EsFcb(fcb) /\ fcb.asignados = Numero(fcb)
    BY <1>1, EmpiezaValores DEF Ampliar, existe_archivo, DiscoSano
  <2>2. Numero(fcb) > 1
    BY <1>3, <2>1, NumeroNat
  <2>3. EnUso(f) = Primeros(fcb, Numero(fcb), Numero(fcb) > 1)
    BY <2>1, BloquesDeValores DEF EnUso
  <2>4. fcb.indirecto \in EnUso(f)
    BY <2>2, <2>3 DEF Primeros
  <2>5. fcb.asignados > 0
    BY <2>1, <2>2, NumeroNat
  <2> QED
    BY <2>4, <2>5
<1>4. \A g \in Nombres \ perdidos' : EnUso(f) \cap EnUso(g)' = {}
  <2>1. \A g \in Nombres \ perdidos' : g \in Nombres \ {f}
    BY <1>1 DEF DePerdido
  <2> QED
    BY <1>2, <2>1 DEF DiscoSano, Separados
<1>5. Creciendo'
  BY <1>1, <1>3, <1>4 DEF Creciendo
<1> QED
  BY <1>2, <1>5 DEF DiscoSano

\* A set of numbers has a least one.
LEMMA MinDeNumeros ==
    ASSUME NEW S \in SUBSET Nat, S # {}
    PROVE  Min(S) \in S
<1> DEFINE R == OpToRel(<, Nat)
<1>1. IsWellFoundedOn(R, Nat)
  BY NatLessThanWellFounded, Zenon
<1>2. \A a, b \in Nat : a < b => <<a, b>> \in R
  BY DEF R, OpToRel
<1> HIDE DEF R
<1>3. PICK x \in S : \A y \in S : <<y, x>> \notin R
  BY <1>1, WFMin
<1>4. ASSUME NEW y \in S
      PROVE  x <= y
  <2>1. x \in Nat /\ y \in Nat /\ (y < x => <<y, x>> \in R)
    BY <1>2
  <2> QED
    BY <1>3, <2>1
<1> QED
  BY <1>3, <1>4 DEF Min

\* The block that is taken is free.
LEMMA BloqueLibre ==
    ASSUME NEW b, b = bitmap_encontrar_bloque_libre, b \in Bloques
    PROVE  ~bitmap[b]
<1> DEFINE libres == {c \in Bloques : ~bitmap[c]}
<1>1. libres # {} => Min(libres) \in libres
  <2>1. libres \in SUBSET Nat
    BY Numeros
  <2> HIDE DEF libres
  <2> QED
    BY <2>1, MinDeNumeros
<1>2. b = IF libres = {} THEN FUERA ELSE Min(libres)
  BY DEF bitmap_encontrar_bloque_libre
<1>3. FUERA \notin Bloques
  BY DEF FUERA, Bloques
<1> QED
  BY <1>1, <1>2, <1>3

\* A block for a file that grows, or the end of the program when there is none.
TomarUno == TomarDirecto \/ TomarIndirecto \/ Tomar

\* It touches that file alone, and the block was free,
LEMMA TomarPerdido ==
    ASSUME TypeOK, PasoPosible, DiscoSano, TomarUno
    PROVE  /\ estado = "viva" /\ paso.archivo \in perdidos /\ roto = perdidos
           /\ ~SeDetiene =>
                 /\ DePerdido(paso.archivo) /\ disco' = disco
                 /\ UNCHANGED <<roto, perdidos>>
                 /\ paso'.archivo = paso.archivo
                 /\ paso'.que \in {"abrir_fcb", "tomar_indirecto", "tomar"}
                 /\ paso'.que = "tomar" =>
                       /\ actual'.asignados > 0
                       /\ \/ paso.que = "tomar" /\ actual' = actual
                          \/ actual'.indirecto \in Bloques
                             /\ ~bitmap[actual'.indirecto]
<1> PICK f : f = paso.archivo
  OBVIOUS
<1> PICK b : b = bitmap_encontrar_bloque_libre
  OBVIOUS
<1>1. /\ paso.que \in {"tomar_directo", "tomar_indirecto", "tomar"} /\ En(paso.que)
      /\ estado = "viva" /\ paso.archivo \in perdidos /\ roto = perdidos
  BY DEF TomarUno, TomarDirecto, TomarIndirecto, Tomar, En, DiscoSano, Creciendo
<1>2. /\ paso \in PasosDeTruncar /\ f \in Nombres /\ actual \in FcbsEnMemoria
      /\ actual.asignados \in Nat /\ paso # Ocioso
  BY <1>1, PasoTipos, ActualTipos DEF Truncamientos, FcbsEnMemoria
<1>3. PICK fcb, siguiente :
         /\ Marcar(b, TRUE, fcb, siguiente)
         /\ siguiente.archivo = f
         /\ siguiente.que \in {"abrir_fcb", "tomar_indirecto", "tomar"}
         /\ siguiente.que = "tomar" =>
               /\ fcb.asignados > 0
               /\ \/ paso.que = "tomar" /\ fcb = actual
                  \/ fcb.indirecto = b
  <2>1. CASE TomarDirecto
    <3> DEFINE solo == paso.tamanio <= SIZE_BLOQUE
               que == IF solo THEN "abrir_fcb" ELSE "tomar_indirecto"
    <3>1. Marcar(b, TRUE, [actual EXCEPT !.asignados = b + (IF solo THEN 2 ELSE 1)],
                 A(que))
      BY <2>1 DEF TomarDirecto
    <3>2. A(que).archivo = f /\ A(que).que = que /\ que # "tomar"
      BY <1>2 DEF A, PasosDeTruncar
    <3> QED
      BY <3>1, <3>2
  <2>2. CASE TomarIndirecto
    <3> DEFINE fcb == [actual EXCEPT !.indirecto = b, !.asignados = @ + 1]
    <3>1. Marcar(b, TRUE, fcb, A("tomar"))
      BY <2>2 DEF TomarIndirecto
    <3>2. A("tomar").archivo = f /\ A("tomar").que = "tomar"
      BY <1>2 DEF A, PasosDeTruncar
    <3>3. fcb.asignados > 0 /\ fcb.indirecto = b
      BY <1>2 DEF FcbsEnMemoria
    <3> HIDE DEF fcb
    <3> QED
      BY <3>1, <3>2, <3>3
  <2>3. CASE Tomar
    <3> DEFINE siguiente == [paso EXCEPT !.tomados = Append(@, b)]
    <3>1. Marcar(b, TRUE, actual, siguiente) /\ paso.que = "tomar"
      BY <2>3 DEF Tomar, En
    <3>2. siguiente.archivo = f /\ siguiente.que = "tomar"
      BY <1>2, <3>1 DEF PasosDeTruncar
    <3>3. actual.asignados > 0
      BY <3>1 DEF DiscoSano, Creciendo
    <3> HIDE DEF siguiente
    <3> QED
      BY <3>1, <3>2, <3>3
  <2> QED
    BY <2>1, <2>2, <2>3 DEF TomarUno
<1>4. ASSUME ~SeDetiene
      PROVE  /\ DePerdido(f) /\ disco' = disco /\ UNCHANGED <<roto, perdidos>>
             /\ paso' = siguiente /\ actual' = fcb /\ b \in Bloques
  <2>1. /\ b \in Bloques
        /\ bitmap' = [bitmap EXCEPT ![b] = TRUE]
        /\ dictionaryFcbs' = [dictionaryFcbs EXCEPT ![f] = fcb]
        /\ paso' = siguiente
        /\ UNCHANGED <<disco, fcbs, estado, roto, perdidos>>
    BY <1>3, <1>4 DEF Marcar, promesas
  <2>2. actual' = fcb
    BY <1>2, <1>3, <2>1 DEF actual, TypeOK
  <2>3. DePerdido(f)
    BY <1>1, <1>2, <1>3, <2>1 DEF DePerdido, TypeOK
  <2> QED
    BY <2>1, <2>2, <2>3
<1>5. b \in Bloques => ~bitmap[b]
  BY BloqueLibre
<1> QED
  BY <1>1, <1>3, <1>4, <1>5

\* and so no file loses one.
LEMMA TomarDisco ==
    ASSUME TypeOK, TypeOK', PasoPosible, DiscoSano, TomarUno
    PROVE  DiscoSano'
<1> PICK f : f = paso.archivo
  OBVIOUS
<1>1. /\ estado = "viva" /\ f \in perdidos /\ roto = perdidos
      /\ ~SeDetiene =>
            /\ DePerdido(f) /\ disco' = disco
            /\ UNCHANGED <<roto, perdidos>>
            /\ paso'.archivo = f
            /\ paso'.que \in {"abrir_fcb", "tomar_indirecto", "tomar"}
            /\ paso'.que = "tomar" =>
                  /\ actual'.asignados > 0
                  /\ \/ paso.que = "tomar" /\ actual' = actual
                     \/ actual'.indirecto \in Bloques /\ ~bitmap[actual'.indirecto]
  BY TomarPerdido
<1>2. CASE SeDetiene
  BY <1>1, <1>2, SeDetieneDisco
<1>3. CASE ~SeDetiene
  <2>1. /\ FcbsIguales' /\ Reduciendo' /\ Separados' /\ Marcados' /\ Escribiendo'
        /\ \A g \in Nombres \ perdidos' : EnUso(g)' = EnUso(g)
    BY <1>1, <1>3, PerdidoFcb, PerdidoDisco
  <2>2. ASSUME paso'.que = "tomar", NEW g \in Nombres \ perdidos'
        PROVE  actual'.indirecto \notin EnUso(g)'
    <3>1. EnUso(g)' = EnUso(g) /\ g \in Nombres \ perdidos /\ g \notin roto
      BY <1>1, <1>3, <2>1
    <3>2. CASE paso.que = "tomar" /\ actual' = actual
      BY <3>1, <3>2 DEF DiscoSano, Creciendo
    <3>3. CASE ~bitmap[actual'.indirecto]
      <4>1. Quedan(g) = EnUso(g)
        BY <1>1, <1>3, PerdidoFcb, QuedanValores
      <4> QED
        BY <3>1, <3>3, <4>1 DEF DiscoSano, Marcados
    <3> QED
      BY <1>1, <1>3, <2>2, <3>2, <3>3
  <2>3. Creciendo'
    BY <1>1, <1>3, <2>2 DEF Creciendo
  <2> QED
    BY <2>1, <2>3 DEF DiscoSano
<1> QED
  BY <1>2, <1>3

\* asignar_bloques, at fclose: the pointers that fit are written in the block of
\* pointers of the file, and nowhere else.
LEMMA PunterosPerdido ==
    ASSUME TypeOK, PasoPosible, DiscoSano, EscribirPunteros, roto' # Nombres,
           NEW b, b = actual.indirecto
    PROVE  /\ DePerdido(paso.archivo) /\ UNCHANGED <<roto, perdidos>>
           /\ paso'.que = "abrir_fcb"
           /\ \A g \in Nombres \ perdidos : b \notin EnUso(g)
           /\ \A d \in Direcciones : Abajo(d) # b => disco'[d] = disco[d]
<1> DEFINE n == Len(paso.tomados)
           lugar == actual.asignados - 1
<1>1. /\ paso.que = "tomar" /\ En("tomar") /\ estado = "viva"
      /\ disco' = Escrito(b * SIZE_BLOQUE + actual.asignados - 1, paso.tomados)
      /\ lugar + n <= SIZE_BLOQUE /\ paso' = A("abrir_fcb")
      /\ UNCHANGED <<bitmap, fcbs, dictionaryFcbs, estado, roto, perdidos>>
  BY DEF EscribirPunteros, En
<1>2. /\ paso \in PasosDeTruncar /\ paso.archivo \in Nombres /\ paso # Ocioso
      /\ actual \in FcbsEnMemoria /\ actual.asignados \in Nat /\ b \in Bloques
  BY <1>1, PasoTipos, ActualTipos DEF Truncamientos, FcbsEnMemoria
<1>3. /\ paso.archivo \in perdidos /\ actual.asignados > 0
      /\ \A g \in Nombres \ perdidos : b \notin EnUso(g)
  BY <1>1 DEF DiscoSano, Creciendo
<1>4. paso'.archivo = paso.archivo /\ paso'.que = "abrir_fcb"
  BY <1>1, <1>2 DEF A, PasosDeTruncar
<1>5. DePerdido(paso.archivo)
  BY <1>1, <1>2, <1>3, <1>4 DEF DePerdido
<1>6. n \in Nat /\ DOMAIN paso.tomados = 1 .. n /\ lugar \in Nat
  BY <1>2, <1>3, LenProperties DEF PasosDeTruncar
<1>7. \A d \in Direcciones : Abajo(d) # b => disco'[d] = disco[d]
  <2>1. b * SIZE_BLOQUE + actual.asignados - 1 = b * SIZE_BLOQUE + lugar
    <3>1. b * SIZE_BLOQUE \in Nat
      BY <1>2, Producto, Numeros
    <3> QED
      BY <1>2, <3>1
  <2> HIDE DEF n, lugar
  <2> QED
    BY <1>1, <1>2, <1>6, <2>1, EscritoValores
<1> QED
  BY <1>1, <1>3, <1>4, <1>5, <1>7

\* So the others keep their pointers and their words.
LEMMA EscribirPunterosDisco ==
    ASSUME TypeOK, TypeOK', PasoPosible, DiscoSano, EscribirPunteros,
           roto' # Nombres
    PROVE  DiscoSano'
<1> PICK b : b = actual.indirecto
  OBVIOUS
<1>1. /\ DePerdido(paso.archivo) /\ UNCHANGED <<roto, perdidos>>
      /\ paso'.que = "abrir_fcb"
      /\ \A g \in Nombres \ perdidos : b \notin EnUso(g)
      /\ \A d \in Direcciones : Abajo(d) # b => disco'[d] = disco[d]
  BY PunterosPerdido
<1>2. ASSUME NEW g \in Nombres \ perdidos'
      PROVE  BloquesDe(FcbDe(g))' = BloquesDe(FcbDe(g))
  <2>1. FcbDe(g)' = FcbDe(g) /\ b \notin EnUso(g)
    BY <1>1, PerdidoFcb
  <2>2. EsFcb(FcbDe(g)) /\ Numero(FcbDe(g)) > 1 => FcbDe(g).indirecto \in EnUso(g)
    BY BloquesDeValores DEF EnUso, Primeros
  <2> QED
    BY <1>1, <2>1, <2>2, PunterosFuera DEF DiscoSano
<1>3. FcbsIguales' /\ Reduciendo' /\ Separados' /\ Marcados' /\ Escribiendo'
  BY <1>1, <1>2, PerdidoDisco
<1>4. Creciendo'
  BY <1>1 DEF Creciendo
<1> QED
  BY <1>3, <1>4 DEF DiscoSano

-----------------------------------------------------------------------------
(* Every step *)

\* What is promised of fewer files is never promised of more again.
LEMMA RotoCrece ==
    ASSUME TypeOK, TypeOK', [Next]_vars, roto' # Nombres
    PROVE  roto \subseteq roto' /\ roto # Nombres
<1>1. roto \subseteq roto'
  <2> DEFINE crece == roto \subseteq roto'
  <2>1. SeDetiene => crece
    BY DEF SeDetiene
  <2>2. \A b, bit, fcb, siguiente : Marcar(b, bit, fcb, siguiente) => crece
    BY <2>1 DEF Marcar, promesas
  <2>3. CASE Iniciar \/ Caer \/ AbrirFcb \/ CerrarFcb \/ EscribirPunteros
             \/ EscribirEnBloque
    BY <2>1, <2>3 DEF Iniciar, Caer, AbrirFcb, CerrarFcb, EscribirPunteros,
                      EscribirEnBloque, promesas, TypeOK
  <2>4. ASSUME NEW f \in Nombres, CrearArchivo(f)
        PROVE  crece
    BY <2>4 DEF CrearArchivo, promesas
  <2>5. ASSUME NEW f \in Nombres, NEW t \in Tamanios, Truncar(f, t)
        PROVE  crece
    BY <2>5 DEF Truncar, Reducir, Mantener, Ampliar, Arriesga, promesas, TypeOK
  <2>6. ASSUME NEW f \in Nombres, NEW n \in Largos, LeerArchivo(f, n)
        PROVE  crece
    BY <2>1, <2>6 DEF LeerArchivo
  <2>7. ASSUME NEW f \in Nombres, NEW n \in Largos, NEW p \in Posiciones,
               EscribirArchivo(f, p, n, CANTIDAD_BLOQUES * (SIZE_BLOQUE + 1))
        PROVE  crece
    BY <2>7 DEF EscribirArchivo, Arriesga, TypeOK
  <2>8. CASE Soltar \/ SoltarIndirecto \/ SoltarDirecto
             \/ TomarDirecto \/ TomarIndirecto \/ Tomar
    BY <2>2, <2>8 DEF Soltar, SoltarIndirecto, SoltarDirecto, TomarDirecto,
                      TomarIndirecto, Tomar
  <2>9. CASE UNCHANGED vars
    BY <2>9 DEF vars, promesas
  <2> QED
    BY <2>3, <2>4, <2>5, <2>6, <2>7, <2>8, <2>9 DEF Next
<1> QED
  BY <1>1 DEF TypeOK

\* Each step keeps the disk well, until nothing is promised of any file.
LEMMA DiscoPaso ==
    ASSUME TypeOK, PasoPosible, roto # Nombres => DiscoSano, [Next]_vars,
           roto' # Nombres
    PROVE  DiscoSano'
<1>1. TypeOK'
  BY TiposPaso
<1>2. DiscoSano
  BY <1>1, RotoCrece
<1>3. CASE Iniciar
  BY <1>1, <1>2, <1>3, IniciarDisco
<1>4. CASE Caer
  BY <1>1, <1>2, <1>4, SeDetieneDisco DEF Caer
<1>5. ASSUME NEW f \in Nombres, CrearArchivo(f)
      PROVE  DiscoSano'
  BY <1>1, <1>2, <1>5, CrearArchivoDisco, QuietoDisco DEF PerdidoQuieto
<1>6. ASSUME NEW f \in Nombres, NEW t \in Tamanios, Truncar(f, t)
      PROVE  DiscoSano'
  <2>1. t \in Nat
    BY PedidosAssumption
  <2>2. CASE Reducir(f, t)
    <3>1. f \notin perdidos
      BY <2>2 DEF Reducir, Arriesga
    <3> QED
      BY <1>1, <1>2, <2>1, <2>2, <3>1, TruncarDisco
  <2>3. CASE Mantener(f, t)
    BY <1>1, <1>2, <2>1, <2>3, TruncarDisco, QuietoDisco DEF PerdidoQuieto
  <2>4. CASE Ampliar(f, t)
    BY <1>1, <1>2, <2>4, AmpliarDisco
  <2> QED
    BY <1>6, <2>2, <2>3, <2>4 DEF Truncar
<1>7. ASSUME NEW f \in Nombres, NEW n \in Largos, LeerArchivo(f, n)
      PROVE  DiscoSano'
  BY <1>1, <1>2, <1>7, SeDetieneDisco DEF LeerArchivo
<1>8. ASSUME NEW f \in Nombres, NEW n \in Largos, NEW p \in Posiciones,
             EscribirArchivo(f, p, n, CANTIDAD_BLOQUES * (SIZE_BLOQUE + 1))
      PROVE  DiscoSano'
  BY <1>1, <1>2, <1>8, EscribirArchivoDisco, PedidosAssumption
<1>9. CASE Soltar \/ SoltarIndirecto \/ SoltarDirecto
  BY <1>1, <1>2, <1>9, SoltarDisco, SoltarIndirectoDisco, SoltarDirectoDisco
<1>10. CASE TomarDirecto \/ TomarIndirecto \/ Tomar \/ EscribirPunteros
  BY <1>1, <1>2, <1>10, TomarDisco, EscribirPunterosDisco DEF TomarUno
<1>11. CASE AbrirFcb \/ CerrarFcb
  BY <1>1, <1>2, <1>11, AbrirFcbDisco, CerrarFcbDisco, QuietoDisco DEF PerdidoQuieto
<1>12. CASE EscribirEnBloque
  BY <1>1, <1>2, <1>12, EscribirEnBloqueDisco
<1>13. CASE UNCHANGED vars
  <2>1. FcbsIguales' /\ Reduciendo' /\ Escribiendo'
    BY <1>2, <1>13
       DEF vars, persistente, promesas, DiscoSano, FcbsIguales, Reduciendo,
           Escribiendo, Cambiando, actual, cargar_fcb, FcbEnMemoria, obtener_bloque_absoluto,
           obtener_posicion_absoluta, Bloque, Puntero, Palabra
  <2>2. /\ bitmap' = bitmap /\ disco' = disco /\ roto' = roto /\ perdidos' = perdidos
        /\ paso' = paso /\ estado' = estado /\ fcbs' = fcbs
        /\ dictionaryFcbs' = dictionaryFcbs
    BY <1>13 DEF vars, persistente, promesas
  <2>3. \A f \in Nombres : (Cambiando(f)' <=> Cambiando(f)) /\ actual' = actual
    BY <2>2 DEF Cambiando, actual
  <2>4. \A f \in Nombres : FcbDe(f)' = FcbDe(f)
    BY <2>2, <2>3, FcbDeValores
  <2>5. \A f \in Nombres : Hereda(FcbDe(f)', FcbDe(f))
    BY <2>4, FcbDeTipos, NumeroNat DEF Hereda
  <2>6. Separados'
    BY <1>1, <1>2, <2>2, <2>5, SeparadosPrima DEF DiscoSano
  <2>7. \A f \in Nombres : EnUso(f)' = EnUso(f)
    BY <2>2, <2>4, BloquesPrima DEF EnUso
  <2>8. \A f \in Nombres : Quedan(f)' = Quedan(f)
    BY <2>2, <2>3, <2>7, QuedanValores
  <2>9. Marcados'
    BY <1>2, <2>2, <2>8, MarcadosPrima DEF DiscoSano, TypeOK
  <2>10. Creciendo'
    BY <1>2, <2>2, <2>3, <2>7 DEF DiscoSano, Creciendo, actual
  <2> QED
    BY <2>1, <2>6, <2>9, <2>10 DEF DiscoSano
<1> QED
  BY <1>3, <1>4, <1>5, <1>6, <1>7, <1>8, <1>9, <1>10, <1>11, <1>12, <1>13 DEF Next

\* Every step keeps the invariant,
LEMMA InvInductivoPaso ==
    ASSUME TypeOK, InvInductivo, [Next]_vars
    PROVE  InvInductivo'
  BY TiposPaso, DiscoPaso DEF InvInductivo

\* and it holds at the start.
LEMMA InvInductivoInicial == Init => InvInductivo
  BY TiposInicial, InicialDisco DEF InvInductivo

\* Until a file is written past its blocks, or one that grew is shortened or
\* written, the FileSystem keeps what its steps rely on: through requests half
\* done, stops and starts, and while files grow, the FCB in memory of each file
\* that did not is the one on disk, those files have different blocks, those of
\* the files that are whole are taken in the bitmap, and a truncation that
\* shortens is where its FCB says.
THEOREM InvInductivoTeorema == Spec => []InvInductivo
  BY TypeOKTeorema, InvInductivoInicial, InvInductivoPaso, PTL DEF Spec

\* With no request half done, the blocks of a file that is whole are taken, are
\* different, and are no other file's, whatever was being done to another one when
\* the FileSystem stopped.  The blocks of one that grew are not known, so the
\* other is one that did not.
THEOREM SinCompartirTeorema == Spec => []SinCompartir
<1>1. TypeOK /\ InvInductivo => SinCompartir
  <2> SUFFICES ASSUME TypeOK, InvInductivo, NEW f \in Nombres \ roto, paso = Ocioso
               PROVE  /\ IsInjective(BloquesDe(FcbDe(f)))
                      /\ \A b \in EnUso(f) : b \in Bloques /\ bitmap[b]
                      /\ \A g \in Nombres \ {f} : EnUso(f) \cap EnUso(g) = {}
    BY DEF SinCompartir
  <2>1. DiscoSano
    BY DEF InvInductivo
  <2>2. Quedan(f) = EnUso(f)
    BY CambiandoValores, QuedanValores DEF Ocioso
  <2> QED
    BY <2>1, <2>2 DEF DiscoSano, Separados, Marcados
<1> QED
  BY <1>1, TypeOKTeorema, InvInductivoTeorema, PTL

\* With every file whole and no request half done, the bitmap has the blocks of the
\* files and no other: truncations that shorten give back each block once, and none
\* is lost.
THEOREM BitmapExactoTeorema == Spec => []BitmapExacto
<1>1. TypeOK /\ InvInductivo => BitmapExacto
  <2> SUFFICES ASSUME TypeOK, InvInductivo, paso = Ocioso, roto = {}
               PROVE  {b \in Bloques : bitmap[b]} = UNION {EnUso(f) : f \in Nombres}
    BY DEF BitmapExacto
  <2>1. DiscoSano
    BY NombresAssumption DEF InvInductivo
  <2>2. \A f \in Nombres : Quedan(f) = EnUso(f)
    BY CambiandoValores, QuedanValores DEF Ocioso
  <2> QED
    BY <2>1, <2>2 DEF DiscoSano, Separados, Marcados
<1> QED
  BY <1>1, TypeOKTeorema, InvInductivoTeorema, PTL

-----------------------------------------------------------------------------
(* Writes *)

\* A request to write ends, while the FileSystem goes on, at the last iteration of
\* escribir_archivo.
LEMMA TerminaDeEscribir ==
    ASSUME Next, paso.que = "escribir", paso' = Ocioso, estado' = "viva"
    PROVE  EscribirEnBloque
<1>1. paso.que # "ocioso" /\ paso # Ocioso /\ paso' # paso
  BY DEF Ocioso
<1>2. ~SeDetiene
  BY DEF SeDetiene
<1>3. ~Iniciar
  BY <1>1 DEF Iniciar
<1>4. ~Caer
  BY <1>2 DEF Caer
<1>5. ASSUME NEW f \in Nombres
      PROVE  /\ ~CrearArchivo(f)
             /\ \A t \in Tamanios : ~Truncar(f, t)
             /\ \A n \in Largos : ~LeerArchivo(f, n)
             /\ \A n \in Largos, p \in Posiciones :
                  ~EscribirArchivo(f, p, n, CANTIDAD_BLOQUES * (SIZE_BLOQUE + 1))
  BY <1>1 DEF CrearArchivo, Truncar, Reducir, Mantener, Ampliar, LeerArchivo,
              EscribirArchivo, Pide
<1>6. ~(Soltar \/ SoltarIndirecto \/ SoltarDirecto)
  BY DEF Soltar, SoltarIndirecto, SoltarDirecto, En
<1>7. ~(TomarDirecto \/ TomarIndirecto \/ Tomar \/ EscribirPunteros)
  BY DEF TomarDirecto, TomarIndirecto, Tomar, EscribirPunteros, En
<1>8. ~(AbrirFcb \/ CerrarFcb)
  BY DEF AbrirFcb, CerrarFcb, En
<1> QED
  BY <1>3, <1>4, <1>5, <1>6, <1>7, <1>8 DEF Next

\* A write that ends has put every word of the request where the file has it, in
\* as many blocks as it takes: the search for the next block follows the pointers
\* of the file, and no iteration changes what the ones before it wrote.
THEOREM EscrituraEnteraTeorema == Spec => EscrituraEntera
<1>1. TypeOK /\ InvInductivo /\ [Next]_vars
         => [paso.que = "escribir" /\ paso' = Ocioso /\ estado' = "viva"
             /\ paso.archivo \notin roto =>
                \A i \in paso.desde .. (paso.fin - 1) :
                   disco'[obtener_posicion_absoluta(actual, i)]
                      = paso.dato + i - paso.desde]_vars
  <2> SUFFICES ASSUME TypeOK, InvInductivo, Next,
                      paso.que = "escribir", paso' = Ocioso, estado' = "viva",
                      paso.archivo \notin roto
               PROVE  \A i \in paso.desde .. (paso.fin - 1) :
                         disco'[obtener_posicion_absoluta(actual, i)]
                            = paso.dato + i - paso.desde
    OBVIOUS
  <2>1. EscribirEnBloque
    BY TerminaDeEscribir
  <2>2. PasoPosible /\ paso \in PasosDeEscribir
    BY PasoTipos DEF InvInductivo
  <2>3. DiscoSano
    BY <2>2 DEF InvInductivo, PasosDeEscribir
  <2> PICK x : x = actual
    OBVIOUS
  <2> PICK p : p = paso.puntero
    OBVIOUS
  <2> PICK n : n = Caben(p)
    OBVIOUS
  <2>4. p + n = paso.fin
    <3> PICK f, b : f = paso.archivo /\ b = Bloque(x, Abajo(p))
      OBVIOUS
    <3>1. Iteracion(f, x, p, b, n)
      BY <2>1, <2>2, <2>3, IteracionDisco
    <3>2. paso' = IF p + n = paso.fin THEN Ocioso
                  ELSE [paso EXCEPT !.puntero = p + n, !.bloque = b]
      BY <3>1 DEF Iteracion
    <3> QED
      BY <2>2, <3>2 DEF Ocioso, PasosDeEscribir
  <2>5. \A i \in paso.desde .. (p + n - 1) :
           disco'[obtener_posicion_absoluta(x, i)] = paso.dato + i - paso.desde
    BY <2>1, <2>2, <2>3, EscritosHasta
  <2>6. p + n - 1 = paso.fin - 1
    <3>1. p \in Nat /\ n \in Nat /\ paso.fin \in Nat
      BY <2>1, <2>2, IteracionValores DEF EscribirEnBloque, PasosDeEscribir, Caben
    <3> QED
      BY <2>4, <3>1
  <2>7. \A i \in paso.desde .. (paso.fin - 1) :
           disco'[obtener_posicion_absoluta(x, i)] = paso.dato + i - paso.desde
    BY <2>5, <2>6
  <2> QED
    BY <2>7
<1> QED
  BY <1>1, TypeOKTeorema, InvInductivoTeorema, PTL DEF Spec, EscrituraEntera

-----------------------------------------------------------------------------
(* The files *)

\* What is seen of a file,
LEMMA ArchivosValores ==
    /\ archivos = [f \in Nombres |-> archivos[f]]
    /\ \A f \in Nombres :
          /\ f \in roto => archivos[f] = Roto
          /\ f \notin roto /\ FcbDe(f) = NoHay => archivos[f] = NoHay
          /\ f \notin roto /\ FcbDe(f) # NoHay => archivos[f] = Contenido(FcbDe(f))
  BY DEF archivos

\* and what is seen of it after the step.
LEMMA ArchivosPrima ==
    /\ archivos' = [f \in Nombres |-> archivos'[f]]
    /\ \A f \in Nombres :
          /\ f \in roto' => archivos'[f] = Roto
          /\ f \notin roto' /\ FcbDe(f)' = NoHay => archivos'[f] = NoHay
          /\ f \notin roto' /\ FcbDe(f)' # NoHay => archivos'[f] = Contenido(FcbDe(f))'
  BY DEF archivos

=============================================================================

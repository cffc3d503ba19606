----------------------------- MODULE FileSystem -----------------------------
(***************************************************************************)
(* The FileSystem: bitmap, file of blocks, FCBs and their dictionary, and  *)
(* the requests of the kernel, that it serves one at a time.  The bitmap   *)
(* is mapped and synchronised bit by bit; the blocks and the FCBs change   *)
(* on disk when the FILE is closed; the dictionary is lost in a crash.     *)
(* Each change of the disk is a step, and a crash may come after any.      *)
(*                                                                         *)
(* Sizes and positions are in words, the four bytes of a pointer.  A word  *)
(* of a pointer block is a block's number, one of data is above them all.  *)
(***************************************************************************)
EXTENDS Integers, Sequences, SequencesExt, FiniteSetsExt

CONSTANTS Nombres,      \* the names of the files
          SIZE_BLOQUE,  \* in words
          CANTIDAD_BLOQUES,
          Repartos,     \* the blocks each file had in the disk it starts with
          Tamanios,     \* the sizes it had, and those truncations ask for
          Posiciones, Largos,  \* where writes begin, and how long they are
          NoHay,        \* no FCB
          Vacio,        \* an FCB whose file is empty
          Roto,         \* a file nothing is promised of
          MaxPedidos, MaxCaidas   \* bounds: truncations and writes; crashes

Bloques == 0 .. (CANTIDAD_BLOQUES - 1)
Direcciones == 0 .. (CANTIDAD_BLOQUES * SIZE_BLOQUE - 1)
FUERA == -1     \* any number that is no block's
BASURA == -2    \* a word past the end of the disk

ASSUME NombresAssumption == Nombres # {}
ASSUME SuperbloqueAssumption ==
    /\ SIZE_BLOQUE \in Nat \ {0}
    /\ CANTIDAD_BLOQUES \in Nat \ {0} /\ CANTIDAD_BLOQUES % 8 = 0
ASSUME RepartosAssumption ==
    \A r \in Repartos : \A f, g \in Nombres :
        /\ r[f] \in Seq(Bloques) /\ IsInjective(r[f])
        /\ f # g => Range(r[f]) \cap Range(r[g]) = {}
ASSUME PedidosAssumption ==
    /\ Tamanios \cup Posiciones \subseteq Nat /\ Largos \subseteq Nat \ {0}
    /\ MaxPedidos \in Nat /\ MaxCaidas \in Nat

VARIABLES
    bitmap,          \* TRUE is taken
    disco,           \* archivo_de_bloques: each word
    fcbs,            \* the files of PATH_FCB
    dictionaryFcbs,  \* the FCBs in memory
    paso,            \* the request being served and how far it is
    estado,          \* "viva", "caida", or "muerta": it cannot start
    roto,            \* the files nothing is promised of
    perdidos,        \* those of them whose blocks nobody knows
    pedidos, caidas  \* how many there were

persistente == <<bitmap, disco, fcbs>>
promesas == <<roto, perdidos>>
cuentas == <<pedidos, caidas>>
vars == <<persistente, dictionaryFcbs, paso, estado, promesas, cuentas>>

-----------------------------------------------------------------------------
(* Blocks, pointers and positions *)

Arriba(n) == (n + SIZE_BLOQUE - 1) \div SIZE_BLOQUE
Abajo(n) == n \div SIZE_BLOQUE

Palabra(d) == IF d \in Direcciones THEN disco[d] ELSE BASURA

\* archivo_de_bloques_leer_n_puntero_de_bloque_de_punteros
Puntero(fcb, n) == Palabra(fcb.indirecto * SIZE_BLOQUE + n)

\* The blocks of a file, from 0
Bloque(fcb, n) == IF n = 0 THEN fcb.directo ELSE Puntero(fcb, n - 1)

obtener_bloque_absoluto(fcb, puntero) == Bloque(fcb, Abajo(puntero))

obtener_posicion_absoluta(fcb, puntero) ==
    obtener_bloque_absoluto(fcb, puntero) * SIZE_BLOQUE + (puntero % SIZE_BLOQUE)

\* Mutant: the pointers are counted from the direct one.
SiguienteDelSegundo(fcb, bloque) ==
    IF bloque = fcb.directo THEN Puntero(fcb, 1) ELSE Puntero(fcb, 0)

\* The block whose number follows bloque's, from the pointers to the end of the
\* file of blocks.
buscar_siguiente_bloque(fcb, bloque) ==
    LET iguales == {d \in Direcciones : /\ d >= fcb.indirecto * SIZE_BLOQUE
                                        /\ disco[d] = bloque}
    IN  CASE bloque = fcb.directo -> Puntero(fcb, 0)
          [] bloque # fcb.directo /\ iguales = {} -> 0
          [] OTHER -> IF Min(iguales) + 1 \in Direcciones
                      THEN disco[Min(iguales) + 1] ELSE bloque

bitmap_encontrar_bloque_libre ==
    LET libres == {b \in Bloques : ~bitmap[b]}
    IN  IF libres = {} THEN FUERA ELSE Min(libres)

\* Mutant: one word too many.
EscritoDeMas(desde, palabras) ==
    [d \in Direcciones |-> CASE d - desde + 1 \in DOMAIN palabras -> palabras[d - desde + 1]
                             [] d - desde = Len(palabras) -> Last(palabras)
                             [] OTHER -> disco[d]]

\* Words from desde on; what is past the end of the disk is not kept.
Escrito(desde, palabras) ==
    [d \in Direcciones |-> IF d - desde + 1 \in DOMAIN palabras
                           THEN palabras[d - desde + 1] ELSE disco[d]]

-----------------------------------------------------------------------------

Ocioso == [que |-> "ocioso"]

Fcb(tamanio, directo, indirecto) ==
    [tamanio |-> tamanio, directo |-> directo, indirecto |-> indirecto]

FcbEnMemoria(tamanio, directo, indirecto, asignados) ==
    [tamanio |-> tamanio, directo |-> directo, indirecto |-> indirecto,
     asignados |-> asignados]

\* The blocks a file of that many words needs, the one of pointers among them.
Necesita(tamanio) ==
    Arriba(tamanio) + (IF Arriba(tamanio) > 1 THEN 1 ELSE 0)

\* A file of that size may have these blocks, and one block of pointers is enough.
Cabe(tamanio, bloques) ==
    Necesita(tamanio) <= Len(bloques) /\ Arriba(tamanio) <= SIZE_BLOQUE + 1

\* The blocks of a file that has, from the first, those it needs.
Suyos(bloques, tamanio) ==
    IF tamanio = NoHay THEN <<>> ELSE SubSeq(bloques, 1, Necesita(tamanio))

\* A disk whose files have the first blocks of a reparto: the direct one, the
\* one of pointers, and those it points to.  The other words are all different.
DiscoDe(r, t) ==
    LET suyos(f) == Suyos(r[f], t[f])
        punteros == {f \in Nombres : Len(suyos(f)) > 1}
    IN  /\ \A f \in Nombres : t[f] # NoHay => Cabe(t[f], r[f])
        /\ bitmap = [b \in Bloques |-> \E f \in Nombres : b \in Range(suyos(f))]
        /\ disco = [d \in Direcciones |->
              LET i == (d % SIZE_BLOQUE) + 3
                  f == {g \in punteros : r[g][2] = Abajo(d)}
              IN  IF f # {} /\ \A g \in f : i <= Len(suyos(g))
                  THEN r[CHOOSE g \in f : TRUE][i]
                  ELSE CANTIDAD_BLOQUES + d]
        /\ fcbs = [f \in Nombres |->
              IF t[f] = NoHay THEN NoHay
              ELSE Fcb(t[f], IF t[f] = 0 THEN 0 ELSE r[f][1],
                             IF f \in punteros THEN r[f][2] ELSE 0)]

Init ==
    /\ \E r \in Repartos, t \in [Nombres -> Tamanios \cup {NoHay}] : DiscoDe(r, t)
    /\ dictionaryFcbs = [f \in Nombres |-> NoHay]
    /\ paso = Ocioso
    /\ estado = "caida"
    /\ roto = {} /\ perdidos = {}
    /\ pedidos = 0 /\ caidas = 0

-----------------------------------------------------------------------------
(* Start and crash *)

cargar_fcb(fcb) ==
    IF fcb = NoHay THEN NoHay
    ELSE FcbEnMemoria(fcb.tamanio, fcb.directo, fcb.indirecto, Arriba(fcb.tamanio))

\* abrir_fcbs.  An FCB with no name ends the program at dictionary_put.
Iniciar ==
    /\ estado = "caida"
    /\ IF Vacio \in Range(fcbs)
       THEN estado' = "muerta" /\ UNCHANGED dictionaryFcbs
       ELSE /\ estado' = "viva"
            /\ dictionaryFcbs' = [f \in Nombres |-> cargar_fcb(fcbs[f])]
    /\ UNCHANGED <<persistente, paso, promesas, cuentas>>

\* The program ends.  Nothing is promised of a file it was creating or
\* truncating.
SeDetiene ==
    /\ estado' = "caida"
    /\ dictionaryFcbs' = [f \in Nombres |-> NoHay]
    /\ roto' = IF paso.que \in {"ocioso", "escribir"} THEN roto
               ELSE roto \cup {paso.archivo}
    /\ paso' = Ocioso
    /\ UNCHANGED <<persistente, perdidos, pedidos>>

Caer ==
    /\ estado = "viva" /\ caidas < MaxCaidas
    /\ SeDetiene
    /\ caidas' = caidas + 1

\* A bit of the bitmap, and the FCB in memory.  With a number that is no
\* block's the bit is outside of the bitmap, and the program ends; the few that
\* are in the last page of its mapping change nothing that is read again.
Marcar(b, bit, fcb, siguiente) ==
    IF b \in Bloques
    THEN /\ bitmap' = [bitmap EXCEPT ![b] = bit]
         /\ dictionaryFcbs' = [dictionaryFcbs EXCEPT ![paso.archivo] = fcb]
         /\ paso' = siguiente
         /\ UNCHANGED <<disco, fcbs, estado, promesas, cuentas>>
    ELSE SeDetiene /\ UNCHANGED caidas

-----------------------------------------------------------------------------
(* Requests *)

\* A request that changes the disk arrives.
Pide(f) ==
    /\ estado = "viva" /\ paso = Ocioso
    /\ pedidos < MaxPedidos
    /\ pedidos' = pedidos + 1
    /\ UNCHANGED <<bitmap, disco, estado, caidas>>

existe_archivo(f) == dictionaryFcbs[f] # NoHay

\* Mutant: puntero_indirecto is not given a value either.
FcbSinPunteros(basura) == FcbEnMemoria(0, basura, basura, 0)

\* puntero_directo is not given a value.
crear_fcb_inicial(basura) == FcbEnMemoria(0, basura, 0, 0)

\* KERNEL_CREAR_ARCHIVO, that the kernel sends when I_F_OPEN was answered
\* AUX_ERROR.
CrearArchivo(f) ==
    /\ Pide(f)
    /\ ~existe_archivo(f)
    /\ fcbs' = [fcbs EXCEPT ![f] = Vacio]
    /\ \E basura \in Bloques \cup {FUERA} :
          dictionaryFcbs' = [dictionaryFcbs EXCEPT ![f] = crear_fcb_inicial(basura)]
    /\ paso' = [que |-> "cerrar_fcb", archivo |-> f, antes |-> NoHay]
    /\ UNCHANGED promesas

Truncado(f, tamanio, que) ==
    [que |-> que, archivo |-> f, tamanio |-> tamanio, tomados |-> <<>>,
     antes |-> dictionaryFcbs[f]]

\* Nothing is promised of any file once blocks of a lost one are given back or
\* written: they may be another's.
Arriesga(f) == roto' = (IF f \in perdidos THEN Nombres ELSE roto)

\* Each of the three cases of actualizar_tamanio_bloques.
Reducir(f, tamanio) ==
    /\ Pide(f)
    /\ existe_archivo(f)
    /\ dictionaryFcbs[f].asignados > Arriba(tamanio)
    /\ paso' = Truncado(f, tamanio,
                        IF tamanio = 0 /\ dictionaryFcbs[f].asignados = 1
                        THEN "soltar_directo" ELSE "soltar")
    /\ Arriesga(f)
    /\ UNCHANGED <<fcbs, dictionaryFcbs, perdidos>>

Mantener(f, tamanio) ==
    /\ Pide(f)
    /\ existe_archivo(f)
    /\ dictionaryFcbs[f].asignados = Arriba(tamanio)
    /\ paso' = Truncado(f, tamanio, "abrir_fcb")
    /\ UNCHANGED <<fcbs, dictionaryFcbs, promesas>>

\* Nothing is promised of a file that grows: its direct block and the first
\* pointers are not kept.  And the blocks it takes may be those of a file whose
\* truncation was stopped, that its FCB still leads to.
Ampliar(f, tamanio) ==
    /\ Pide(f)
    /\ existe_archivo(f)
    /\ dictionaryFcbs[f].asignados < Arriba(tamanio)
    /\ paso' = Truncado(f, tamanio,
                        CASE dictionaryFcbs[f].asignados = 0 -> "tomar_directo"
                          [] dictionaryFcbs[f].asignados = 1 -> "tomar_indirecto"
                          [] OTHER -> "tomar")
    /\ roto' = IF f \in perdidos THEN Nombres ELSE roto \cup {f}
    /\ perdidos' = roto'
    /\ UNCHANGED <<fcbs, dictionaryFcbs>>

\* I_TRUNCATE
Truncar(f, tamanio) == Reducir(f, tamanio) \/ Mantener(f, tamanio) \/ Ampliar(f, tamanio)

En(que) == estado = "viva" /\ paso.que = que
actual == dictionaryFcbs[paso.archivo]
A(que) == [paso EXCEPT !.que = que]

\* Mutant: the index of the pointer is one less.
SoltarElAnterior ==
    /\ En("soltar")
    /\ LET quedan == actual.asignados - 1
       IN  Marcar(Puntero(actual, Max({quedan - 2, 0})), FALSE,
                  [actual EXCEPT !.asignados = quedan],
                  A(CASE quedan = 1 -> "soltar_indirecto"
                      [] quedan > 1 /\ quedan = Arriba(paso.tamanio) -> "abrir_fcb"
                      [] OTHER -> "soltar"))

\* desasignar_ultimo_bloque
Soltar ==
    /\ En("soltar")
    /\ LET quedan == actual.asignados - 1
       IN  Marcar(Puntero(actual, quedan - 1), FALSE,
                  [actual EXCEPT !.asignados = quedan],
                  A(CASE quedan = 1 -> "soltar_indirecto"
                      [] quedan > 1 /\ quedan = Arriba(paso.tamanio) -> "abrir_fcb"
                      [] OTHER -> "soltar"))

SoltarIndirecto ==
    /\ En("soltar_indirecto")
    /\ Marcar(actual.indirecto, FALSE, [actual EXCEPT !.indirecto = 0],
              A(IF paso.tamanio = 0 THEN "soltar_directo" ELSE "abrir_fcb"))

\* Mutant: the pointer is cleared before the block it has is marked.
SoltarElCero ==
    /\ En("soltar_directo")
    /\ Marcar(0, FALSE, [actual EXCEPT !.directo = 0, !.asignados = 0],
              A("abrir_fcb"))

SoltarDirecto ==
    /\ En("soltar_directo")
    /\ Marcar(actual.directo, FALSE, [actual EXCEPT !.directo = 0, !.asignados = 0],
              A("abrir_fcb"))

\* asignar_puntero_directo: the block's number goes to
\* cantidad_bloques_asignados.
TomarDirecto ==
    /\ En("tomar_directo")
    /\ LET b == bitmap_encontrar_bloque_libre
           solo == paso.tamanio <= SIZE_BLOQUE
       IN  Marcar(b, TRUE,
                  [actual EXCEPT !.asignados = b + (IF solo THEN 2 ELSE 1)],
                  A(IF solo THEN "abrir_fcb" ELSE "tomar_indirecto"))

TomarIndirecto ==
    /\ En("tomar_indirecto")
    /\ LET b == bitmap_encontrar_bloque_libre
       IN  Marcar(b, TRUE,
                  [actual EXCEPT !.indirecto = b, !.asignados = @ + 1],
                  A("tomar"))

\* asignar_bloques: the blocks one by one, and their numbers at fclose.
Tomar ==
    /\ En("tomar")
    /\ Len(paso.tomados) < Arriba(paso.tamanio) - 1
    /\ LET b == bitmap_encontrar_bloque_libre
       IN  Marcar(b, TRUE, actual, [paso EXCEPT !.tomados = Append(@, b)])

\* With more pointers than the block has place for, those of the next block are
\* written, and nothing is promised of any file.
EscribirPunteros ==
    /\ En("tomar")
    /\ Len(paso.tomados) = Arriba(paso.tamanio) - 1
    /\ disco' = Escrito(actual.indirecto * SIZE_BLOQUE + actual.asignados - 1,
                        paso.tomados)
    /\ roto' = IF actual.asignados - 1 + Len(paso.tomados) <= SIZE_BLOQUE
               THEN roto ELSE Nombres
    /\ paso' = A("abrir_fcb")
    /\ UNCHANGED <<bitmap, fcbs, dictionaryFcbs, estado, perdidos, cuentas>>

\* persistir_fcb: fopen empties the file, fclose writes it.
AbrirFcb ==
    /\ En("abrir_fcb")
    /\ fcbs' = [fcbs EXCEPT ![paso.archivo] = Vacio]
    /\ dictionaryFcbs' = [dictionaryFcbs EXCEPT
                             ![paso.archivo].tamanio = paso.tamanio]
    /\ paso' = A("cerrar_fcb")
    /\ UNCHANGED <<bitmap, disco, estado, promesas, cuentas>>

CerrarFcb ==
    /\ En("cerrar_fcb")
    /\ fcbs' = [fcbs EXCEPT
                   ![paso.archivo] = Fcb(actual.tamanio, actual.directo, actual.indirecto)]
    /\ paso' = Ocioso
    /\ UNCHANGED <<bitmap, disco, dictionaryFcbs, estado, promesas, cuentas>>

\* I_F_WRITE.  No size is compared: past the last block the pointer is whatever
\* the block of pointers has, and nothing is promised of any file.
EscribirArchivo(f, puntero, n, dato) ==
    /\ Pide(f)
    /\ existe_archivo(f)
    /\ paso' = [que |-> "escribir", archivo |-> f, puntero |-> puntero,
                desde |-> puntero, fin |-> puntero + n, dato |-> dato,
                bloque |-> obtener_bloque_absoluto(dictionaryFcbs[f], puntero)]
    /\ IF Abajo(puntero + n - 1) < Arriba(dictionaryFcbs[f].tamanio)
       THEN Arriesga(f) ELSE roto' = Nombres
    /\ UNCHANGED <<fcbs, dictionaryFcbs, perdidos>>

\* An iteration of escribir_archivo: what fits in one block.
EscribirEnBloque ==
    /\ En("escribir")
    /\ LET b == IF paso.puntero = paso.desde THEN paso.bloque
                ELSE buscar_siguiente_bloque(actual, paso.bloque)
           lugar == paso.puntero % SIZE_BLOQUE
           n == Min({paso.fin - paso.puntero, SIZE_BLOQUE - lugar})
       IN  /\ disco' = Escrito(b * SIZE_BLOQUE + lugar,
                               [i \in 1 .. n |-> paso.dato + paso.puntero - paso.desde + i - 1])
           /\ paso' = IF paso.puntero + n = paso.fin THEN Ocioso
                      ELSE [paso EXCEPT !.puntero = @ + n, !.bloque = b]
    /\ UNCHANGED <<bitmap, fcbs, dictionaryFcbs, estado, promesas, cuentas>>

\* I_F_READ changes nothing here: leer_archivo brings the words up to the end of
\* the block of the position, and after them what the memory of malloc had.  When
\* more than a block is asked for there is a second iteration, on a FILE that is
\* closed: it may end the program.
LeerArchivo(f, n) ==
    /\ estado = "viva" /\ paso = Ocioso
    /\ existe_archivo(f)
    /\ n > SIZE_BLOQUE
    /\ SeDetiene
    /\ UNCHANGED caidas

Next ==
    \/ Iniciar \/ Caer
    \/ \E f \in Nombres :
          \/ CrearArchivo(f)
          \/ \E t \in Tamanios : Truncar(f, t)
          \/ \E n \in Largos :
                \/ LeerArchivo(f, n)
                \/ \E p \in Posiciones :
                      EscribirArchivo(f, p, n, CANTIDAD_BLOQUES * (SIZE_BLOQUE + 1))
    \/ Soltar \/ SoltarIndirecto \/ SoltarDirecto
    \/ TomarDirecto \/ TomarIndirecto \/ Tomar \/ EscribirPunteros
    \/ AbrirFcb \/ CerrarFcb
    \/ EscribirEnBloque

Spec == Init /\ [][Next]_vars

-----------------------------------------------------------------------------
(* Properties *)

Fcbs == [tamanio : Nat, directo : Bloques \cup {FUERA}, indirecto : Bloques]

FcbsEnMemoria == [tamanio : Nat, directo : Bloques \cup {FUERA},
                  indirecto : Bloques, asignados : Nat]

ASSUME ValoresAssumption ==
    /\ NoHay # Vacio /\ NoHay # Roto
    /\ \A x \in {NoHay, Vacio} : x \notin Fcbs \cup FcbsEnMemoria
    /\ \A x \in {NoHay, Roto} : x \notin Seq(Int)

Truncamientos == {"soltar", "soltar_indirecto", "soltar_directo", "tomar_directo",
                  "tomar_indirecto", "tomar", "abrir_fcb", "cerrar_fcb"}

PasosDeCrear == [que : {"cerrar_fcb"}, archivo : Nombres, antes : {NoHay}]

PasosDeTruncar == [que : Truncamientos, archivo : Nombres, tamanio : Nat,
                   tomados : Seq(Bloques), antes : FcbsEnMemoria]

PasosDeEscribir == [que : {"escribir"}, archivo : Nombres, puntero : Nat,
                    desde : Nat, fin : Nat, dato : Nat, bloque : Int]

TypeOK ==
    /\ bitmap \in [Bloques -> BOOLEAN]
    /\ disco \in [Direcciones -> Nat]
    /\ fcbs \in [Nombres -> Fcbs \cup {NoHay, Vacio}]
    /\ dictionaryFcbs \in [Nombres -> FcbsEnMemoria \cup {NoHay}]
    /\ paso \in {Ocioso} \cup PasosDeCrear \cup PasosDeTruncar \cup PasosDeEscribir
    /\ estado \in {"viva", "caida", "muerta"}
    /\ roto \subseteq Nombres /\ perdidos \subseteq roto
    /\ pedidos \in 0 .. MaxPedidos /\ caidas \in 0 .. MaxCaidas

\* The file, that is not lost, is being created or truncated.
Cambiando(f) ==
    /\ f \notin perdidos
    /\ estado = "viva" /\ paso.que \notin {"ocioso", "escribir"} /\ paso.archivo = f

\* The FCB a file has: until a truncation ends, the one before it.  That of a lost
\* one leads nowhere.
FcbDe(f) ==
    CASE f \in perdidos -> NoHay
      [] f \notin perdidos /\ estado # "viva" -> fcbs[f]
      [] Cambiando(f) -> paso.antes
      [] OTHER -> dictionaryFcbs[f]

Contenido(x) == [i \in 1 .. x.tamanio |->
                    Palabra(obtener_posicion_absoluta(x, i - 1))]

\* The blocks of a file, and after them that of pointers.
BloquesDe(x) ==
    IF x \in {NoHay, Vacio} THEN <<>>
    ELSE [i \in 1 .. Necesita(x.tamanio) |->
             IF i <= Arriba(x.tamanio) THEN Bloque(x, i - 1) ELSE x.indirecto]

EnUso(f) == Range(BloquesDe(FcbDe(f)))

\* What a step needs of the state to keep the types: a request has a file, and
\* stops before it gives back a block too many or writes a word too many.
PasoPosible ==
    paso # Ocioso =>
        /\ estado = "viva" /\ actual # NoHay
        /\ paso.que = "soltar" =>
              actual.asignados > 1 /\ actual.asignados > Arriba(paso.tamanio)
        /\ paso.que = "escribir" =>
              paso.desde <= paso.puntero /\ paso.puntero < paso.fin

\* The FCB in memory of a file, or the one it had before it was being changed,
\* is the one on disk.
FcbsIguales ==
    \A f \in Nombres \ perdidos :
        /\ estado = "viva" /\ ~Cambiando(f) =>
              fcbs[f] # Vacio /\ dictionaryFcbs[f] = cargar_fcb(fcbs[f])
        /\ Cambiando(f) =>
              IF paso.que = "cerrar_fcb" THEN fcbs[f] = Vacio
              ELSE fcbs[f] # Vacio /\ paso.antes = cargar_fcb(fcbs[f])
        /\ estado # "viva" /\ fcbs[f] = Vacio => f \in roto

\* How far a truncation is: the FCB in memory has the blocks of the one before,
\* from the first, and none that was given back.
Reduciendo ==
    \A f \in Nombres : Cambiando(f) =>
        IF paso.antes = NoHay
        THEN paso.que = "cerrar_fcb" /\ actual.tamanio = 0 /\ actual.asignados = 0
        ELSE /\ paso.que \notin {"tomar_directo", "tomar_indirecto", "tomar"}
             /\ actual.asignados >= Arriba(paso.tamanio)
             /\ actual.asignados <= Arriba(paso.antes.tamanio)
             /\ actual.asignados > 0 => actual.directo = paso.antes.directo
             /\ actual.asignados > 1 \/ paso.que = "soltar_indirecto" =>
                   /\ actual.indirecto = paso.antes.indirecto
                   /\ Arriba(paso.antes.tamanio) > 1
             /\ paso.que = "soltar_indirecto" => Arriba(paso.tamanio) <= 1
             /\ paso.que = "soltar_directo" => paso.tamanio = 0
             /\ paso.que \in {"soltar_indirecto", "soltar_directo"} =>
                   actual.asignados = 1
             /\ paso.que \in {"abrir_fcb", "cerrar_fcb"} =>
                   actual.asignados = Arriba(paso.tamanio)
             /\ paso.que = "cerrar_fcb" => actual.tamanio = paso.tamanio

\* The file that takes blocks is lost and no other is broken, and the block its
\* pointers will be written in is no other file's.  No lost file gives back
\* blocks or is written.
Creciendo ==
    /\ paso.que \in {"tomar_directo", "tomar_indirecto", "tomar"} =>
          paso.archivo \in perdidos /\ roto = perdidos
    /\ paso.que = "tomar" =>
          /\ actual.asignados > 0
          /\ \A g \in Nombres \ perdidos : actual.indirecto \notin EnUso(g)
    /\ paso.que \in {"soltar", "soltar_indirecto", "soltar_directo", "escribir"} =>
          paso.archivo \notin perdidos

\* The pointers of a file are in one block, and its blocks are no other file's.
Separados ==
    \A f \in Nombres :
        /\ FcbDe(f) \notin {NoHay, Vacio} => Arriba(FcbDe(f).tamanio) <= SIZE_BLOQUE + 1
        /\ IsInjective(BloquesDe(FcbDe(f))) /\ EnUso(f) \subseteq Bloques
        /\ \A g \in Nombres \ {f} : EnUso(f) \cap EnUso(g) = {}

\* The blocks of a file that are not yet given back.
Quedan(f) ==
    IF ~Cambiando(f) THEN EnUso(f)
    ELSE {Bloque(actual, i) : i \in 0 .. (actual.asignados - 1)}
         \cup (IF actual.asignados > 1 \/ paso.que = "soltar_indirecto"
               THEN {actual.indirecto} ELSE {})

\* They are taken, and with every file whole no other block is.
Marcados ==
    /\ \A f \in Nombres \ roto : \A b \in Quedan(f) : bitmap[b]
    /\ roto = {} => \A b \in Bloques :
                      bitmap[b] => \E f \in Nombres : b \in Quedan(f)

\* How far a write is: the words before puntero are in their place, and bloque is
\* the block of the last one.
Escribiendo ==
    paso.que = "escribir" =>
        /\ Abajo(paso.fin - 1) < Arriba(actual.tamanio)
        /\ IF paso.puntero = paso.desde
           THEN paso.bloque = obtener_bloque_absoluto(actual, paso.puntero)
           ELSE /\ paso.puntero % SIZE_BLOQUE = 0
                /\ paso.bloque = obtener_bloque_absoluto(actual, paso.puntero - 1)
        /\ \A i \in paso.desde .. (paso.puntero - 1) :
              disco[obtener_posicion_absoluta(actual, i)]
                 = paso.dato + i - paso.desde

DiscoSano ==
    FcbsIguales /\ Reduciendo /\ Creciendo /\ Separados /\ Marcados /\ Escribiendo

\* What a step needs of the state to keep the files apart, with requests half
\* done, after stops, and while others grow: until one is written past its blocks
\* or the blocks of a lost one are touched.
InvInductivo == PasoPosible /\ (roto # Nombres => DiscoSano)

\* With the files whole and no request being served, the bitmap has exactly the
\* blocks of the files, and none is lost: truncations that shorten give back
\* each block once.
BitmapExacto ==
    paso = Ocioso /\ roto = {} =>
        {b \in Bloques : bitmap[b]} = UNION {EnUso(f) : f \in Nombres}

\* Whatever was being done to another file when the FileSystem stopped, and
\* however others grew, the blocks of a file that is whole are taken, are
\* different, and are no other file's that is not lost.
SinCompartir ==
    \A f \in Nombres \ roto :
        paso = Ocioso =>
            /\ IsInjective(BloquesDe(FcbDe(f)))
            /\ \A b \in EnUso(f) : b \in Bloques /\ bitmap[b]
            /\ \A g \in Nombres \ {f} : EnUso(f) \cap EnUso(g) = {}

\* What a user of the FileSystem sees of each file: its words, while it is whole.
archivos ==
    [f \in Nombres |-> CASE f \in roto -> Roto
                         [] f \notin roto /\ FcbDe(f) = NoHay -> NoHay
                         [] OTHER -> Contenido(FcbDe(f))]

\* When a write ends, every word of the request is in its place, in as many
\* blocks as it takes.
EscrituraEntera ==
    [][paso.que = "escribir" /\ paso' = Ocioso /\ estado' = "viva"
       /\ paso.archivo \notin roto =>
          \A i \in paso.desde .. (paso.fin - 1) :
             disco'[obtener_posicion_absoluta(actual, i)]
                = paso.dato + i - paso.desde]_vars

=============================================================================

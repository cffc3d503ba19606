-------------------------- MODULE Durables_proofs --------------------------
(***************************************************************************)
(* FileSystem keeps the promise of ArchivosDurables.  A file is the words  *)
(* its FCB leads to.  A request begins, gives back blocks and writes them  *)
(* in the bitmap without changing it (FcbDe is the FCB before); closing    *)
(* the file of the FCB and each iteration of a write are what changes it.  *)
(***************************************************************************)
EXTENDS FileSystem_proofs, Archivos

-----------------------------------------------------------------------------
(* The files, in a state and in the next one *)

\* The same words: the same FCB, or that of memory and that of disk.
Igual(y, x) ==
    \/ y = x
    \/ /\ y # NoHay /\ x # NoHay
       /\ y.tamanio = x.tamanio
       /\ y.directo = x.directo /\ y.indirecto = x.indirecto

\* While no word of the disk changes, an FCB leads to the same words.
LEMMA ContenidoPrima ==
    ASSUME disco' = disco, NEW f
    PROVE  Contenido(FcbDe(f))' = Contenido(FcbDe(f)')
  BY DEF Contenido, obtener_posicion_absoluta, obtener_bloque_absoluto, Bloque,
         Puntero, Palabra, Abajo

\* FCBs with the same pointers and size lead to the same words.
LEMMA MismoContenido ==
    ASSUME NEW x, NEW y, x.tamanio = y.tamanio, x.directo = y.directo,
           x.indirecto = y.indirecto
    PROVE  Contenido(y) = Contenido(x)
  BY DEF Contenido, obtener_posicion_absoluta, obtener_bloque_absoluto, Bloque,
         Puntero

\* A file is a sequence of words, one for each position of its size.
LEMMA ContenidoValores ==
    ASSUME TypeOK, NEW x, EsFcb(x)
    PROVE  /\ Contenido(x) \in Seq(Int) /\ Contenido(x) \notin {NoHay, Roto}
           /\ x.tamanio \in Nat /\ Len(Contenido(x)) = x.tamanio
           /\ DOMAIN Contenido(x) = 1 .. x.tamanio
           /\ \A k \in 1 .. x.tamanio :
                 Contenido(x)[k] = Palabra(obtener_posicion_absoluta(x, k - 1))
<1>1. x.tamanio \in Nat
  BY FcbTipos DEF EsFcb
<1>2. \A d : Palabra(d) \in Int
  BY PalabraTipos DEF TypeOK
<1>3. Contenido(x) \in [1 .. x.tamanio -> Int]
  BY <1>2 DEF Contenido
<1>4. /\ Contenido(x) \in Seq(Int) /\ Len(Contenido(x)) = x.tamanio
      /\ DOMAIN Contenido(x) = 1 .. x.tamanio
  BY <1>1, <1>3
<1> QED
  BY <1>1, <1>4, ValoresAssumption DEF Contenido

\* Where no file that is promised something changes, only promises end.
LEMMA RompeSi ==
    ASSUME \A f \in Nombres \ roto' : archivos'[f] = archivos[f]
    PROVE  Durables!Romper
<1>1. \A f \in Nombres : archivos'[f] = IF archivos'[f] = Roto THEN Roto
                                        ELSE archivos[f]
  BY ArchivosPrima
<1>2. archivos' = [f \in Nombres |-> IF archivos'[f] = Roto THEN Roto
                                     ELSE archivos[f]]
  BY <1>1, ArchivosPrima
<1> QED
  BY <1>2 DEF Durables!Romper

\* A file whose FCB leads to the same words does not change.
LEMMA SinCambioDeUno ==
    ASSUME disco' = disco, roto \subseteq roto', NEW f \in Nombres \ roto',
           Igual(FcbDe(f)', FcbDe(f))
    PROVE  archivos'[f] = archivos[f]
<1>1. f \notin roto
  OBVIOUS
<1>2. CASE FcbDe(f) = NoHay
  BY <1>1, <1>2, ArchivosValores, ArchivosPrima DEF Igual
<1>3. CASE FcbDe(f) # NoHay
  <2>1. FcbDe(f)' # NoHay /\ Contenido(FcbDe(f)') = Contenido(FcbDe(f))
    BY <1>3, MismoContenido DEF Igual
  <2> QED
    BY <1>1, <1>3, <2>1, ArchivosValores, ArchivosPrima, ContenidoPrima
<1> QED
  BY <1>2, <1>3

\* A step that leaves the FCB of every file that is whole, and the words of the
\* disk, changes no file.
LEMMA SinCambio ==
    ASSUME disco' = disco, roto \subseteq roto',
           \A f \in Nombres \ roto' : Igual(FcbDe(f)', FcbDe(f))
    PROVE  Durables!Romper
  BY SinCambioDeUno, RompeSi

\* An FCB leads to the same words on disk and in memory.
LEMMA CargarIgual ==
    ASSUME NEW x, x \in Fcbs \cup {NoHay}
    PROVE  Igual(cargar_fcb(x), x) /\ Igual(x, cargar_fcb(x))
<1>1. CASE x = NoHay
  BY <1>1 DEF cargar_fcb, Igual
<1>2. CASE x # NoHay
  <2>1. cargar_fcb(x) \in FcbsEnMemoria
    BY <1>2, ArribaValores, FcbTipos DEF cargar_fcb, FcbEnMemoria, FcbsEnMemoria
  <2>2. cargar_fcb(x) # NoHay
    BY <2>1, ValoresAssumption
  <2> QED
    BY <1>2, <2>2 DEF cargar_fcb, FcbEnMemoria, Igual
<1> QED
  BY <1>1, <1>2

-----------------------------------------------------------------------------
(* Steps that change no file *)

\* The program ends: what a file has is what its FCB on disk says, and those that
\* were being created or truncated are promised nothing.
LEMMA SeDetieneIgual ==
    ASSUME TypeOK, DiscoSano, estado = "viva", SeDetiene
    PROVE  Durables!Romper
<1>1. /\ estado' # "viva" /\ UNCHANGED <<disco, fcbs, perdidos>>
      /\ roto \subseteq roto'
      /\ \A f \in Nombres : Cambiando(f) => f \in roto'
  BY DEF SeDetiene, persistente, Cambiando
<1>2. ASSUME NEW f \in Nombres \ roto'
      PROVE  Igual(FcbDe(f)', FcbDe(f))
  <2>0. f \notin perdidos /\ f \notin perdidos'
    BY <1>1 DEF TypeOK
  <2>1. FcbDe(f)' = fcbs[f] /\ FcbDe(f) = dictionaryFcbs[f] /\ ~Cambiando(f)
    BY <1>1, <2>0, FcbDeValores
  <2>2. fcbs[f] \in Fcbs \cup {NoHay} /\ dictionaryFcbs[f] = cargar_fcb(fcbs[f])
    BY <2>0, <2>1 DEF DiscoSano, FcbsIguales, TypeOK
  <2> QED
    BY <2>1, <2>2, CargarIgual
<1> QED
  BY <1>1, <1>2, SinCambio

\* abrir_fcbs
LEMMA IniciarIgual ==
    ASSUME TypeOK, PasoPosible, DiscoSano, Iniciar
    PROVE  Durables!Romper
<1>1. /\ estado = "caida" /\ paso'.que = "ocioso"
      /\ UNCHANGED <<disco, fcbs, roto, perdidos>>
      /\ estado' \in {"viva", "muerta"}
      /\ estado' = "viva" =>
            dictionaryFcbs' = [f \in Nombres |-> cargar_fcb(fcbs[f])]
  BY DEF Iniciar, PasoPosible, persistente, promesas, Ocioso
<1>2. ASSUME NEW f \in Nombres \ roto'
      PROVE  Igual(FcbDe(f)', FcbDe(f))
  <2>0. f \notin roto /\ f \notin perdidos /\ f \notin perdidos'
    BY <1>1 DEF TypeOK
  <2>1. FcbDe(f) = fcbs[f] /\ ~Cambiando(f)'
    BY <1>1, <2>0, FcbDeValores, CambiandoValores
  <2>2. fcbs[f] \in Fcbs \cup {NoHay}
    BY <1>1, <2>0 DEF DiscoSano, FcbsIguales, TypeOK
  <2>3. CASE estado' = "viva"
    BY <1>1, <2>0, <2>1, <2>2, <2>3, FcbDeValores, CargarIgual
  <2>4. CASE estado' = "muerta"
    BY <1>1, <2>0, <2>1, <2>4, FcbDeValores DEF Igual
  <2> QED
    BY <1>1, <2>3, <2>4
<1> QED
  BY <1>1, <1>2, SinCambio

\* A step for a lost file that leaves the words of the disk changes no file that
\* is whole.
LEMMA PerdidoIgual ==
    ASSUME TypeOK, TypeOK', NEW f, DePerdido(f), disco' = disco
    PROVE  Durables!Romper
<1>1. \A g \in Nombres \ roto' : FcbDe(g)' = FcbDe(g)
  BY PerdidoFcb DEF TypeOK
<1> QED
  BY <1>1, SinCambio DEF Igual, DePerdido

\* A request begins: the FCB its file had is kept until it ends.
LEMMA EmpiezaIgual ==
    ASSUME TypeOK, TypeOK', DiscoSano, NEW f \in Nombres, Pide(f),
           roto \subseteq roto', perdidos' = perdidos,
           paso'.archivo = f, paso'.que # "ocioso",
           paso'.que = "escribir" \/ paso'.antes = dictionaryFcbs[f],
           \A g \in Nombres \ {f} : dictionaryFcbs'[g] = dictionaryFcbs[g],
           paso'.que = "escribir" => dictionaryFcbs'[f] = dictionaryFcbs[f]
    PROVE  Durables!Romper
<1>1. disco' = disco /\ estado' = "viva"
  BY DEF Pide
<1>2. \A g \in Nombres \ roto' :
         g \notin perdidos /\ FcbDe(g) = dictionaryFcbs[g]
  BY EmpiezaValores DEF DiscoSano, TypeOK
<1>3. ASSUME NEW g \in Nombres \ roto'
      PROVE  FcbDe(g)' = FcbDe(g)
  <2>1. CASE Cambiando(g)'
    BY <1>2, <2>1, FcbDeValores DEF Cambiando
  <2>2. CASE ~Cambiando(g)'
    <3>1. dictionaryFcbs'[g] = dictionaryFcbs[g]
      BY <1>1, <1>2, <2>2 DEF Cambiando
    <3> QED
      BY <1>1, <1>2, <2>2, <3>1, FcbDeValores
  <2> QED
    BY <2>1, <2>2
<1> QED
  BY <1>1, <1>3, SinCambio DEF Igual

\* A request that begins changes no file.
LEMMA PideIgual ==
    ASSUME TypeOK, TypeOK', DiscoSano, NEW f \in Nombres, NEW t, NEW p, NEW n, NEW dato,
           CrearArchivo(f) \/ Truncar(f, t) \/ EscribirArchivo(f, p, n, dato),
           roto' # Nombres
    PROVE  Durables!Romper
<1>1. CASE CrearArchivo(f)
  <2>1. /\ Pide(f) /\ roto' = roto /\ perdidos' = perdidos
        /\ paso'.archivo = f /\ paso'.antes = NoHay /\ dictionaryFcbs[f] = NoHay
        /\ paso'.que = "cerrar_fcb"
        /\ \A g \in Nombres \ {f} : dictionaryFcbs'[g] = dictionaryFcbs[g]
    BY <1>1 DEF CrearArchivo, existe_archivo, promesas, TypeOK
  <2> QED
    BY <2>1, EmpiezaIgual
<1>2. CASE Reducir(f, t) \/ Mantener(f, t)
  <2>1. /\ Pide(f) /\ roto' = roto /\ perdidos' = perdidos
        /\ dictionaryFcbs' = dictionaryFcbs
        /\ \E que : que # "ocioso" /\ paso' = Truncado(f, t, que)
    BY <1>2 DEF Reducir, Mantener, Arriesga, promesas
  <2>2. /\ paso'.archivo = f /\ paso'.antes = dictionaryFcbs[f]
        /\ paso'.que # "ocioso"
    BY <2>1 DEF Truncado
  <2> QED
    BY <2>1, <2>2, EmpiezaIgual
<1>3. CASE Ampliar(f, t)
  BY <1>3, AmpliarPerdido, PerdidoIgual
<1>4. CASE EscribirArchivo(f, p, n, dato)
  <2>1. /\ Pide(f) /\ roto' = roto /\ perdidos' = perdidos
        /\ dictionaryFcbs' = dictionaryFcbs
        /\ paso'.archivo = f /\ paso'.que = "escribir"
    BY <1>4 DEF EscribirArchivo, Arriesga
  <2> QED
    BY <2>1, EmpiezaIgual
<1> QED
  BY <1>1, <1>2, <1>3, <1>4 DEF Truncar

\* A truncation goes on: the FCB its file had is kept.
LEMMA SigueIgual ==
    ASSUME estado = "viva", estado' = "viva", disco' = disco, roto' = roto,
           perdidos' = perdidos,
           paso.que \notin {"ocioso", "escribir"},
           paso'.que \notin {"ocioso", "escribir"},
           paso'.archivo = paso.archivo, paso'.antes = paso.antes,
           \A g \in Nombres \ {paso.archivo} : dictionaryFcbs'[g] = dictionaryFcbs[g]
    PROVE  Durables!Romper
<1>1. \A g \in Nombres : FcbDe(g)' = FcbDe(g)
  BY FcbDeValores DEF Cambiando
<1> QED
  BY <1>1, SinCambio DEF Igual

\* desasignar_ultimo_bloque, and persistir_fcb until fopen
LEMMA SoltarIgual ==
    ASSUME TypeOK, PasoPosible, DiscoSano,
           Soltar \/ SoltarIndirecto \/ SoltarDirecto \/ AbrirFcb
    PROVE  Durables!Romper
<1>1. /\ estado = "viva"
      /\ paso.que \in {"soltar", "soltar_indirecto", "soltar_directo", "abrir_fcb"}
      /\ paso \in PasosDeTruncar
  BY PasoTipos DEF Soltar, SoltarIndirecto, SoltarDirecto, AbrirFcb, En, Truncamientos
<1>2. ASSUME NEW q
      PROVE  A(q).que = q /\ A(q).archivo = paso.archivo /\ A(q).antes = paso.antes
  BY <1>1 DEF A, PasosDeTruncar
<1>3. ASSUME NEW b, NEW fcb, NEW siguiente, Marcar(b, FALSE, fcb, siguiente),
             siguiente \in {A("soltar"), A("soltar_indirecto"),
                            A("soltar_directo"), A("abrir_fcb")}
      PROVE  Durables!Romper
  <2>1. CASE b \in Bloques
    <3>1. /\ disco' = disco /\ roto' = roto /\ perdidos' = perdidos
          /\ estado' = "viva" /\ paso' = siguiente
          /\ \A g \in Nombres \ {paso.archivo} : dictionaryFcbs'[g] = dictionaryFcbs[g]
      BY <1>1, <1>3, <2>1 DEF Marcar, promesas, TypeOK
    <3>2. /\ siguiente.que \notin {"ocioso", "escribir"}
          /\ siguiente.archivo = paso.archivo /\ siguiente.antes = paso.antes
      BY <1>2, <1>3
    <3> QED
      BY <1>1, <3>1, <3>2, SigueIgual
  <2>2. CASE b \notin Bloques
    BY <1>1, <1>3, <2>2, SeDetieneIgual DEF Marcar
  <2> QED
    BY <2>1, <2>2
<1>4. CASE Soltar
  <2> DEFINE quedan == actual.asignados - 1
             siguiente == A(CASE quedan = 1 -> "soltar_indirecto"
                              [] quedan > 1 /\ quedan = Arriba(paso.tamanio)
                                   -> "abrir_fcb"
                              [] OTHER -> "soltar")
             b == Puntero(actual, quedan - 1)
             fcb == [actual EXCEPT !.asignados = quedan]
  <2>1. Marcar(b, FALSE, fcb, siguiente)
    BY <1>4 DEF Soltar
  <2>2. siguiente \in {A("soltar"), A("soltar_indirecto"), A("abrir_fcb")}
    OBVIOUS
  <2> HIDE DEF siguiente, b, fcb
  <2> QED
    BY <1>3, <2>1, <2>2
<1>5. CASE SoltarIndirecto
  <2> DEFINE siguiente == A(IF paso.tamanio = 0 THEN "soltar_directo" ELSE "abrir_fcb")
             fcb == [actual EXCEPT !.indirecto = 0]
  <2>1. Marcar(actual.indirecto, FALSE, fcb, siguiente)
    BY <1>5 DEF SoltarIndirecto
  <2>2. siguiente \in {A("soltar_directo"), A("abrir_fcb")}
    OBVIOUS
  <2> HIDE DEF siguiente, fcb
  <2> QED
    BY <1>3, <2>1, <2>2
<1>6. CASE SoltarDirecto
  <2> DEFINE fcb == [actual EXCEPT !.directo = 0, !.asignados = 0]
  <2>1. Marcar(actual.directo, FALSE, fcb, A("abrir_fcb"))
    BY <1>6 DEF SoltarDirecto
  <2> HIDE DEF fcb
  <2> QED
    BY <1>3, <2>1
<1>7. CASE AbrirFcb
  <2>1. /\ disco' = disco /\ roto' = roto /\ perdidos' = perdidos
        /\ estado' = "viva" /\ paso' = A("cerrar_fcb")
        /\ \A g \in Nombres \ {paso.archivo} : dictionaryFcbs'[g] = dictionaryFcbs[g]
    BY <1>1, <1>7 DEF AbrirFcb, promesas, TypeOK
  <2> QED
    BY <1>1, <1>2, <2>1, SigueIgual
<1> QED
  BY <1>4, <1>5, <1>6, <1>7

-----------------------------------------------------------------------------
(* The FCB that is written *)

\* Positions in blocks that two FCBs share are the same.
LEMMA MismaPosicion ==
    ASSUME NEW x, NEW y, EsFcb(y), NEW k \in Nat, Abajo(k) < Numero(y),
           y.directo = x.directo,
           Numero(y) > 1 => y.indirecto = x.indirecto
    PROVE  obtener_posicion_absoluta(y, k) = obtener_posicion_absoluta(x, k)
<1>1. Abajo(k) \in Nat /\ Numero(y) \in Nat
  BY Division, NumeroNat
<1>2. Abajo(k) # 0 => Numero(y) > 1
  BY <1>1
<1> QED
  BY <1>2 DEF obtener_posicion_absoluta, obtener_bloque_absoluto, Bloque, Puntero

\* A position of a file is in one of its blocks.
LEMMA PosicionDelArchivo ==
    ASSUME NEW x, EsFcb(x), NEW k \in 1 .. x.tamanio
    PROVE  /\ k - 1 \in Nat /\ Abajo(k - 1) \in 0 .. (Numero(x) - 1)
           /\ Numero(x) \in Nat /\ Abajo(k - 1) < Numero(x)
<1>1. x.tamanio \in Nat
  BY FcbTipos DEF EsFcb
<1>2. /\ k - 1 \in Nat /\ x.tamanio - 1 \in Nat /\ k - 1 <= x.tamanio - 1
      /\ x.tamanio > 0
  BY <1>1
<1>3. Numero(x) = Abajo(x.tamanio - 1) + 1
  BY <1>1, <1>2, ArribaValores DEF Numero
<1>4. Abajo(k - 1) <= Abajo(x.tamanio - 1) /\ Abajo(k - 1) \in Nat
      /\ Abajo(x.tamanio - 1) \in Nat
  BY <1>2, AbajoCrece, Division
<1> QED
  BY <1>2, <1>3, <1>4

\* Closing the file of an FCB creates a file, or truncates it.
LEMMA CerrarFcbImplementa ==
    ASSUME TypeOK, TypeOK', PasoPosible, DiscoSano, CerrarFcb
    PROVE  Durables!Next
<1>1. CASE paso.archivo \in perdidos
  <2>1. PerdidoQuieto(paso.archivo)
    BY DEF PerdidoQuieto
  <2>2. Durables!Romper
    BY <1>1, <2>1, QuietoPerdido, PerdidoIgual
  <2> QED
    BY <2>2 DEF Durables!Next
<1>2. CASE paso.archivo \notin perdidos
  <2> PICK f : f = paso.archivo
    OBVIOUS
  <2> PICK x : x = paso.antes
    OBVIOUS
  <2> PICK y : y = actual
    OBVIOUS
  <2>1. /\ paso.que = "cerrar_fcb" /\ En("cerrar_fcb") /\ estado' = "viva"
        /\ paso' = Ocioso /\ paso'.que = "ocioso"
        /\ UNCHANGED <<disco, dictionaryFcbs, estado, roto, perdidos>>
    BY DEF CerrarFcb, En, Ocioso, promesas
  <2>2. f \in Nombres /\ Cambiando(f) /\ y \in FcbsEnMemoria /\ EsFcb(y)
    BY <1>2, <2>1, CambiandoEste, ActualTipos DEF EsFcb
  <2>3. /\ FcbDe(f) = x /\ FcbDe(f)' = y
        /\ \A g \in Nombres \ {f} : FcbDe(g)' = FcbDe(g)
    BY <1>2, <2>1, <2>2, FcbDeValores DEF actual, Cambiando
  <2>4. \A g \in Nombres \ {f} : archivos'[g] = archivos[g]
    <3> TAKE g \in Nombres \ {f}
    <3>1. CASE g \in roto
      BY <2>1, <3>1, ArchivosValores, ArchivosPrima
    <3>2. CASE g \notin roto
      BY <2>1, <2>3, <3>2, SinCambioDeUno DEF Igual
    <3> QED
      BY <3>1, <3>2
  <2>5. CASE f \in roto
    <3>1. \A g \in Nombres \ roto' : archivos'[g] = archivos[g]
      BY <2>1, <2>4, <2>5
    <3>2. Durables!Romper
      BY <3>1, RompeSi
    <3> QED
      BY <3>2 DEF Durables!Next
  <2>6. y # NoHay
    BY <2>2, FcbTipos
  <2>7. f \notin roto => archivos'[f] = Contenido(y)
    <3>1. f \notin roto => archivos'[f] = Contenido(FcbDe(f))'
      BY <2>1, <2>2, <2>3, <2>6, ArchivosPrima
    <3> QED
      BY <2>1, <2>3, <3>1, ContenidoPrima
  <2>8. archivos' = [archivos EXCEPT ![f] = archivos'[f]]
    BY <2>2, <2>4, ArchivosValores, ArchivosPrima
  <2>9. CASE f \notin roto /\ x = NoHay
    <3>1. archivos[f] = NoHay
      BY <2>2, <2>3, <2>9, ArchivosValores
    <3>2. y.tamanio = 0
      BY <2>2, <2>9 DEF DiscoSano, Reduciendo
    <3>3. Contenido(y) = <<>>
      BY <2>2, <3>2, ContenidoValores, EmptySeq
    <3>4. Durables!Crear(f)
      BY <2>7, <2>8, <2>9, <3>1, <3>3 DEF Durables!Crear, Durables!Pasa
    <3> QED
      BY <2>2, <3>4 DEF Durables!Next
  <2>10. CASE f \notin roto /\ x # NoHay
    <3>1. EsFcb(x)
      <4>1. x \in FcbsEnMemoria \cup {NoHay}
        BY <2>1, <2>2 DEF TypeOK, Cambiando, Ocioso, PasosDeCrear, PasosDeTruncar,
                          PasosDeEscribir
      <4> QED
        BY <2>10, <4>1 DEF EsFcb
    <3>2. archivos[f] = Contenido(x)
      BY <2>2, <2>3, <2>10, ArchivosValores
    <3>3. /\ Numero(y) = y.asignados
          /\ y.asignados > 0 => y.directo = x.directo
          /\ y.asignados > 1 => y.indirecto = x.indirecto
      BY <2>1, <2>2, <2>10 DEF DiscoSano, Reduciendo, Numero
    <3>4. ASSUME NEW k \in (1 .. x.tamanio) \cap (1 .. y.tamanio)
          PROVE  Contenido(y)[k] = Contenido(x)[k]
      <4>1. /\ k - 1 \in Nat /\ Abajo(k - 1) \in Nat /\ Numero(y) \in Nat
            /\ Abajo(k - 1) < Numero(y)
        BY <2>2, PosicionDelArchivo, Division
      <4>2. Numero(y) > 0
        BY <4>1
      <4>3. obtener_posicion_absoluta(y, k - 1) = obtener_posicion_absoluta(x, k - 1)
        BY <2>2, <3>3, <4>1, <4>2, MismaPosicion
      <4> QED
        BY <2>2, <3>1, <4>3, ContenidoValores
    <3>5. Contenido(x) \notin {NoHay, Roto} /\ Contenido(y) \notin {NoHay, Roto}
      BY <2>2, <3>1, ContenidoValores
    <3>6. \A k \in DOMAIN archivos[f] \cap DOMAIN archivos'[f] :
             archivos'[f][k] = archivos[f][k]
      <4>1. DOMAIN Contenido(x) = 1 .. x.tamanio /\ DOMAIN Contenido(y) = 1 .. y.tamanio
        BY <2>2, <3>1, ContenidoValores
      <4> QED
        BY <2>7, <2>10, <3>2, <3>4, <4>1
    <3>7. Durables!Truncar(f)
      BY <2>7, <2>8, <2>10, <3>5, <3>6 DEF Durables!Truncar, Durables!Pasa
    <3> QED
      BY <2>2, <3>2, <3>5, <3>7 DEF Durables!Next
  <2> QED
    BY <2>5, <2>9, <2>10
<1> QED
  BY <1>1, <1>2

-----------------------------------------------------------------------------
(* Writes *)

\* Different positions of a file are different places of the disk.
LEMMA PosicionUnica ==
    ASSUME NEW x, Distintos(x), NEW i \in Nat, NEW k \in Nat,
           Abajo(i) \in 0 .. (Numero(x) - 1), Abajo(k) \in 0 .. (Numero(x) - 1),
           Bloque(x, Abajo(i)) \in Bloques, Bloque(x, Abajo(k)) \in Bloques,
           obtener_posicion_absoluta(x, i) = obtener_posicion_absoluta(x, k)
    PROVE  i = k
<1> DEFINE bi == Bloque(x, Abajo(i))
           bk == Bloque(x, Abajo(k))
           ri == i % SIZE_BLOQUE
           rk == k % SIZE_BLOQUE
<1>1. /\ bi \in Int /\ bk \in Int
      /\ ri \in 0 .. (SIZE_BLOQUE - 1) /\ rk \in 0 .. (SIZE_BLOQUE - 1)
  <2>1. \A c \in Bloques : c \in Int
    BY Numeros
  <2>2. ri \in 0 .. (SIZE_BLOQUE - 1) /\ rk \in 0 .. (SIZE_BLOQUE - 1)
    BY Division
  <2> QED
    BY <2>1, <2>2
<1>2. bi * SIZE_BLOQUE + ri = bk * SIZE_BLOQUE + rk
  BY DEF obtener_posicion_absoluta, obtener_bloque_absoluto
<1>3. bi = bk /\ ri = rk
  <2> HIDE DEF bi, bk, ri, rk
  <2>1. Abajo(bi * SIZE_BLOQUE + ri) = bi /\ (bi * SIZE_BLOQUE + ri) % SIZE_BLOQUE = ri
    BY <1>1, DivisionUnica
  <2>2. Abajo(bk * SIZE_BLOQUE + rk) = bk /\ (bk * SIZE_BLOQUE + rk) % SIZE_BLOQUE = rk
    BY <1>1, DivisionUnica
  <2> QED
    BY <1>2, <2>1, <2>2
<1>4. Abajo(i) = Abajo(k)
  BY <1>3 DEF Distintos
<1>5. /\ i = Abajo(i) * SIZE_BLOQUE + ri
      /\ k = Abajo(k) * SIZE_BLOQUE + rk
  BY Division
<1> HIDE DEF ri, rk
<1> QED
  BY <1>3, <1>4, <1>5

\* The words of an FCB after a write that does not reach its pointers.
LEMMA ContenidoEscrito ==
    ASSUME TypeOK, NEW g, NEW y, EsFcb(y), FcbDe(g)' = y,
           \A k \in 0 .. (Numero(y) - 1) :
              Bloque(y, k) \in Bloques /\ Bloque(y, k)' = Bloque(y, k)
    PROVE  /\ Contenido(FcbDe(g))'
                = [k \in 1 .. y.tamanio |-> disco'[obtener_posicion_absoluta(y, k - 1)]]
           /\ Contenido(y)
                = [k \in 1 .. y.tamanio |-> disco[obtener_posicion_absoluta(y, k - 1)]]
           /\ \A k \in 1 .. y.tamanio :
                 /\ obtener_posicion_absoluta(y, k - 1) \in Direcciones
                 /\ Abajo(obtener_posicion_absoluta(y, k - 1)) = Bloque(y, Abajo(k - 1))
<1>1. ASSUME NEW k \in 1 .. y.tamanio
      PROVE  /\ obtener_posicion_absoluta(y, k - 1) \in Direcciones
             /\ Abajo(obtener_posicion_absoluta(y, k - 1)) = Bloque(y, Abajo(k - 1))
             /\ Bloque(y, Abajo(k - 1))' = Bloque(y, Abajo(k - 1))
  <2>1. k - 1 \in Nat /\ Abajo(k - 1) \in 0 .. (Numero(y) - 1)
    BY PosicionDelArchivo
  <2>2. (k - 1) % SIZE_BLOQUE \in 0 .. (SIZE_BLOQUE - 1)
    BY <2>1, Division
  <2> QED
    BY <2>1, <2>2, DireccionDeBloque
       DEF obtener_posicion_absoluta, obtener_bloque_absoluto
<1>2. ASSUME NEW k \in 1 .. y.tamanio
      PROVE  obtener_posicion_absoluta(y, k - 1)' = obtener_posicion_absoluta(y, k - 1)
  BY <1>1 DEF obtener_posicion_absoluta, obtener_bloque_absoluto
<1>3. ASSUME NEW k \in 1 .. y.tamanio
      PROVE  Palabra(obtener_posicion_absoluta(y, k - 1))'
                = disco'[obtener_posicion_absoluta(y, k - 1)]
  BY <1>1, <1>2 DEF Palabra
<1>4. Contenido(FcbDe(g))'
         = [k \in 1 .. y.tamanio |-> Palabra(obtener_posicion_absoluta(y, k - 1))']
  BY DEF Contenido, obtener_posicion_absoluta, obtener_bloque_absoluto, Bloque,
         Puntero, Palabra, Abajo
<1>5. Contenido(y)
         = [k \in 1 .. y.tamanio |-> disco[obtener_posicion_absoluta(y, k - 1)]]
  BY <1>1 DEF Contenido, Palabra
<1> QED
  BY <1>1, <1>3, <1>4, <1>5

\* The places an iteration writes are the positions of the file from p on, as many
\* as the words it writes.
LEMMA LugaresDeLaIteracion ==
    ASSUME NEW x, NEW p \in Nat, NEW n \in Nat, NEW b \in Bloques,
           b = Bloque(x, Abajo(p)), (p % SIZE_BLOQUE) + n <= SIZE_BLOQUE,
           NEW j \in 0 .. (n - 1)
    PROVE  /\ Direccion(b, Lugar(p) + j) = obtener_posicion_absoluta(x, p + j)
           /\ Abajo(p + j) = Abajo(p) /\ p + j \in Nat
<1> DEFINE r == Lugar(p)
           z == b * SIZE_BLOQUE
<1>1. r \in Nat /\ r + n <= SIZE_BLOQUE /\ z \in Int
  BY Division, Producto, Numeros DEF Lugar
<1>2. r + j < SIZE_BLOQUE /\ j \in Nat
  <2> HIDE DEF r
  <2> QED
    BY <1>1, Numeros
<1>3. Abajo(p + j) = Abajo(p)
  BY <1>2, MismoBloque DEF Lugar
<1>4. obtener_posicion_absoluta(x, p + j) = obtener_posicion_absoluta(x, p) + j
  <2>1. Bloque(x, Abajo(p)) \in Int
    BY Numeros
  <2> QED
    BY <1>2, <2>1, PosicionEnBloque DEF Lugar
<1>5. obtener_posicion_absoluta(x, p) = z + r
  BY DEF obtener_posicion_absoluta, obtener_bloque_absoluto, Lugar
<1>6. Direccion(b, r + j) = z + (r + j)
  BY DEF Direccion
<1>7. p + j \in Nat
  BY <1>2
<1> HIDE DEF r, z
<1>8. z + (r + j) = (z + r) + j
  BY <1>1, <1>2
<1> QED
  BY <1>3, <1>4, <1>5, <1>6, <1>7, <1>8 DEF r

\* An iteration of escribir_archivo: the words of the request that are in its
\* block, and inside the file, are written; no other word of a file changes.
LEMMA EscribirEnBloqueImplementa ==
    ASSUME TypeOK, TypeOK', PasoPosible, DiscoSano, EscribirEnBloque
    PROVE  Durables!Next
<1> PICK f : f = paso.archivo
  OBVIOUS
<1> PICK x : x = actual
  OBVIOUS
<1> PICK p : p = paso.puntero
  OBVIOUS
<1> PICK b : b = Bloque(x, Abajo(p))
  OBVIOUS
<1> PICK n : n = Caben(p)
  OBVIOUS
<1> PICK v : v = paso.dato + p - paso.desde
  OBVIOUS
<1>1. En("escribir") /\ paso.que = "escribir" /\ roto' = roto
  BY DEF EscribirEnBloque, En, promesas
<1>2. /\ p \in Nat /\ n \in Nat /\ n > 0 /\ (p % SIZE_BLOQUE) + n <= SIZE_BLOQUE
      /\ v \in Nat
  <2>1. /\ p \in Nat /\ n \in Nat /\ n > 0 /\ (p % SIZE_BLOQUE) + n <= SIZE_BLOQUE
        /\ paso.desde \in Nat /\ paso.dato \in Nat /\ paso.desde <= p
    BY <1>1, IteracionValores DEF PasosDeEscribir, Caben
  <2> QED
    BY <2>1
<1>3. /\ f \in Nombres /\ EsFcb(x) /\ FcbDe(f) = x /\ Distintos(x)
      /\ Abajo(p) \in 0 .. (Numero(x) - 1) /\ b \in Bloques /\ b \in EnUso(f)
      /\ \A d \in Direcciones : Abajo(d) # b => disco'[d] = disco[d]
      /\ \A j \in 0 .. (n - 1) : disco'[Direccion(b, Lugar(p) + j)] = v + j
      /\ \A d \in Direcciones :
            (\A j \in 0 .. (n - 1) : d # Direccion(b, Lugar(p) + j))
               => disco'[d] = disco[d]
  <2>1. Iteracion(f, x, p, b, n)
    BY IteracionDisco
  <2> QED
    BY <2>1 DEF Iteracion
<1>4. \A g \in Nombres : FcbDe(g)' = FcbDe(g)
  BY EscribirEnBloqueDisco
<1>5. ASSUME NEW g \in Nombres, NEW y, y = FcbDe(g), EsFcb(y),
             NEW k \in 0 .. (Numero(y) - 1)
      PROVE  /\ Bloque(y, k) \in Bloques /\ Bloque(y, k) \in EnUso(g)
             /\ Bloque(y, k)' = Bloque(y, k)
  <2>1. Bloque(y, k) \in EnUso(g)
    <3>1. EnUso(g) = Primeros(y, Numero(y), Numero(y) > 1)
      BY <1>5, BloquesDeValores DEF EnUso
    <3> QED
      BY <3>1 DEF Primeros
  <2>2. EnUso(g) \subseteq Bloques
    BY DEF DiscoSano, Separados
  <2>3. Bloque(y, k)' = Bloque(y, k)
    BY <1>3, <1>4, <1>5, PunterosIntactos DEF DiscoSano
  <2> QED
    BY <2>1, <2>2, <2>3
<1>6. ASSUME NEW g \in Nombres \ {f}, g \notin roto
      PROVE  archivos'[g] = archivos[g]
  <2> PICK y : y = FcbDe(g)
    OBVIOUS
  <2>1. CASE y = NoHay
    BY <1>1, <1>4, <1>6, <2>1, ArchivosValores, ArchivosPrima
  <2>2. CASE y # NoHay
    <3>1. EsFcb(y)
      <4>1. y \in FcbsEnMemoria
        BY <1>1, <1>6, <2>2, FcbDeValores, CambiandoValores DEF En, TypeOK
      <4> QED
        BY <4>1 DEF EsFcb
    <3>2. /\ Contenido(FcbDe(g))'
                = [k \in 1 .. y.tamanio |-> disco'[obtener_posicion_absoluta(y, k - 1)]]
          /\ Contenido(y)
                = [k \in 1 .. y.tamanio |-> disco[obtener_posicion_absoluta(y, k - 1)]]
          /\ \A k \in 1 .. y.tamanio :
                /\ obtener_posicion_absoluta(y, k - 1) \in Direcciones
                /\ Abajo(obtener_posicion_absoluta(y, k - 1)) = Bloque(y, Abajo(k - 1))
      BY <1>4, <1>5, <3>1, ContenidoEscrito
    <3>3. ASSUME NEW k \in 1 .. y.tamanio
          PROVE  disco'[obtener_posicion_absoluta(y, k - 1)]
                    = disco[obtener_posicion_absoluta(y, k - 1)]
      <4>1. Bloque(y, Abajo(k - 1)) \in EnUso(g)
        BY <1>5, <3>1, PosicionDelArchivo
      <4>2. Bloque(y, Abajo(k - 1)) # b
        BY <1>3, <4>1 DEF DiscoSano, Separados
      <4> QED
        BY <1>3, <3>2, <4>2
    <3>4. Contenido(FcbDe(g))' = Contenido(y)
      BY <3>2, <3>3
    <3> QED
      BY <1>1, <1>4, <1>6, <2>2, <3>4, ArchivosValores, ArchivosPrima
  <2> QED
    BY <2>1, <2>2
<1>7. CASE f \in roto
  <2>1. Durables!Romper
    BY <1>1, <1>6, <1>7, RompeSi
  <2> QED
    BY <2>1 DEF Durables!Next
<1>8. /\ Contenido(FcbDe(f))'
            = [k \in 1 .. x.tamanio |-> disco'[obtener_posicion_absoluta(x, k - 1)]]
      /\ Contenido(x)
            = [k \in 1 .. x.tamanio |-> disco[obtener_posicion_absoluta(x, k - 1)]]
      /\ \A k \in 1 .. x.tamanio : obtener_posicion_absoluta(x, k - 1) \in Direcciones
  <2>1. \A k \in 0 .. (Numero(x) - 1) :
           Bloque(x, k) \in Bloques /\ Bloque(x, k)' = Bloque(x, k)
    BY <1>3, <1>5
  <2>2. FcbDe(f)' = x
    BY <1>3, <1>4
  <2> QED
    BY <1>3, <2>1, <2>2, ContenidoEscrito
<1>9. ASSUME NEW k \in 1 .. x.tamanio
      PROVE  /\ k \in (p + 1) .. (p + n) =>
                   disco'[obtener_posicion_absoluta(x, k - 1)] = v + (k - 1 - p)
             /\ k \notin (p + 1) .. (p + n) =>
                   disco'[obtener_posicion_absoluta(x, k - 1)]
                      = disco[obtener_posicion_absoluta(x, k - 1)]
  <2>1. k - 1 \in Nat /\ Abajo(k - 1) \in 0 .. (Numero(x) - 1)
    BY <1>3, PosicionDelArchivo
  <2>2. CASE k \in (p + 1) .. (p + n)
    <3> PICK j : j = k - 1 - p
      OBVIOUS
    <3>1. j \in 0 .. (n - 1) /\ p + j = k - 1
      BY <1>2, <2>1, <2>2
    <3>2. Direccion(b, Lugar(p) + j) = obtener_posicion_absoluta(x, p + j)
      BY <1>2, <1>3, <3>1, LugaresDeLaIteracion
    <3>3. disco'[Direccion(b, Lugar(p) + j)] = v + j
      BY <1>3, <3>1
    <3> QED
      BY <2>2, <3>1, <3>2, <3>3
  <2>3. CASE k \notin (p + 1) .. (p + n)
    <3>1. ASSUME NEW j \in 0 .. (n - 1),
                 obtener_posicion_absoluta(x, k - 1) = Direccion(b, Lugar(p) + j)
          PROVE  FALSE
      <4>1. /\ Direccion(b, Lugar(p) + j) = obtener_posicion_absoluta(x, p + j)
            /\ Abajo(p + j) = Abajo(p) /\ p + j \in Nat
        BY <1>2, <1>3, LugaresDeLaIteracion
      <4>2. Bloque(x, Abajo(k - 1)) \in Bloques
        BY <1>3, <1>5, <2>1
      <4>3. k - 1 = p + j
        BY <1>3, <2>1, <3>1, <4>1, <4>2, PosicionUnica
      <4> QED
        BY <1>2, <2>1, <2>3, <4>3
    <3> QED
      BY <1>3, <1>8, <2>3, <3>1
  <2> QED
    BY <2>2, <2>3
<1>10. CASE f \notin roto
  <2>1. /\ archivos[f] = Contenido(x) /\ archivos'[f] = Contenido(FcbDe(f))'
        /\ x # NoHay
    BY <1>1, <1>3, <1>4, <1>10, FcbTipos, ArchivosValores, ArchivosPrima DEF EsFcb
  <2>2. /\ x.tamanio \in Nat /\ Len(Contenido(x)) = x.tamanio
        /\ DOMAIN Contenido(x) = 1 .. x.tamanio
        /\ Contenido(x) \notin {NoHay, Roto}
    BY <1>3, ContenidoValores
  <2>3. CASE p >= x.tamanio
    <3>1. Contenido(FcbDe(f))' = Contenido(x)
      <4>1. \A k \in 1 .. x.tamanio : k \notin (p + 1) .. (p + n)
        BY <1>2, <2>2, <2>3
      <4> QED
        BY <1>8, <1>9, <4>1
    <3>2. Durables!Romper
      BY <1>1, <1>6, <2>1, <3>1, RompeSi
    <3> QED
      BY <3>2 DEF Durables!Next
  <2>4. CASE p < x.tamanio
    <3> PICK i, j : i = p + 1 /\ j = IF p + n <= x.tamanio THEN p + n ELSE x.tamanio
      OBVIOUS
    <3>1. /\ i \in 1 .. x.tamanio /\ j \in i .. x.tamanio
          /\ \A k \in 1 .. x.tamanio : k \in i .. j <=> k \in (p + 1) .. (p + n)
          /\ i \in (p + 1) .. (p + n)
      BY <1>2, <2>2, <2>4
    <3>2. archivos'[f][i] = v
      BY <1>2, <1>8, <1>9, <2>1, <3>1, SMTT(30)
    <3>3. \A k \in 1 .. x.tamanio :
             disco'[obtener_posicion_absoluta(x, k - 1)]
                = IF k \in i .. j THEN v + (k - i) ELSE Contenido(x)[k]
      <4> TAKE k \in 1 .. x.tamanio
      <4>1. k - 1 - p = k - i
        BY <1>2, <2>2
      <4> QED
        BY <1>8, <1>9, <3>1, <4>1
    <3>4. archivos'[f] = [k \in DOMAIN archivos[f] |->
                             IF k \in i .. j THEN archivos'[f][i] + (k - i)
                             ELSE archivos[f][k]]
      <4>1. \A k \in 1 .. x.tamanio :
               disco'[obtener_posicion_absoluta(x, k - 1)]
                  = IF k \in i .. j THEN archivos'[f][i] + (k - i)
                    ELSE archivos[f][k]
        BY <2>1, <3>2, <3>3
      <4>2. /\ archivos'[f] = [k \in 1 .. x.tamanio |->
                                  disco'[obtener_posicion_absoluta(x, k - 1)]]
            /\ DOMAIN archivos[f] = 1 .. x.tamanio
        BY <1>8, <2>1, <2>2
      <4> QED
        BY <4>1, <4>2
    <3>5. archivos' = [archivos EXCEPT ![f] = archivos'[f]]
      <4>1. \A g \in Nombres \ {f} : archivos'[g] = archivos[g]
        BY <1>1, <1>6, ArchivosValores, ArchivosPrima
      <4> QED
        BY <1>3, <4>1, ArchivosValores, ArchivosPrima
    <3>6. Durables!Escribir(f)
      <4>1. Durables!Pasa(f, [k \in DOMAIN archivos[f] |->
                                 IF k \in i .. j THEN archivos'[f][i] + (k - i)
                                 ELSE archivos[f][k]])
        BY <3>4, <3>5 DEF Durables!Pasa
      <4>2. i \in DOMAIN archivos[f] /\ j \in i .. Len(archivos[f])
        BY <2>1, <2>2, <3>1
      <4> QED
        BY <4>1, <4>2 DEF Durables!Escribir
    <3> QED
      BY <1>3, <2>1, <2>2, <3>6 DEF Durables!Next
  <2> QED
    BY <1>2, <2>2, <2>3, <2>4
<1> QED
  BY <1>7, <1>10

-----------------------------------------------------------------------------
(* Files that grow *)

\* A block for a file that grows changes no file that is whole,
LEMMA TomarIgual ==
    ASSUME TypeOK, TypeOK', PasoPosible, DiscoSano, TomarUno
    PROVE  Durables!Romper
<1>1. CASE SeDetiene
  BY <1>1, TomarPerdido, SeDetieneIgual
<1>2. CASE ~SeDetiene
  BY <1>2, TomarPerdido, PerdidoIgual
<1> QED
  BY <1>1, <1>2

\* and neither do its pointers, that are written in a block of no other.
LEMMA EscribirPunterosIgual ==
    ASSUME TypeOK, TypeOK', PasoPosible, DiscoSano, EscribirPunteros,
           roto' # Nombres
    PROVE  Durables!Romper
<1> PICK b : b = actual.indirecto
  OBVIOUS
<1>1. /\ DePerdido(paso.archivo) /\ UNCHANGED <<roto, perdidos>>
      /\ \A g \in Nombres \ perdidos : b \notin EnUso(g)
      /\ \A d \in Direcciones : Abajo(d) # b => disco'[d] = disco[d]
  BY PunterosPerdido
<1>2. ASSUME NEW g \in Nombres \ roto'
      PROVE  archivos'[g] = archivos[g]
  <2> PICK y : y = FcbDe(g)
    OBVIOUS
  <2>1. g \notin perdidos' /\ g \notin perdidos /\ g \notin roto
    BY <1>1 DEF TypeOK
  <2>2. FcbDe(g)' = y /\ y = dictionaryFcbs[g] /\ b \notin EnUso(g)
    BY <1>1, <2>1, PerdidoFcb
  <2>3. CASE y = NoHay
    BY <2>1, <2>2, <2>3, ArchivosValores, ArchivosPrima
  <2>4. CASE y # NoHay
    <3>1. EsFcb(y)
      BY <2>2, <2>4 DEF TypeOK, EsFcb
    <3>2. EnUso(g) = Primeros(y, Numero(y), Numero(y) > 1) /\ EnUso(g) \subseteq Bloques
      BY <3>1, BloquesDeValores DEF EnUso, DiscoSano, Separados
    <3>3. \A k \in 0 .. (Numero(y) - 1) : Bloque(y, k) \in EnUso(g)
      BY <3>2 DEF Primeros
    <3>4. Numero(y) > 1 => y.indirecto # b
      BY <2>2, <3>2 DEF Primeros
    <3>5. \A k \in 0 .. (Numero(y) - 1) : Bloque(y, k)' = Bloque(y, k)
      <4>1. Separados /\ FcbDe(g)' = FcbDe(g) /\ g \in Nombres
        BY <2>2 DEF DiscoSano
      <4> QED
        BY <1>1, <3>1, <3>4, <4>1, PunterosFuera
    <3>6. /\ Contenido(FcbDe(g))'
                = [k \in 1 .. y.tamanio |-> disco'[obtener_posicion_absoluta(y, k - 1)]]
          /\ Contenido(y)
                = [k \in 1 .. y.tamanio |-> disco[obtener_posicion_absoluta(y, k - 1)]]
          /\ \A k \in 1 .. y.tamanio :
                /\ obtener_posicion_absoluta(y, k - 1) \in Direcciones
                /\ Abajo(obtener_posicion_absoluta(y, k - 1)) = Bloque(y, Abajo(k - 1))
      BY <2>2, <3>1, <3>2, <3>3, <3>5, ContenidoEscrito
    <3>7. \A k \in 1 .. y.tamanio : Bloque(y, Abajo(k - 1)) # b
      BY <2>2, <3>1, <3>3, PosicionDelArchivo
    <3>8. Contenido(FcbDe(g))' = Contenido(y)
      BY <1>1, <3>6, <3>7
    <3> QED
      BY <2>1, <2>2, <2>4, <3>8, ArchivosValores, ArchivosPrima
  <2> QED
    BY <2>3, <2>4
<1> QED
  BY <1>2, RompeSi

-----------------------------------------------------------------------------
(* Every step *)

\* Every step is one of ArchivosDurables, or changes no file.
LEMMA ImplementaPaso ==
    ASSUME TypeOK, InvInductivo, [Next]_vars
    PROVE  [Durables!Next]_archivos
<1>1. TypeOK' /\ roto' \subseteq Nombres
  BY TiposPaso DEF InvInductivo, TypeOK
<1>2. CASE roto' = Nombres
  \* From here on nothing is promised.
  <2>1. Durables!Romper
    BY <1>2, RompeSi
  <2> QED
    BY <2>1 DEF Durables!Next
<1>3. CASE roto' # Nombres
  <2>1. DiscoSano /\ PasoPosible /\ roto \subseteq roto'
    BY <1>1, <1>3, RotoCrece DEF InvInductivo
  <2>2. CASE Iniciar
    BY <2>1, <2>2, IniciarIgual DEF Durables!Next
  <2>3. CASE Caer
    BY <2>1, <2>3, SeDetieneIgual DEF Caer, Durables!Next
  <2>4. ASSUME NEW f \in Nombres, CrearArchivo(f)
        PROVE  Durables!Romper
    BY <1>1, <1>3, <2>1, <2>4, PideIgual
  <2>5. ASSUME NEW f \in Nombres, NEW t \in Tamanios, Truncar(f, t)
        PROVE  Durables!Romper
    BY <1>1, <1>3, <2>1, <2>5, PideIgual
  <2>6. ASSUME NEW f \in Nombres, NEW n \in Largos, LeerArchivo(f, n)
        PROVE  Durables!Romper
    BY <2>1, <2>6, SeDetieneIgual DEF LeerArchivo
  <2>7. ASSUME NEW f \in Nombres, NEW n \in Largos, NEW p \in Posiciones,
               EscribirArchivo(f, p, n, CANTIDAD_BLOQUES * (SIZE_BLOQUE + 1))
        PROVE  Durables!Romper
    BY <1>1, <1>3, <2>1, <2>7, PideIgual
  <2>8. CASE Soltar \/ SoltarIndirecto \/ SoltarDirecto \/ AbrirFcb
    BY <2>1, <2>8, SoltarIgual DEF Durables!Next
  <2>9. CASE TomarDirecto \/ TomarIndirecto \/ Tomar \/ EscribirPunteros
    BY <1>1, <1>3, <2>1, <2>9, TomarIgual, EscribirPunterosIgual
       DEF TomarUno, Durables!Next
  <2>10. CASE CerrarFcb
    BY <1>1, <2>1, <2>10, CerrarFcbImplementa
  <2>11. CASE EscribirEnBloque
    BY <1>1, <2>1, <2>11, EscribirEnBloqueImplementa
  <2>12. CASE UNCHANGED vars
    <3>1. /\ disco' = disco /\ fcbs' = fcbs /\ dictionaryFcbs' = dictionaryFcbs
          /\ paso' = paso /\ estado' = estado /\ roto' = roto
          /\ perdidos' = perdidos
      BY <2>12 DEF vars, persistente, promesas
    <3>2. \A f \in Nombres : FcbDe(f)' = FcbDe(f)
      BY <3>1, FcbDeValores DEF Cambiando
    <3>3. Durables!Romper
      BY <3>1, <3>2, SinCambio DEF Igual
    <3> QED
      BY <3>3 DEF Durables!Next
  <2> QED
    BY <2>2, <2>3, <2>4, <2>5, <2>6, <2>7, <2>8, <2>9, <2>10, <2>11, <2>12
       DEF Next, Durables!Next
<1> QED
  BY <1>1, <1>2, <1>3

\* At the start every file is whole.
LEMMA ImplementaInicial ==
    ASSUME Init
    PROVE  Durables!Init
<1>1. TypeOK /\ DiscoSano /\ roto = {} /\ estado = "caida"
  BY TiposInicial, InicialDisco DEF Init
<1>2. ASSUME NEW f \in Nombres
      PROVE  archivos[f] # Roto
  <2>0. f \notin perdidos
    BY <1>1 DEF TypeOK
  <2>1. FcbDe(f) = fcbs[f] /\ fcbs[f] \in Fcbs \cup {NoHay}
    BY <1>1, <2>0, FcbDeValores DEF DiscoSano, FcbsIguales, TypeOK
  <2>2. FcbDe(f) # NoHay => EsFcb(FcbDe(f))
    BY <2>1 DEF EsFcb
  <2> QED
    BY <1>1, <2>2, ContenidoValores, ArchivosValores, ValoresAssumption
<1> QED
  BY <1>2 DEF Durables!Init

\* Whatever requests come, and whenever the FileSystem stops and starts, each file
\* that is whole is a sequence of words that only a creation, a truncation or a
\* write to that file changes: blocks, pointers, the bitmap and the FCB that is
\* emptied before it is written are never seen.  Another file that grows changes
\* none; the one that grows is not whole from then on, and none is once that one
\* is shortened or written.
THEOREM ImplementaArchivosTeorema == Spec => ImplementaArchivos
<1>1. Init => Durables!Init
  BY ImplementaInicial
<1>2. TypeOK /\ InvInductivo /\ [Next]_vars => [Durables!Next]_archivos
  BY ImplementaPaso
<1> QED
  BY <1>1, <1>2, TypeOKTeorema, InvInductivoTeorema, PTL
     DEF Spec, ImplementaArchivos, Durables!Spec

=============================================================================

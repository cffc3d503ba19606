------------------------------- MODULE Memoria -------------------------------
(***************************************************************************)
(* The memory server (modules/memoria/src/memoria.c): the list of holes,   *)
(* which has an element for each segment and for each free part of the     *)
(* memory, and the table of segments of each process.  One action for each *)
(* request of the kernel; Segmentos says when the kernel makes them.       *)
(*                                                                         *)
(* Addresses are relative to memoria_principal.  What the memory holds is  *)
(* left out.                                                               *)
(***************************************************************************)
EXTENDS Integers, SequencesExt

CONSTANTS
    Pids,                  \* the processes
    TAM_MEMORIA,
    TAM_SEGMENTO_0,
    CANT_SEGMENTOS,
    Algoritmos             \* that the configuration may ask for

ASSUME TamanioAssumption ==
    /\ TAM_MEMORIA \in Nat /\ TAM_SEGMENTO_0 \in Nat \ {0}
    /\ TAM_SEGMENTO_0 < TAM_MEMORIA
ASSUME SegmentosAssumption == CANT_SEGMENTOS \in Nat \ {0}
ASSUME AsignacionAssumption ==
    Algoritmos \subseteq {"FIRST", "BEST", "WORST"}

VARIABLES lista_huecos, tabla_segmentos_global,
          ALGORITMO_ASIGNACION   \* as read from the configuration

Ids == 0 .. (CANT_SEGMENTOS - 1)

\* The base of a segment that has not been created.
NULL == -1

Hueco(base, tamanio, libre) ==
    [base |-> base, tamanio |-> tamanio, libre |-> libre]

Huecos == [base : Nat, tamanio : Nat, libre : BOOLEAN]
Tablas == [Ids -> [base : Nat \cup {NULL}, size : Nat]]

\* A process has a table from AUX_CREATE_PCB on, and for ever.
MemoriaTypeOK ==
    /\ ALGORITMO_ASIGNACION \in Algoritmos
    /\ lista_huecos \in Seq(Huecos) \ {<<>>}
    /\ DOMAIN tabla_segmentos_global \subseteq Pids
    /\ \A p \in DOMAIN tabla_segmentos_global :
          tabla_segmentos_global[p] \in Tablas

\* inicializar_memoria
MemoriaInit ==
    /\ ALGORITMO_ASIGNACION \in Algoritmos
    /\ lista_huecos = <<Hueco(0, TAM_SEGMENTO_0, FALSE),
                        Hueco(TAM_SEGMENTO_0, TAM_MEMORIA - TAM_SEGMENTO_0,
                              TRUE)>>
    /\ tabla_segmentos_global = <<>>

\* crear_tabla_segmentos, agregar_segmento_0
TablaInicial ==
    [k \in Ids |-> IF k = 0 THEN [base |-> 0, size |-> TAM_SEGMENTO_0]
                            ELSE [base |-> NULL, size |-> 0]]

\* AUX_CREATE_PCB
CrearTabla(p) ==
    /\ tabla_segmentos_global' =
          [q \in {p} \cup DOMAIN tabla_segmentos_global |->
              IF q = p THEN TablaInicial ELSE tabla_segmentos_global[q]]
    /\ UNCHANGED lista_huecos

-----------------------------------------------------------------------------
(* I_CREATE_SEGMENT *)

\* The holes where a segment fits.  Best fit looks for one below the size of
\* the memory.
Alcanzan(tamanio) ==
    {i \in DOMAIN lista_huecos :
        /\ lista_huecos[i].libre
        /\ lista_huecos[i].tamanio >= tamanio
        /\ ALGORITMO_ASIGNACION = "BEST" => lista_huecos[i].tamanio < TAM_MEMORIA}

\* get_hueco_con_first_fit, get_hueco_con_best_fit, get_hueco_con_worst_fit:
\* among equals, the first.
Elegido(tamanio) ==
    LET mejor(i, j) ==
          CASE ALGORITMO_ASIGNACION = "FIRST" -> FALSE
            [] ALGORITMO_ASIGNACION = "BEST" ->
                  lista_huecos[i].tamanio < lista_huecos[j].tamanio
            [] ALGORITMO_ASIGNACION = "WORST" ->
                  lista_huecos[i].tamanio > lista_huecos[j].tamanio
    IN  CHOOSE i \in Alcanzan(tamanio) :
            \A j \in Alcanzan(tamanio) \ {i} :
                mejor(i, j) \/ (~mejor(j, i) /\ i < j)

Suma(huecos) ==
    LET suma[i \in 0 .. Len(huecos)] ==
          IF i = 0 THEN 0 ELSE suma[i - 1] + huecos[i].tamanio
    IN  suma[Len(huecos)]

\* The holes that are free, or those that are not, in the order of the list.
Filtrar(huecos, libre) ==
    LET elegidos[i \in 0 .. Len(huecos)] ==
          IF i = 0 THEN <<>>
          ELSE IF huecos[i].libre = libre THEN Append(elegidos[i - 1], huecos[i])
          ELSE elegidos[i - 1]
    IN  elegidos[Len(huecos)]

Libres(huecos) == Filtrar(huecos, TRUE)
Ocupados(huecos) == Filtrar(huecos, FALSE)

\* What crear_segmento answers; comprobar_compactacion.
Respuesta(tamanio) ==
    IF Alcanzan(tamanio) # {} THEN "AUX_OK"
    ELSE IF Suma(Libres(lista_huecos)) >= tamanio THEN "COMPACTACION"
    ELSE "OUT_OF_MEMORY"

\* obtener_indice_de_lista_huecos
Indice(base) ==
    SelectInSeq(lista_huecos, LAMBDA h : h.base = base)

\* Mutant: the rest is computed after the hole has its new size, and added.
PartirSinRestar(i, tamanio) ==
    InsertAt([lista_huecos EXCEPT ![i] = Hueco(@.base, tamanio, FALSE)],
             Indice(lista_huecos[i].base) + 1,
             Hueco(lista_huecos[i].base + tamanio,
                   tamanio - lista_huecos[i].tamanio, TRUE))

\* modificar_lista_huecos: the hole i is split, even when nothing is left, and
\* the rest goes after the first hole with the same base.
Partir(i, tamanio) ==
    InsertAt([lista_huecos EXCEPT ![i] = Hueco(@.base, tamanio, FALSE)],
             Indice(lista_huecos[i].base) + 1,
             Hueco(lista_huecos[i].base + tamanio,
                   lista_huecos[i].tamanio - tamanio, TRUE))

\* The table the kernel sent, with the new segment, takes the place of
\* Memoria's.
CrearSegmento(p, tabla, id, tamanio) ==
    LET i == Elegido(tamanio)
    IN  /\ lista_huecos' = Partir(i, tamanio)
        /\ tabla_segmentos_global' =
              [tabla_segmentos_global EXCEPT
                  ![p] = [tabla EXCEPT
                             ![id] = [base |-> lista_huecos[i].base,
                                      size |-> tamanio]]]

-----------------------------------------------------------------------------
(* I_DELETE_SEGMENT *)

\* Mutant: the size of the hole that is removed is forgotten.
UnirSinSumar(huecos, i) == RemoveAt(huecos, i + 1)

\* Hole i takes in the next one.
Unir(huecos, i) ==
    RemoveAt([huecos EXCEPT ![i].tamanio = @ + huecos[i + 1].tamanio], i + 1)

\* Mutant: the hole after the one that is freed is not looked at.
ConsolidarAnterior(huecos, i) ==
    IF i > 2 /\ huecos[i - 1].libre THEN Unir(huecos, i - 1) ELSE huecos

\* comprobar_consolidacion_huecos_aledanios.  Neither the hole of segment 0 nor
\* the one before it is ever the previous one.
Consolidar(huecos, i) ==
    LET anterior == i > 2 /\ huecos[i - 1].libre
        unidos == IF anterior THEN Unir(huecos, i - 1) ELSE huecos
        actual == IF anterior THEN i - 1 ELSE i
    IN  IF i < Len(huecos) /\ huecos[i + 1].libre
        THEN Unir(unidos, actual)
        ELSE unidos

\* eliminar_segmento frees the first hole with the base of the segment; when
\* there is none, it consolidates the hole of segment 0.
EliminarSegmento(p, tabla, id) ==
    LET i == Indice(tabla[id].base)
    IN  /\ lista_huecos' = IF i = 0
                           THEN Consolidar(lista_huecos, 1)
                           ELSE Consolidar([lista_huecos EXCEPT
                                               ![i].libre = TRUE], i)
        /\ tabla_segmentos_global' =
              [tabla_segmentos_global EXCEPT
                  ![p] = [tabla EXCEPT ![id] = [base |-> NULL, size |-> 0]]]

-----------------------------------------------------------------------------
(* COMPACTACION *)

\* The free holes but that of segment 0, which is never free.
PrimerLibre == SelectInSeq(lista_huecos, LAMBDA h : h.libre)

\* The loop that takes the free holes to the end of the list stops at the next
\* hole with the base of the first free one: that hole itself when it has been
\* taken to the end, or another with the same base before it.
Parada ==
    LET repetidos == {j \in DOMAIN lista_huecos :
                         j > PrimerLibre
                         /\ lista_huecos[j].base
                               = lista_huecos[PrimerLibre].base}
    IN  IF repetidos = {} THEN Len(lista_huecos) + 1
        ELSE Min(repetidos)

\* The loop that removes the holes to the right skips one after each.
QuitarAlternados(huecos) ==
    [j \in 1 .. (Len(huecos) \div 2) |-> huecos[2 * j]]

\* The list after the first loop: the hole where it stops gets the size of all
\* the free ones that were taken to the end.
Juntar ==
    IF PrimerLibre = 0 THEN lista_huecos
    ELSE LET antes == SubSeq(lista_huecos, 1, Parada - 1)
             resto == SubSeq(lista_huecos, Parada, Len(lista_huecos))
                         \o Libres(antes)
         IN  Ocupados(antes)
                \o <<[Head(resto) EXCEPT !.tamanio = Suma(Libres(antes))]>>
                \o QuitarAlternados(Tail(resto))

\* The bases the second loop gives: each hole begins the size of the previous
\* one after base_actual, the last base of an occupied one.
BasesNuevas(huecos) ==
    LET base_actual[i \in 0 .. Len(huecos)] ==
          IF i <= 1 THEN huecos[1].base
          ELSE IF huecos[i].libre THEN base_actual[i - 1]
          ELSE base_actual[i - 1] + huecos[i - 1].tamanio
    IN  [i \in DOMAIN huecos |->
            IF i = 1 THEN huecos[1].base
                     ELSE base_actual[i - 1] + huecos[i - 1].tamanio]

\* Mutant: the segment 0 of the table is compared, and no other.
MoverElCero(tabla, vieja, nueva) ==
    IF tabla[0].base = vieja THEN [tabla EXCEPT ![0].base = nueva] ELSE tabla

\* In a table, the first segment but 0 with the old base of a hole moves.
MoverSegmento(tabla, vieja, nueva) ==
    LET ks == {k \in Ids \ {0} : tabla[k].base = vieja}
    IN  IF ks = {} THEN tabla
        ELSE [tabla EXCEPT ![Min(ks)].base = nueva]

MoverSegmentos(tabla, huecos) ==
    LET bases == BasesNuevas(huecos)
        movida[i \in 0 .. Len(huecos)] ==
          IF i <= 1 THEN tabla
          ELSE IF huecos[i].libre THEN movida[i - 1]
          ELSE MoverSegmento(movida[i - 1], huecos[i].base, bases[i])
    IN  movida[Len(huecos)]

\* compactar
Compactar ==
    LET huecos == Juntar
    IN  /\ lista_huecos' = [i \in DOMAIN huecos |->
                              [huecos[i] EXCEPT !.base = BasesNuevas(huecos)[i]]]
        /\ tabla_segmentos_global' =
              [p \in DOMAIN tabla_segmentos_global |->
                  MoverSegmentos(tabla_segmentos_global[p], huecos)]
=============================================================================

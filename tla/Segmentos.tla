------------------------------ MODULE Segmentos ------------------------------
(***************************************************************************)
(* The kernel and Memoria: the table of segments each PCB has in the       *)
(* kernel, the requests of manejo_instrucciones and                        *)
(* enviar_proceso_a_ready, and the compaction they ask for.  mutex_memoria *)
(* makes a request and its answer one step; a compaction and the second    *)
(* CREATE_SEGMENT are two, with other threads between them.                *)
(*                                                                         *)
(* Of the planner there is where each PCB is, as buscar_proceso sees it:   *)
(* in one of the lists of lista_estados, in the hands of                   *)
(* manejo_desalojo_pcb, or blocked by a resource, whose queue it does not  *)
(* look at.                                                                *)
(***************************************************************************)
EXTENDS Memoria

CONSTANTS Tamanios,   \* the sizes programs ask for
          Nadie       \* no process

ASSUME TamaniosAssumption == Tamanios \subseteq Nat \ {0}
ASSUME NadieAssumption == Nadie \notin Pids

VARIABLES
    lista_segmentos,  \* of each PCB
    lugar,            \* where each PCB is
    pedido,           \* the CREATE_SEGMENT that runs again
    sobra,            \* the zero after OUT_OF_MEMORY has not been read
    mutex_memoria     \* a handler returned without unlocking it

memoria == <<lista_huecos, tabla_segmentos_global>>
conexion == <<sobra, mutex_memoria>>
vars == <<ALGORITMO_ASIGNACION, memoria, lista_segmentos, lugar, pedido, conexion>>

Pedido(p, id, tamanio) == [pid |-> p, id |-> id, tamanio |-> tamanio]
SinPedido == Pedido(Nadie, 0, 0)

Lugares == {"fuera", "lista", "mano", "recurso", "fin", "perdido"}

TypeOK ==
    /\ MemoriaTypeOK
    /\ lista_segmentos \in [Pids -> Tablas]
    /\ lugar \in [Pids -> Lugares]
    /\ pedido \in [pid : Pids \cup {Nadie}, id : Ids,
                   tamanio : Tamanios \cup {0}]
    /\ sobra \in BOOLEAN /\ mutex_memoria \in BOOLEAN
    /\ DOMAIN tabla_segmentos_global = {p \in Pids : lugar[p] # "fuera"}

Init ==
    /\ MemoriaInit
    /\ lista_segmentos = [p \in Pids |-> TablaInicial]
    /\ lugar = [p \in Pids |-> "fuera"]
    /\ pedido = SinPedido
    /\ sobra = FALSE /\ mutex_memoria = FALSE

Va(p, a) == lugar' = [lugar EXCEPT ![p] = a]

-----------------------------------------------------------------------------

\* enviar_proceso_a_ready has Memoria make the table of a PCB of NEW.  (What it
\* reads out of step, after an OUT_OF_MEMORY, is left out.)
CrearPcb(p) ==
    /\ lugar[p] = "fuera"
    /\ ~mutex_memoria /\ ~sobra
    /\ CrearTabla(p)
    /\ lista_segmentos' = [lista_segmentos EXCEPT ![p] = TablaInicial]
    /\ Va(p, "lista")
    /\ UNCHANGED <<pedido, conexion>>

\* Memoria's answer is AUX_OK, and the PCB goes back to EXECUTING.
Creado(p, id, tamanio) ==
    /\ Respuesta(tamanio) = "AUX_OK"
    /\ CrearSegmento(p, lista_segmentos[p], id, tamanio)
    /\ lista_segmentos' =
          [lista_segmentos EXCEPT
              ![p][id] = [base |-> lista_huecos[Elegido(tamanio)].base,
                          size |-> tamanio]]
    /\ Va(p, "lista")
    /\ pedido' = SinPedido
    /\ UNCHANGED conexion

\* actualizar_todas_las_tablas_de_segmentos: the PCBs that buscar_proceso finds
\* take Memoria's tables.
ActualizarTablas(p) ==
    lista_segmentos' =
        [q \in Pids |-> IF q # p /\ lugar[q] = "lista"
                        THEN tabla_segmentos_global'[q]
                        ELSE lista_segmentos[q]]

\* The answer is COMPACTACION: the kernel asks for it.  The first time, the
\* case runs once more; the second, the PCB is left nowhere.
Compactado(p, id, tamanio) ==
    /\ Respuesta(tamanio) = "COMPACTACION"
    /\ Compactar
    /\ ActualizarTablas(p)
    /\ IF pedido = SinPedido
       THEN Va(p, "mano") /\ pedido' = Pedido(p, id, tamanio)
       ELSE Va(p, "perdido") /\ pedido' = SinPedido
    /\ UNCHANGED conexion

\* The answer is OUT_OF_MEMORY: the kernel ends the process, and does not read
\* the zero that follows.
SinMemoria(p, tamanio) ==
    /\ Respuesta(tamanio) = "OUT_OF_MEMORY"
    /\ Va(p, "fin")
    /\ pedido' = SinPedido
    /\ sobra' = TRUE
    /\ UNCHANGED <<memoria, lista_segmentos, mutex_memoria>>

\* That zero is taken for the answer, whatever Memoria did.  No branch is for
\* it: the case runs again, with the mutex locked by the same thread.
Desfasado(p, id, tamanio) ==
    /\ IF Respuesta(tamanio) = "AUX_OK"
       THEN CrearSegmento(p, lista_segmentos[p], id, tamanio)
       ELSE UNCHANGED memoria
    /\ mutex_memoria' = TRUE
    /\ pedido' = Pedido(p, id, tamanio)
    /\ Va(p, "mano")
    /\ UNCHANGED <<lista_segmentos, sobra>>

\* I_CREATE_SEGMENT
PedirSegmento(p, id, tamanio) ==
    /\ ~mutex_memoria
    /\ \/ pedido = SinPedido /\ lugar[p] = "lista"
       \/ pedido = Pedido(p, id, tamanio)
    /\ \/ /\ ~sobra
          /\ \/ Creado(p, id, tamanio)
             \/ Compactado(p, id, tamanio)
             \/ SinMemoria(p, tamanio)
       \/ sobra /\ Desfasado(p, id, tamanio)

\* I_DELETE_SEGMENT.  When the zero is taken for the answer, the kernel keeps
\* its table and the mutex.
BorrarSegmento(p, id) ==
    /\ ~mutex_memoria
    /\ pedido = SinPedido
    /\ lugar[p] = "lista"
    /\ EliminarSegmento(p, lista_segmentos[p], id)
    /\ IF sobra
       THEN mutex_memoria' = TRUE /\ UNCHANGED lista_segmentos
       ELSE /\ lista_segmentos' = [lista_segmentos EXCEPT
                                      ![p] = tabla_segmentos_global'[p]]
            /\ UNCHANGED mutex_memoria
    /\ UNCHANGED <<lugar, pedido, sobra>>

\* A WAIT that blocks the process, and the SIGNAL of another that wakes it.
Bloquear(p) ==
    /\ pedido = SinPedido
    /\ lugar[p] = "lista"
    /\ Va(p, "recurso")
    /\ UNCHANGED <<memoria, lista_segmentos, pedido, conexion>>

Despertar(p) ==
    /\ pedido = SinPedido
    /\ lugar[p] = "recurso"
    /\ \E q \in Pids : lugar[q] = "lista"
    /\ Va(p, "lista")
    /\ UNCHANGED <<memoria, lista_segmentos, pedido, conexion>>

\* terminar_proceso does not tell Memoria.
Terminar(p) ==
    /\ pedido = SinPedido
    /\ lugar[p] = "lista"
    /\ Va(p, "fin")
    /\ UNCHANGED <<memoria, lista_segmentos, pedido, conexion>>

Next ==
    /\ \E p \in Pids :
          \/ CrearPcb(p)
          \/ \E id \in Ids \ {0}, tamanio \in Tamanios :
                PedirSegmento(p, id, tamanio)
          \/ \E id \in Ids \ {0} : BorrarSegmento(p, id)
          \/ Bloquear(p)
          \/ Despertar(p)
          \/ Terminar(p)
    /\ UNCHANGED ALGORITMO_ASIGNACION

Spec == Init /\ [][Next]_vars

-----------------------------------------------------------------------------
(* Properties *)

\* The holes that are not empty, in the order of the list, lie one after the
\* other from the first address to the last.
Llenos == {i \in DOMAIN lista_huecos : lista_huecos[i].tamanio > 0}
Fin(i) == lista_huecos[i].base + lista_huecos[i].tamanio

Cubren ==
    /\ \E i \in Llenos : lista_huecos[i].base = 0 /\ \A j \in Llenos : i <= j
    /\ \E i \in Llenos : Fin(i) = TAM_MEMORIA /\ \A j \in Llenos : j <= i
    /\ \A i, j \in Llenos :
          i < j /\ (\A k \in Llenos : k <= i \/ j <= k)
          => lista_huecos[j].base = Fin(i)

\* The base of a hole identifies it.
SinRepetir == IsInjective([i \in DOMAIN lista_huecos |-> lista_huecos[i].base])

\* The segments but 0 that exist, as a process and a number.
Creados ==
    {s \in (DOMAIN tabla_segmentos_global) \X (Ids \ {0}) :
        tabla_segmentos_global[s[1]][s[2]].base # NULL}

Segmento(s) == tabla_segmentos_global[s[1]][s[2]]

\* Each has the hole it was given.
ConHueco ==
    \A s \in Creados : \E h \in Range(lista_huecos) :
        /\ ~h.libre
        /\ h.base = Segmento(s).base
        /\ h.tamanio = Segmento(s).size

\* A step compacts.
Compacta ==
    \E p \in Pids, id \in Ids \ {0}, tamanio \in Tamanios :
        Compactado(p, id, tamanio)

\* No address belongs to two segments: neither of one process nor of two.
SegmentosSeparados ==
    \A s, t \in Creados :
        s # t => \/ Segmento(s).base + Segmento(s).size <= Segmento(t).base
                 \/ Segmento(t).base + Segmento(t).size <= Segmento(s).base

\* After a DELETE_SEGMENT the kernel has "la tabla de segmentos del proceso"
\* replaced "por la nueva" (kernel.c:607): a process the planner may send to the
\* CPU has the table Memoria has.
KernelAlDia ==
    \A p \in Pids :
        lugar[p] = "lista" => lista_segmentos[p] = tabla_segmentos_global[p]

\* The process whose CREATE_SEGMENT runs again has the table Memoria has.
PedidoAlDia ==
    pedido # SinPedido =>
        lista_segmentos[pedido.pid] = tabla_segmentos_global[pedido.pid]

\* While the kernel's tables are Memoria's, creating, deleting and consolidating
\* never lose, duplicate or overlap an address of the memory, take the hole of a
\* segment or give two segments one address, whatever the order and with empty
\* holes among the others.
CubrenSinCompactar ==
    [][/\ Cubren /\ ConHueco /\ SegmentosSeparados
       /\ KernelAlDia /\ PedidoAlDia /\ ~Compacta
       => Cubren' /\ ConHueco' /\ SegmentosSeparados']_vars

\* The holes, empty ones too, lie one after the other; the first is segment 0's;
\* only free ones are empty, and no two of them are together; and each segment has
\* one that is not the first.
Contiguos ==
    /\ lista_huecos[1].base = 0 /\ ~lista_huecos[1].libre
    /\ \A i \in 1 .. (Len(lista_huecos) - 1) : lista_huecos[i + 1].base = Fin(i)
    /\ Fin(Len(lista_huecos)) = TAM_MEMORIA
OcupadosLlenos ==
    \A i \in DOMAIN lista_huecos : ~lista_huecos[i].libre => i \in Llenos
LibresSueltos ==
    \A i \in 1 .. (Len(lista_huecos) - 1) :
        ~(lista_huecos[i].libre /\ lista_huecos[i + 1].libre)
EnSuHueco(s, i) ==
    /\ ~lista_huecos[i].libre
    /\ lista_huecos[i].base = Segmento(s).base
    /\ lista_huecos[i].tamanio = Segmento(s).size
CadaUnoElSuyo ==
    \A s \in Creados : \E i \in 2 .. Len(lista_huecos) : EnSuHueco(s, i)

Particion ==
    /\ Contiguos /\ OcupadosLlenos /\ LibresSueltos
    /\ CadaUnoElSuyo /\ SegmentosSeparados

\* A compaction that finds each hole with its base, and no more than two free.
CompactaLimpio == Compacta /\ SinRepetir /\ Len(Libres(lista_huecos)) <= 2

\* Memory divided in that way stays so, whatever is created, deleted and
\* consolidated from tables that are the kernel's and Memoria's, and when it is
\* compacted with one or two free holes.
ParticionEstable ==
    [][/\ Particion /\ KernelAlDia /\ PedidoAlDia
       /\ Compacta => CompactaLimpio
       => Particion']_vars

\* With two free holes or one, and each hole with its base, a compaction keeps
\* the cover, leaves each segment of Memoria's tables a hole of its size and
\* its own addresses, and makes room for the segment that was asked for.
CompactaBien ==
    [][/\ Compacta /\ pedido = SinPedido
       /\ Cubren /\ SinRepetir /\ ConHueco /\ SegmentosSeparados
       /\ Len(Libres(lista_huecos)) <= 2
       => /\ Cubren' /\ ConHueco' /\ SegmentosSeparados'
          /\ (Respuesta(pedido.tamanio) = "AUX_OK")']_vars

=============================================================================

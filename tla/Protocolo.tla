----------------------------- MODULE Protocolo -----------------------------
(***************************************************************************)
(* The connections of the four modules, word by word: the handshakes, the  *)
(* packets -- an operation code, a size and that many bytes -- and the     *)
(* threads that send and receive them.  Nothing on the wire says where a   *)
(* packet starts: a module that leaves a word unread, or reads one too     *)
(* many, takes sizes for operations from then on.                          *)
(*                                                                         *)
(* por[h] is what is left of the loop of thread h, a sequence of the calls *)
(* of shared.c; each handler is an operator that gives its calls.  Two     *)
(* threads of the kernel share the connection with Memoria, under          *)
(* mutex_memoria.  Which process runs, the tables and the files are those  *)
(* of Planificador, Segmentos and FileSystem: here they are free choices.  *)
(* The kernel is launched once CPU and FileSystem listen, and nobody       *)
(* closes a connection.                                                    *)
(***************************************************************************)
EXTENDS Integers, Sequences

CONSTANTS Desalojos,   \* the operations the CPU returns a PCB for
          Creaciones,  \* Memoria's answers to a CREATE_SEGMENT
          Consolas,    \* how many processes are admitted
          Texto,       \* the first four characters of a string, as an int
          Nadie

ASSUME ConsolasAssumption == Consolas \in Nat
ASSUME NadieAssumption == Nadie \notin {"ready", "desalojo"}
ASSUME TextoAssumption == Texto \in Nat

\* codigo_operacion, of those that travel.
Op == [OP_EXECUTE_PCB |-> 0, I_MOV_IN |-> 2, I_MOV_OUT |-> 3, I_F_OPEN |-> 5,
       I_F_READ |-> 8, I_F_WRITE |-> 9, I_TRUNCATE |-> 10,
       I_CREATE_SEGMENT |-> 13, I_DELETE_SEGMENT |-> 14, I_YIELD |-> 15,
       AUX_CREATE_PCB |-> 18, KERNEL_CREAR_ARCHIVO |-> 27, AUX_OK |-> 29,
       AUX_ERROR |-> 30, AUX_SOY_CPU |-> 33, AUX_SOY_KERNEL |-> 34,
       AUX_SOY_FILE_SYSTEM |-> 35, OUT_OF_MEMORY |-> 40, COMPACTACION |-> 41]

Modulos == {"kernel", "cpu", "memoria", "fs"}
Canales == {c \in Modulos \X Modulos : c[1] # c[2]}

VARIABLES
    canal,         \* the words sent from one module to another, and not read
    por,           \* the calls left to each thread
    escuchan,      \* the modules that have called iniciar_servidor
    cola,          \* the clients each server has not accepted
    mutex_memoria, \* the thread of the kernel that has it, or Nadie
    inicializar    \* sem_proceso_a_ready_inicializar

vars == <<canal, por, escuchan, cola, mutex_memoria, inicializar>>

-----------------------------------------------------------------------------
(* Packets.  A word is four bytes; the code sees what it is worth, and what *)
(* it was sent as is for the properties.                                    *)

Palabra(es, vale) == [es |-> es, vale |-> vale]
Dato(n) == Palabra("dato", n)

Paquete(op, datos) ==
    <<Palabra("op", op), Palabra("tam", 4 * Len(datos))>> \o datos

\* agregar_a_paquete puts the length first; agregar_int_a_paquete does not.
Largo(texto) == <<Dato(4 * Len(texto))>> \o texto
Nombre == Largo(<<Dato(Texto)>>)
Cifras == Largo(<<Dato(Texto)>>)
Entero == <<Dato(1)>>

\* A PCB, a table of segments and a pointer: how long they are is not told
\* apart from a few words.
Pcb == Entero \o Nombre
Tabla == Entero \o Entero
Puntero == Entero \o Entero

-----------------------------------------------------------------------------
(* The calls of a thread *)

EnviarPaquete(de, a, op, datos) ==
    <<[paso |-> "send", canal |-> <<de, a>>, palabras |-> Paquete(op, datos)]>>
EnviarOperacion(de, a, op) == EnviarPaquete(de, a, op, <<>>)
\* A word that is read and not looked at.
Recibir(de, a) == <<[paso |-> "recibir_operacion", canal |-> <<de, a>>]>>
\* A word that a switch, or an if, looks at.
Segun(de, a, como) ==
    <<[paso |-> "switch", canal |-> <<de, a>>, como |-> como]>>
RecibirBuffer(de, a) == <<[paso |-> "recibir_buffer", canal |-> <<de, a>>]>>
Elegir(que) == <<[paso |-> "elegir", que |-> que]>>
Conectar(de, a) == <<[paso |-> "connect", canal |-> <<de, a>>]>>
Responder(de, a) ==
    <<[paso |-> "send", canal |-> <<de, a>>, palabras |-> <<Dato(0)>>]>>
Lanzado == <<[paso |-> "lanzado"]>>
Escuchar == <<[paso |-> "listen"]>>
Aceptar == <<[paso |-> "accept"]>>
Lanzar(hilos) == <<[paso |-> "pthread_create", hilos |-> hilos]>>
Tomar == <<[paso |-> "lock"]>>
Soltar == <<[paso |-> "unlock"]>>
EsperarConsola == <<[paso |-> "sem_wait"]>>
Fin == <<[paso |-> "fin"]>>       \* return, or a join of a thread without end

-----------------------------------------------------------------------------
(* Kernel *)

\* Mutant: the answers of Memoria are read without the mutex.
EnviarAReadySinMutex ==
    EsperarConsola
    \o EnviarPaquete("kernel", "memoria", Op.AUX_CREATE_PCB, Entero)
    \o Recibir("memoria", "kernel") \o RecibirBuffer("memoria", "kernel")

enviar_proceso_a_ready ==
    EsperarConsola \o Tomar
    \o EnviarPaquete("kernel", "memoria", Op.AUX_CREATE_PCB, Entero)
    \o Recibir("memoria", "kernel") \o RecibirBuffer("memoria", "kernel")
    \o Soltar

manejo_desalojo_pcb ==
    EnviarPaquete("kernel", "cpu", Op.OP_EXECUTE_PCB, Pcb)
    \o Segun("cpu", "kernel", "manejo_instrucciones")

AbrirArchivo ==
    EnviarPaquete("kernel", "fs", Op.I_F_OPEN, Nombre)
    \o Segun("fs", "kernel", "f_open")

\* Mutant: the zero after the answer is not read.
CrearArchivoSinCero ==
    EnviarPaquete("kernel", "fs", Op.KERNEL_CREAR_ARCHIVO, Nombre)
    \o Recibir("fs", "kernel")

CrearArchivo ==
    EnviarPaquete("kernel", "fs", Op.KERNEL_CREAR_ARCHIVO, Nombre)
    \o Recibir("fs", "kernel") \o Recibir("fs", "kernel")

TrasAbrir(op) ==
    Recibir("fs", "kernel") \o IF op = Op.AUX_OK THEN <<>> ELSE CrearArchivo

TruncarArchivo ==
    EnviarPaquete("kernel", "fs", Op.I_TRUNCATE, Nombre \o Cifras)
    \o Recibir("fs", "kernel") \o Recibir("fs", "kernel")

LeerEscribir(op) ==
    Recibir("cpu", "kernel") \o RecibirBuffer("cpu", "kernel")
    \o EnviarPaquete("kernel", "fs", op,
                     Nombre \o Entero \o Cifras \o Entero \o Entero)
    \o Recibir("fs", "kernel") \o Recibir("fs", "kernel")

PedirSegmento(como) ==
    Tomar \o EnviarPaquete("kernel", "memoria", Op.I_CREATE_SEGMENT, Pcb)
    \o EnviarPaquete("kernel", "memoria", Op.I_CREATE_SEGMENT, Entero \o Entero)
    \o Segun("memoria", "kernel", como)

\* Mutant: a compaction is always followed by another request.
ReintentarSiempre(como) == PedirSegmento("crear")

\* Only the first request is made again: manejo_desalojo_pcb does not look at
\* what the second one returns.
Reintento(como) ==
    IF como = "crear" THEN PedirSegmento("crear_de_nuevo") ELSE <<>>

\* With an answer of no branch the instruction runs again, and mutex_memoria is not
\* unlocked.
TrasCrear(op, como) ==
    CASE op = Op.AUX_OK -> RecibirBuffer("memoria", "kernel") \o Soltar
      [] op = Op.COMPACTACION ->
            EnviarOperacion("kernel", "memoria", Op.COMPACTACION)
            \o Recibir("memoria", "kernel") \o Recibir("memoria", "kernel")
            \o RecibirBuffer("memoria", "kernel") \o Soltar \o Reintento(como)
      [] op = Op.OUT_OF_MEMORY -> Soltar
      [] OTHER -> Reintento(como)

BorrarSegmento ==
    Tomar \o EnviarPaquete("kernel", "memoria", Op.I_DELETE_SEGMENT, Pcb)
    \o EnviarPaquete("kernel", "memoria", Op.I_DELETE_SEGMENT, Entero)
    \o Segun("memoria", "kernel", "borrar")

TrasBorrar(op) ==
    IF op = Op.AUX_OK THEN RecibirBuffer("memoria", "kernel") \o Soltar ELSE <<>>

\* recibir_proceso_desalojado, and the exchanges of each instruction.
manejo_instrucciones(op) ==
    RecibirBuffer("cpu", "kernel")
    \o CASE op = Op.I_F_OPEN -> AbrirArchivo
         [] op = Op.I_TRUNCATE -> TruncarArchivo
         [] op \in {Op.I_F_READ, Op.I_F_WRITE} -> LeerEscribir(op)
         [] op = Op.I_CREATE_SEGMENT -> PedirSegmento("crear")
         [] op = Op.I_DELETE_SEGMENT -> BorrarSegmento
         [] OTHER -> <<>>

-----------------------------------------------------------------------------
(* CPU *)

atender_kernel ==
    Recibir("kernel", "cpu") \o RecibirBuffer("kernel", "cpu")
    \o Elegir("instruccion")

MovIn ==
    EnviarPaquete("cpu", "memoria", Op.I_MOV_IN, Entero \o Entero \o Entero)
    \o Recibir("memoria", "cpu") \o RecibirBuffer("memoria", "cpu")
    \o Elegir("instruccion")

MovOut ==
    EnviarPaquete("cpu", "memoria", Op.I_MOV_OUT,
                  Entero \o Entero \o Entero \o Nombre)
    \o Recibir("memoria", "cpu") \o Recibir("memoria", "cpu")
    \o Elegir("instruccion")

Devolver(op) ==
    EnviarPaquete("cpu", "kernel", op, Pcb)
    \o IF op \in {Op.I_F_READ, Op.I_F_WRITE}
       THEN EnviarPaquete("cpu", "kernel", Op.AUX_OK, Entero) ELSE <<>>

Devoluciones == {Devolver(op) : op \in Desalojos}

-----------------------------------------------------------------------------
(* FileSystem *)

Confirmar(op) == EnviarOperacion("fs", "kernel", op)

ejecutar_instrucciones_kernel(op) ==
    CASE op \in {Op.KERNEL_CREAR_ARCHIVO, Op.I_F_OPEN, Op.I_TRUNCATE} ->
            RecibirBuffer("kernel", "fs") \o Elegir("confirmar")
      [] op = Op.I_F_READ ->
            RecibirBuffer("kernel", "fs")
            \o EnviarPaquete("fs", "memoria", Op.I_F_WRITE,
                             Entero \o Entero \o Entero \o Nombre)
            \o Recibir("memoria", "fs") \o Confirmar(Op.AUX_OK)
      [] op = Op.I_F_WRITE ->
            RecibirBuffer("kernel", "fs")
            \o EnviarPaquete("fs", "memoria", Op.I_F_READ,
                             Entero \o Entero \o Entero)
            \o Recibir("memoria", "fs") \o Recibir("memoria", "fs")
            \o Recibir("memoria", "fs") \o RecibirBuffer("memoria", "fs")
            \o Elegir("confirmar")
      [] OTHER -> <<>>

-----------------------------------------------------------------------------
(* Memoria *)

atender_conexiones(op) ==
    CASE op = Op.AUX_SOY_FILE_SYSTEM -> Lanzar({"pedidos_fs"})
      [] op = Op.AUX_SOY_CPU ->
            Recibir("cpu", "memoria") \o Lanzar({"pedidos_cpu"})
      [] op = Op.AUX_SOY_KERNEL ->
            Recibir("kernel", "memoria") \o Lanzar({"pedidos_kernel"}) \o Fin
      [] OTHER -> <<>>

ejecutar_filesystem_pedido(op) ==
    CASE op = Op.I_F_WRITE ->
            RecibirBuffer("fs", "memoria")
            \o EnviarOperacion("memoria", "fs", Op.AUX_OK)
      [] op = Op.I_F_READ ->
            RecibirBuffer("fs", "memoria")
            \o EnviarPaquete("memoria", "fs", Op.AUX_OK, Nombre)
      [] OTHER -> Fin

ejecutar_cpu_pedido(op) ==
    CASE op = Op.I_MOV_IN ->
            RecibirBuffer("cpu", "memoria")
            \o EnviarPaquete("memoria", "cpu", Op.AUX_OK, Nombre)
      [] op = Op.I_MOV_OUT ->
            RecibirBuffer("cpu", "memoria")
            \o EnviarOperacion("memoria", "cpu", Op.AUX_OK)
      [] OTHER -> Fin

\* Mutant: the zero after the code COMPACTACION is not read.
CompactarSinCero == EnviarPaquete("memoria", "kernel", Op.AUX_OK, Tabla)

Compactar ==
    Recibir("kernel", "memoria")
    \o EnviarPaquete("memoria", "kernel", Op.AUX_OK, Tabla)

ejecutar_kernel_pedido(op) ==
    CASE op = Op.AUX_CREATE_PCB ->
            RecibirBuffer("kernel", "memoria")
            \o EnviarPaquete("memoria", "kernel", Op.AUX_CREATE_PCB, Tabla)
      [] op = Op.COMPACTACION -> Compactar
      [] op \in {Op.I_CREATE_SEGMENT, Op.I_DELETE_SEGMENT} ->
            RecibirBuffer("kernel", "memoria") \o Recibir("kernel", "memoria")
            \o RecibirBuffer("kernel", "memoria")
            \o IF op = Op.I_CREATE_SEGMENT THEN Elegir("crear_segmento")
               ELSE EnviarPaquete("memoria", "kernel", Op.AUX_OK, Tabla)
      [] OTHER -> <<>>

crear_segmento(respuesta) ==
    EnviarPaquete("memoria", "kernel", respuesta,
                  IF respuesta = Op.AUX_OK THEN Puntero ELSE <<>>)

-----------------------------------------------------------------------------
(* What follows a word that a switch looks at, and a free choice *)

Sigue(como, op) ==
    CASE como = "manejo_instrucciones" -> manejo_instrucciones(op)
      [] como = "f_open" -> TrasAbrir(op)
      [] como \in {"crear", "crear_de_nuevo"} -> TrasCrear(op, como)
      [] como = "borrar" -> TrasBorrar(op)
      [] como = "fs" -> ejecutar_instrucciones_kernel(op)
      [] como = "conexion" -> atender_conexiones(op)
      [] como = "pedidos_fs" -> ejecutar_filesystem_pedido(op)
      [] como = "pedidos_cpu" -> ejecutar_cpu_pedido(op)
      [] como = "pedidos_kernel" -> ejecutar_kernel_pedido(op)

Opciones(que) ==
    CASE que = "instruccion" -> {MovIn, MovOut} \cup Devoluciones
      [] que = "confirmar" -> {Confirmar(Op.AUX_OK), Confirmar(Op.AUX_ERROR)}
      [] que = "crear_segmento" -> {crear_segmento(r) : r \in Creaciones}

\* What a thread does again when it has no calls left.
Bucle ==
    [kernel |-> Fin, ready |-> enviar_proceso_a_ready,
     desalojo |-> manejo_desalojo_pcb,
     cpu |-> atender_kernel, fs |-> Segun("kernel", "fs", "fs"),
     memoria |-> Fin, pedidos_fs |-> Recibir("fs", "memoria")
                                     \o Segun("fs", "memoria", "pedidos_fs"),
     pedidos_cpu |-> Segun("cpu", "memoria", "pedidos_cpu"),
     pedidos_kernel |-> Segun("kernel", "memoria", "pedidos_kernel")]

Hilos == DOMAIN Bucle

\* main of each module.  The threads that it creates start later.
crear_conexion(de, a) == Conectar(de, a) \o Recibir(a, de)

Inicio ==
    [h \in Hilos |->
        CASE h = "kernel" ->
                Lanzado \o crear_conexion("kernel", "memoria")
                \o EnviarOperacion("kernel", "memoria", Op.AUX_SOY_KERNEL)
                \o crear_conexion("kernel", "cpu")
                \o crear_conexion("kernel", "fs")
                \o Lanzar({"ready", "desalojo"}) \o Fin
          [] h = "cpu" ->
                crear_conexion("cpu", "memoria")
                \o EnviarOperacion("cpu", "memoria", Op.AUX_SOY_CPU)
                \o Escuchar \o Aceptar \o Bucle.cpu
          [] h = "fs" ->
                crear_conexion("fs", "memoria")
                \o EnviarOperacion("fs", "memoria", Op.AUX_SOY_FILE_SYSTEM)
                \o Escuchar \o Aceptar \o Bucle.fs
          [] h = "memoria" ->
                Escuchar \o Aceptar \o Aceptar \o Aceptar \o Fin
          [] OTHER -> Fin]

Init ==
    /\ canal = [c \in Canales |-> <<>>]
    /\ por = Inicio
    /\ escuchan = {}
    /\ cola = [m \in Modulos |-> <<>>]
    /\ mutex_memoria = Nadie
    /\ inicializar = Consolas

-----------------------------------------------------------------------------
(* One action per call *)

Llama(h, paso) == Head(por[h]).paso = paso
Ahora(h) == Head(por[h])

\* Thread h makes its call and is left with those of "antes" and the rest.
SigueCon(h, antes) ==
    LET resto == antes \o Tail(por[h])
    IN por' = [por EXCEPT ![h] = IF resto = <<>> THEN Bucle[h] ELSE resto]

Sacar(c, n) == canal' = [canal EXCEPT ![c] = SubSeq(@, n + 1, Len(@))]

Send(h) ==
    /\ Llama(h, "send")
    /\ canal' = [canal EXCEPT ![Ahora(h).canal] = @ \o Ahora(h).palabras]
    /\ SigueCon(h, <<>>)
    /\ UNCHANGED <<escuchan, cola, mutex_memoria, inicializar>>

recibir_operacion(h) ==
    /\ Llama(h, "recibir_operacion") /\ canal[Ahora(h).canal] # <<>>
    /\ Sacar(Ahora(h).canal, 1)
    /\ SigueCon(h, <<>>)
    /\ UNCHANGED <<escuchan, cola, mutex_memoria, inicializar>>

Switch(h) ==
    /\ Llama(h, "switch") /\ canal[Ahora(h).canal] # <<>>
    /\ Sacar(Ahora(h).canal, 1)
    /\ SigueCon(h, Sigue(Ahora(h).como, Head(canal[Ahora(h).canal]).vale))
    /\ UNCHANGED <<escuchan, cola, mutex_memoria, inicializar>>

\* recv waits for all the bytes it was asked for (MSG_WAITALL).
recibir_buffer(h) ==
    /\ Llama(h, "recibir_buffer")
    /\ LET c == Ahora(h).canal
           n == Head(canal[c]).vale
       IN /\ canal[c] # <<>>
          /\ n % 4 = 0 /\ n \div 4 < Len(canal[c])
          /\ Sacar(c, 1 + (n \div 4))
    /\ SigueCon(h, <<>>)
    /\ UNCHANGED <<escuchan, cola, mutex_memoria, inicializar>>

ElegirUna(h) ==
    /\ Llama(h, "elegir")
    /\ \E o \in Opciones(Ahora(h).que) : SigueCon(h, o)
    /\ UNCHANGED <<canal, escuchan, cola, mutex_memoria, inicializar>>

DevolverPcb(h) ==
    /\ Llama(h, "elegir") /\ Ahora(h).que = "instruccion"
    /\ \E o \in Devoluciones : SigueCon(h, o)
    /\ UNCHANGED <<canal, escuchan, cola, mutex_memoria, inicializar>>

Launch(h) ==
    /\ Llama(h, "lanzado") /\ {"cpu", "fs"} \subseteq escuchan
    /\ SigueCon(h, <<>>)
    /\ UNCHANGED <<canal, escuchan, cola, mutex_memoria, inicializar>>

Connect(h) ==
    /\ Llama(h, "connect") /\ Ahora(h).canal[2] \in escuchan
    /\ cola' = [cola EXCEPT ![Ahora(h).canal[2]] = Append(@, Ahora(h).canal[1])]
    /\ canal' = [canal EXCEPT ![Ahora(h).canal] = Append(@, Dato(1))]
    /\ SigueCon(h, <<>>)
    /\ UNCHANGED <<escuchan, mutex_memoria, inicializar>>

Listen(h) ==
    /\ Llama(h, "listen")
    /\ escuchan' = escuchan \cup {h}
    /\ SigueCon(h, <<>>)
    /\ UNCHANGED <<canal, cola, mutex_memoria, inicializar>>

esperar_cliente(h) ==
    /\ Llama(h, "accept") /\ cola[h] # <<>>
    /\ cola' = [cola EXCEPT ![h] = Tail(@)]
    /\ LET c == Head(cola[h])
       IN SigueCon(h, Recibir(c, h) \o Responder(h, c)
                      \o IF h = "memoria" THEN Segun(c, h, "conexion") ELSE <<>>)
    /\ UNCHANGED <<canal, escuchan, mutex_memoria, inicializar>>

PthreadCreate(h) ==
    /\ Llama(h, "pthread_create")
    /\ por' = [g \in Hilos |->
                 CASE g = h -> Tail(por[h])
                   [] g \in Ahora(h).hilos -> Bucle[g]
                   [] OTHER -> por[g]]
    /\ UNCHANGED <<canal, escuchan, cola, mutex_memoria, inicializar>>

Lock(h) ==
    /\ Llama(h, "lock") /\ mutex_memoria = Nadie
    /\ mutex_memoria' = h
    /\ SigueCon(h, <<>>)
    /\ UNCHANGED <<canal, escuchan, cola, inicializar>>

Unlock(h) ==
    /\ Llama(h, "unlock")
    /\ mutex_memoria' = Nadie
    /\ SigueCon(h, <<>>)
    /\ UNCHANGED <<canal, escuchan, cola, inicializar>>

SemWait(h) ==
    /\ Llama(h, "sem_wait") /\ inicializar > 0
    /\ inicializar' = inicializar - 1
    /\ SigueCon(h, <<>>)
    /\ UNCHANGED <<canal, escuchan, cola, mutex_memoria>>

Avanza(h) ==
    \/ Send(h) \/ recibir_operacion(h) \/ Switch(h) \/ recibir_buffer(h)
    \/ ElegirUna(h) \/ Launch(h) \/ Connect(h) \/ Listen(h)
    \/ esperar_cliente(h) \/ PthreadCreate(h) \/ Lock(h) \/ Unlock(h)
    \/ SemWait(h)

Next == \E h \in Hilos : Avanza(h)

Spec == Init /\ [][Next]_vars

\* Every thread that can go on does, and a program, that is finite, gives the
\* CPU back.
FairSpec ==
    Spec /\ (\A h \in Hilos : WF_vars(Avanza(h))) /\ SF_vars(DevolverPcb("cpu"))

-----------------------------------------------------------------------------
(* Properties *)

\* A buffer is received where a size is, and a switch looks at an operation
\* code: nobody is out of step with what the other end sent (recibir_operacion
\* and recibir_buffer, shared.c).
SeLeeLoEnviado ==
    \A h \in Hilos :
        \A e \in {"op", "tam"} :
            /\ Llama(h, IF e = "op" THEN "switch" ELSE "recibir_buffer")
            /\ canal[Ahora(h).canal] # <<>>
            => Head(canal[Ahora(h).canal]).es = e

\* The two threads of the kernel that talk to Memoria get the answer to their
\* own request, whatever is going on in the other.
RespuestaPropia ==
    \A h \in {"ready", "desalojo"} :
        LET c == <<"memoria", "kernel">>
        IN ( /\ Ahora(h).paso \in {"recibir_operacion", "switch"}
             /\ Ahora(h).canal = c /\ canal[c] # <<>> )
           => (Head(canal[c]) = Palabra("op", Op.AUX_CREATE_PCB)) <=> (h = "ready")

\* When every thread is where its loop starts nothing is left in a connection:
\* what the handlers send and what they read, zeros included, is the same.
\* Memoria's thread for the FileSystem starts one word late: it expects the
\* zero that the FileSystem sent after AUX_SOY_FILE_SYSTEM.
NadaDeMas ==
    (\A h \in Hilos \ {"kernel", "memoria"} : por[h] = Bucle[h])
    => \A c \in Canales :
          canal[c] = IF c = <<"fs", "memoria">> THEN <<Palabra("tam", 0)>>
                     ELSE <<>>

\* The modules connect, and each process that is sent to the CPU comes back and
\* is attended to: the kernel sends the CPU a PCB again and again.
DespachaSiempre == []<>(por.desalojo = Bucle.desalojo)

\* The FileSystem answers every request of the kernel
\* (devolver_instruccion_generico, fileSystem.c:146).
EsperaAlFs ==
    LET c == <<"fs", "kernel">>
    IN Ahora("desalojo").paso \in {"recibir_operacion", "switch"}
       /\ Ahora("desalojo").canal = c /\ canal[c] = <<>>
FsConfirma == EsperaAlFs ~> ~EsperaAlFs
=============================================================================

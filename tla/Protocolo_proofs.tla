-------------------------- MODULE Protocolo_proofs --------------------------
(***************************************************************************)
(* Whatever the order of the nine threads, each reads from its connections *)
(* what was sent to it: an operation where it expects an operation, a size *)
(* where it expects a size, and the answer to its own request.             *)
(*                                                                         *)
(* The invariant says where every thread is, by the calls it has left, and *)
(* the exact words that are in the twelve connections.  The system goes    *)
(* through three phases: Arranque, while Memoria gets to know its three    *)
(* clients, in any order of the first two; Conexiones, while the kernel    *)
(* connects to the CPU and to the FileSystem; and Marcha, for ever after.  *)
(* In Marcha mutex_memoria says who owns the connection of the kernel with *)
(* Memoria, whose two threads share it; the other connections have one     *)
(* reader and one writer.                                                  *)
(***************************************************************************)
EXTENDS Llamadas_proofs

-----------------------------------------------------------------------------
(* Memoria answers its clients *)

\* The thread of Memoria for the kernel has w to read and nothing read.  Before
\* it is launched it is the main thread of Memoria that reads what comes before w.
KmListo(w) ==
    \/ /\ EnBucle("pedidos_kernel") /\ km = w
       /\ Ahora("memoria") = [paso |-> "fin"]
    \/ /\ SinEmpezar("pedidos_kernel")
       /\ \/ /\ Saluda("kernel", 3, 2)
             /\ km = Paquete(Op.AUX_SOY_KERNEL, <<>>) \o w
          \/ Atiende("kernel", 3, 0) /\ km = Resto(<<>>) \o w
          \/ Atiende("kernel", 3, 1) /\ km = w

\* A client, cpu or fs, of Memoria.
Fuera(c) ==
    /\ En(c, Inicio[c], 0) /\ De(c) = <<>> /\ A(c) = <<>> /\ c \notin escuchan
    /\ SinEmpezar(PedidosDe[c])
EnCola(c) ==
    /\ En(c, Inicio[c], 1) /\ c \notin escuchan
    /\ De(c) = <<Dato(1)>> /\ A(c) = <<>>
    /\ SinEmpezar(PedidosDe[c])
Presentado(c) ==
    \/ En(c, Inicio[c], 3) /\ c \notin escuchan
    \/ En(c, Inicio[c], 4) /\ c \in escuchan
Servido(c) ==
    /\ Presentado(c) /\ A(c) = <<>>
    /\ \/ c = "cpu" /\ EnBucle("pedidos_cpu") /\ De(c) = <<>>
       \/ c = "fs" /\ EnBucle("pedidos_fs") /\ De(c) = Resto(<<>>)
       \/ c = "fs" /\ En("pedidos_fs", Bucle.pedidos_fs, 1) /\ De(c) = <<>>
Sirve(c, i) ==
    /\ SinEmpezar(PedidosDe[c])
    /\ \/ /\ En(c, Inicio[c], 1) /\ c \notin escuchan
          /\ \/ Saluda(c, i, 0) /\ De(c) = <<Dato(1)>> /\ A(c) = <<>>
             \/ Saluda(c, i, 1) /\ De(c) = <<>> /\ A(c) = <<>>
             \/ Saluda(c, i, 2) /\ De(c) = <<>> /\ A(c) = <<Dato(0)>>
       \/ /\ En(c, Inicio[c], 2) /\ c \notin escuchan
          /\ Saluda(c, i, 2) /\ De(c) = <<>> /\ A(c) = <<>>
       \/ /\ Presentado(c) /\ A(c) = <<>>
          /\ \/ Saluda(c, i, 2) /\ De(c) = Paquete(Soy[c], <<>>)
             \/ Atiende(c, i, 0) /\ De(c) = Resto(<<>>)
             \/ c = "cpu" /\ Atiende(c, i, 1) /\ De(c) = <<>>

\* The kernel, while Memoria has not answered it.
SinKernel ==
    /\ km = <<>> /\ mk = <<>>
    /\ \/ En("kernel", Inicio.kernel, 0)
       \/ En("kernel", Inicio.kernel, 1) /\ {"cpu", "fs"} \subseteq escuchan
KernelEnCola ==
    /\ En("kernel", Inicio.kernel, 2) /\ km = <<Dato(1)>> /\ mk = <<>>
    /\ {"cpu", "fs"} \subseteq escuchan
Tercero ==
    \/ SinKernel /\ cola.memoria = <<>>
    \/ KernelEnCola /\ cola.memoria = <<"kernel">>
SirveKernel ==
    /\ cola.memoria = <<>> /\ {"cpu", "fs"} \subseteq escuchan
    /\ \/ /\ En("kernel", Inicio.kernel, 2)
          /\ \/ Saluda("kernel", 3, 0) /\ km = <<Dato(1)>> /\ mk = <<>>
             \/ Saluda("kernel", 3, 1) /\ km = <<>> /\ mk = <<>>
             \/ Saluda("kernel", 3, 2) /\ km = <<>> /\ mk = <<Dato(0)>>
       \/ /\ En("kernel", Inicio.kernel, 3)
          /\ Saluda("kernel", 3, 2) /\ km = <<>> /\ mk = <<>>

Acepta(i) == En("memoria", Inicio.memoria, i)

\* The first client of Memoria is a, and the second b.
PideEntrar(b) ==
    \/ Fuera(b) /\ cola.memoria = <<>>
    \/ EnCola(b) /\ cola.memoria = <<b>>
Clientes(a, b) ==
    \/ /\ Acepta(0) /\ SinKernel
       /\ Fuera(a) /\ Fuera(b)
       /\ cola.memoria = <<>> /\ "memoria" \notin escuchan
    \/ /\ Acepta(1) /\ SinKernel
       /\ \/ Fuera(a) /\ Fuera(b) /\ cola.memoria = <<>>
          \/ EnCola(a) /\ Fuera(b) /\ cola.memoria = <<a>>
          \/ EnCola(a) /\ EnCola(b) /\ cola.memoria = <<a, b>>
    \/ Sirve(a, 1) /\ SinKernel /\ PideEntrar(b)
    \/ Acepta(2) /\ Servido(a) /\ SinKernel /\ PideEntrar(b)
    \/ Servido(a) /\ Sirve(b, 2) /\ Tercero
    \/ Acepta(3) /\ Servido(a) /\ Servido(b) /\ Tercero
    \/ Servido(a) /\ Servido(b) /\ SirveKernel

NadieMas ==
    /\ SinEmpezar("ready") /\ SinEmpezar("desalojo") /\ mutex_memoria = Nadie

\* The kernel has not gone past Memoria.
Arranque ==
    /\ NadieMas /\ SinEmpezar("pedidos_kernel")
    /\ kc = <<>> /\ ck = <<>> /\ kf = <<>> /\ fk = <<>>
    /\ cola.cpu = <<>> /\ cola.fs = <<>>
    /\ Clientes("cpu", "fs") \/ Clientes("fs", "cpu")

-----------------------------------------------------------------------------
(* The kernel connects to the CPU and to the FileSystem *)

AlKernel(c) == canal[<<c, "kernel">>]
DelKernel(c) == canal[<<"kernel", c>>]

Espera(c) ==
    /\ En(c, Inicio[c], 4) /\ cola[c] = <<>>
    /\ DelKernel(c) = <<>> /\ AlKernel(c) = <<>>
Saludando(c) ==
    \/ /\ En(c, Inicio[c], 4) /\ cola[c] = <<"kernel">>
       /\ DelKernel(c) = <<Dato(1)>> /\ AlKernel(c) = <<>>
    \/ /\ En(c, SaludoDe(c), 0)
       /\ DelKernel(c) = <<Dato(1)>> /\ AlKernel(c) = <<>>
    \/ /\ En(c, SaludoDe(c), 1) /\ DelKernel(c) = <<>> /\ AlKernel(c) = <<>>
    \/ /\ EnBucle(c) /\ DelKernel(c) = <<>> /\ AlKernel(c) = <<Dato(0)>>
Quieto(c) == EnBucle(c) /\ DelKernel(c) = <<>> /\ AlKernel(c) = <<>>

PedidosCpuQuieto == EnBucle("pedidos_cpu") /\ cm = <<>> /\ mc = <<>>
PedidosFs ==
    /\ mf = <<>>
    /\ \/ EnBucle("pedidos_fs") /\ fm = Resto(<<>>)
       \/ En("pedidos_fs", Bucle.pedidos_fs, 1) /\ fm = <<>>

Conexiones ==
    /\ NadieMas /\ KmListo(<<>>) /\ mk = <<>> /\ PedidosCpuQuieto /\ PedidosFs
    /\ \/ En("kernel", Inicio.kernel, 4) /\ Espera("cpu") /\ Espera("fs")
       \/ En("kernel", Inicio.kernel, 5) /\ Saludando("cpu") /\ Espera("fs")
       \/ En("kernel", Inicio.kernel, 6) /\ Quieto("cpu") /\ Espera("fs")
       \/ En("kernel", Inicio.kernel, 7) /\ Quieto("cpu") /\ Saludando("fs")
       \/ En("kernel", Inicio.kernel, 8) /\ Quieto("cpu") /\ Quieto("fs")

-----------------------------------------------------------------------------
(* The CPU runs a process *)

\* Memoria attends to a MOV_IN or a MOV_OUT of the CPU.
CpuPide(op, datos) ==
    \/ EnBucle("pedidos_cpu") /\ cm = Paquete(op, datos) /\ mc = <<>>
    \/ /\ En("pedidos_cpu", ejecutar_cpu_pedido(op), 0)
       /\ cm = Resto(datos) /\ mc = <<>>
    \/ En("pedidos_cpu", ejecutar_cpu_pedido(op), 1) /\ cm = <<>> /\ mc = <<>>

Ejecuta ==
    /\ kc = <<>> /\ ck = <<>>
    /\ \/ En("cpu", atender_kernel, 2) /\ PedidosCpuQuieto
       \/ En("cpu", MovIn, 0) /\ PedidosCpuQuieto
       \/ /\ En("cpu", MovIn, 1)
          /\ \/ CpuPide(Op.I_MOV_IN, Entero \o Entero \o Entero)
             \/ /\ EnBucle("pedidos_cpu") /\ cm = <<>>
                /\ mc = Paquete(Op.AUX_OK, Nombre)
       \/ /\ En("cpu", MovIn, 2)
          /\ EnBucle("pedidos_cpu") /\ cm = <<>> /\ mc = Resto(Nombre)
       \/ En("cpu", MovIn, 3) /\ PedidosCpuQuieto
       \/ En("cpu", MovOut, 0) /\ PedidosCpuQuieto
       \/ /\ En("cpu", MovOut, 1)
          /\ \/ CpuPide(Op.I_MOV_OUT, Entero \o Entero \o Entero \o Nombre)
             \/ /\ EnBucle("pedidos_cpu") /\ cm = <<>>
                /\ mc = Paquete(Op.AUX_OK, <<>>)
       \/ /\ En("cpu", MovOut, 2)
          /\ EnBucle("pedidos_cpu") /\ cm = <<>> /\ mc = Resto(<<>>)
       \/ En("cpu", MovOut, 3) /\ PedidosCpuQuieto
       \/ \E op \in Desalojos : En("cpu", Devolver(op), 0) /\ PedidosCpuQuieto

CpuAtiende ==
    \/ /\ PedidosCpuQuieto /\ ck = <<>>
       /\ \/ EnBucle("cpu") /\ kc = Paquete(Op.OP_EXECUTE_PCB, Pcb)
          \/ En("cpu", atender_kernel, 1) /\ kc = Resto(Pcb)
    \/ Ejecuta
    \/ /\ PedidosCpuQuieto /\ EnBucle("cpu") /\ kc = <<>>
       /\ \E op \in Desalojos : ck = Paquete(op, Pcb)

CpuQuieta == PedidosCpuQuieto /\ Quieto("cpu")

-----------------------------------------------------------------------------
(* The FileSystem answers the kernel *)

FsQuieto == Quieto("fs")
Confirmaciones == {Op.AUX_OK, Op.AUX_ERROR}

\* op is the request, and the kernel has read no word of the answer.
FsAtiende(op, datos) ==
    \/ EnBucle("fs") /\ kf = Paquete(op, datos) /\ fk = <<>>
    \/ /\ En("fs", ejecutar_instrucciones_kernel(op), 0)
       /\ kf = Resto(datos) /\ fk = <<>>
    \/ En("fs", ejecutar_instrucciones_kernel(op), 1) /\ kf = <<>> /\ fk = <<>>
    \/ \E r \in Confirmaciones :
          En("fs", Confirmar(r), 0) /\ kf = <<>> /\ fk = <<>>
    \/ /\ EnBucle("fs") /\ kf = <<>>
       /\ \E r \in Confirmaciones : fk = Paquete(r, <<>>)
FsRespondio == EnBucle("fs") /\ kf = <<>> /\ fk = Resto(<<>>)

-----------------------------------------------------------------------------
(* The thread that attends to the CPU, while it does not have mutex_memoria *)

\* It owes nobody anything.
EnPaz ==
    \/ EnBucle("desalojo")
    \/ En("desalojo", Abrir, 1) \/ En("desalojo", Truncar, 1)
    \/ En("desalojo", Crear, 1) \/ En("desalojo", Borrar, 1)
    \/ En("desalojo", NoAbierto, 1)
    \/ En("desalojo", Compacta, 5)

EsperaAlFileSystem ==
    \/ En("desalojo", Abrir, 2) /\ FsAtiende(Op.I_F_OPEN, Nombre)
    \/ En("desalojo", TrasAbrir(Op.AUX_OK), 0) /\ FsRespondio
    \/ En("desalojo", NoAbierto, 0) /\ FsRespondio
    \/ /\ En("desalojo", NoAbierto, 2)
       /\ FsAtiende(Op.KERNEL_CREAR_ARCHIVO, Nombre)
    \/ En("desalojo", NoAbierto, 3) /\ FsRespondio
    \/ En("desalojo", Truncar, 2) /\ FsAtiende(Op.I_TRUNCATE, Nombre \o Cifras)
    \/ En("desalojo", Truncar, 3) /\ FsRespondio

DesalojoSinMutex ==
    \/ EnPaz /\ CpuQuieta /\ FsQuieto
    \/ En("desalojo", manejo_desalojo_pcb, 1) /\ CpuAtiende /\ FsQuieto
    \/ /\ \/ En("desalojo", Abrir, 0) \/ En("desalojo", Truncar, 0)
          \/ En("desalojo", Crear, 0) \/ En("desalojo", Borrar, 0)
          \/ En("desalojo", Otra, 0)
       /\ PedidosCpuQuieto /\ EnBucle("cpu") /\ kc = <<>> /\ ck = Resto(Pcb)
       /\ FsQuieto
    \/ EsperaAlFileSystem /\ CpuQuieta

-----------------------------------------------------------------------------
(* The connection with Memoria, in the hands of the thread with the mutex *)

MemQuieta == KmListo(<<>>) /\ mk = <<>>

\* Memoria answers words w.
MemRespondio(w) == KmListo(<<>>) /\ mk = w

PidePcb ==
    \/ KmListo(Paquete(Op.AUX_CREATE_PCB, Entero)) /\ mk = <<>>
    \/ /\ En("pedidos_kernel", ejecutar_kernel_pedido(Op.AUX_CREATE_PCB), 0)
       /\ km = Resto(Entero) /\ mk = <<>>
    \/ /\ En("pedidos_kernel", ejecutar_kernel_pedido(Op.AUX_CREATE_PCB), 1)
       /\ km = <<>> /\ mk = <<>>
    \/ MemRespondio(Paquete(Op.AUX_CREATE_PCB, Tabla))
ReadyConMutex ==
    \/ En("ready", enviar_proceso_a_ready, 2) /\ MemQuieta
    \/ En("ready", enviar_proceso_a_ready, 3) /\ PidePcb
    \/ En("ready", enviar_proceso_a_ready, 4) /\ MemRespondio(Resto(Tabla))
    \/ En("ready", enviar_proceso_a_ready, 5) /\ MemQuieta

\* The two packets of a request of segments: the second is not sent yet ...
Mitad(op) ==
    /\ mk = <<>>
    /\ \/ KmListo(Paquete(op, Pcb))
       \/ En("pedidos_kernel", ejecutar_kernel_pedido(op), 0) /\ km = Resto(Pcb)
       \/ En("pedidos_kernel", ejecutar_kernel_pedido(op), 1) /\ km = <<>>
\* ... and it is.
Entera(op, datos) ==
    /\ mk = <<>>
    /\ \/ KmListo(Paquete(op, Pcb) \o Paquete(op, datos))
       \/ /\ En("pedidos_kernel", ejecutar_kernel_pedido(op), 0)
          /\ km = Resto(Pcb) \o Paquete(op, datos)
       \/ /\ En("pedidos_kernel", ejecutar_kernel_pedido(op), 1)
          /\ km = Paquete(op, datos)
       \/ /\ En("pedidos_kernel", ejecutar_kernel_pedido(op), 2)
          /\ km = Resto(datos)
       \/ En("pedidos_kernel", ejecutar_kernel_pedido(op), 3) /\ km = <<>>

RespondeCrear ==
    \/ \E r \in Creaciones :
          En("pedidos_kernel", crear_segmento(r), 0) /\ km = <<>> /\ mk = <<>>
    \/ \E r \in Creaciones : MemRespondio(Paquete(r, DatosDe(r)))

\* A request of a segment, at calls i, j and k of s.
PideCrear(s, i, j, k) ==
    \/ En("desalojo", s, i) /\ MemQuieta
    \/ En("desalojo", s, j) /\ Mitad(Op.I_CREATE_SEGMENT)
    \/ /\ En("desalojo", s, k)
       /\ Entera(Op.I_CREATE_SEGMENT, Entero \o Entero) \/ RespondeCrear
PideBorrar ==
    \/ En("desalojo", Borrar, 2) /\ MemQuieta
    \/ En("desalojo", Borrar, 3) /\ Mitad(Op.I_DELETE_SEGMENT)
    \/ /\ En("desalojo", Borrar, 4)
       /\ \/ Entera(Op.I_DELETE_SEGMENT, Entero)
          \/ MemRespondio(Paquete(Op.AUX_OK, Tabla))

\* Memoria compacts; r is what the kernel has still to read of the answer that
\* asked for it.
MemCompacta(r) ==
    \/ KmListo(Paquete(Op.COMPACTACION, <<>>)) /\ mk = r
    \/ En("pedidos_kernel", Compactar, 0) /\ km = Resto(<<>>) /\ mk = r
    \/ En("pedidos_kernel", Compactar, 1) /\ km = <<>> /\ mk = r
    \/ MemRespondio(r \o Paquete(Op.AUX_OK, Tabla))
PideCompactar(s) ==
    \/ En("desalojo", s, 0) /\ MemRespondio(Resto(<<>>))
    \/ En("desalojo", s, 1) /\ MemCompacta(Resto(<<>>))
    \/ En("desalojo", s, 2) /\ MemCompacta(<<>>)
    \/ En("desalojo", s, 3) /\ MemRespondio(Resto(Tabla))
    \/ En("desalojo", s, 4) /\ MemQuieta

DesalojoConMutex ==
    \/ PideCrear(Crear, 2, 3, 4) \/ PideCrear(Compacta, 6, 7, 8) \/ PideBorrar
    \/ En("desalojo", Creado, 0) /\ MemRespondio(Resto(Puntero))
    \/ En("desalojo", Creado, 1) /\ MemQuieta
    \/ PideCompactar(Compacta) \/ PideCompactar(CompactaOtraVez)
    \/ En("desalojo", Borrado, 0) /\ MemRespondio(Resto(Tabla))
    \/ En("desalojo", Borrado, 1) /\ MemQuieta

ReadySinMutex == EnBucle("ready") \/ En("ready", enviar_proceso_a_ready, 1)

\* The main thread of Memoria ends once it has launched the one for the kernel.
MemoriaTermina ==
    SinEmpezar("pedidos_kernel") \/ Ahora("memoria") = [paso |-> "fin"]

Marcha ==
    /\ En("kernel", Inicio.kernel, 9) /\ PedidosFs /\ MemoriaTermina
    /\ \/ /\ mutex_memoria = Nadie /\ MemQuieta
          /\ ReadySinMutex /\ DesalojoSinMutex
       \/ /\ mutex_memoria = "ready" /\ ReadyConMutex
          /\ DesalojoSinMutex
       \/ /\ mutex_memoria = "desalojo" /\ DesalojoConMutex
          /\ ReadySinMutex /\ CpuQuieta /\ FsQuieto

InvProtocolo ==
    /\ Tipos /\ cf = <<>> /\ fc = <<>>
    /\ Arranque \/ Conexiones \/ Marcha
-----------------------------------------------------------------------------
(* The CPU runs a process *)

\* No process reads or writes a file -- the thread of Memoria for the
\* FileSystem, one word late since the greeting, would take a size for an
\* operation -- and Memoria has room for every segment, if it compacts: the
\* kernel does not read the size that follows an OUT_OF_MEMORY.
SinPedidosDelFs == Desalojos \subseteq Int \ {Op.I_F_READ, Op.I_F_WRITE}
SinOtraRespuesta == Creaciones \subseteq {Op.AUX_OK, Op.COMPACTACION}

\* Only the CPU, and the thread of Memoria for it, do anything.
SoloCpu ==
    /\ Tipos' /\ UNCHANGED Resto4 /\ IgualKF /\ IgualKM /\ IgualFM /\ IgualCF
    /\ \A g \in Hilos \ {"cpu", "pedidos_cpu"} : por'[g] = por[g]

\* What a call of the CPU, or of the thread that serves it, leaves alone.
LEMMA CpuVa ==
    ASSUME NEW y, NEW w
    PROVE  /\ Va("cpu", y, <<"kernel", "cpu">>, w) =>
                 /\ SoloCpu /\ por'["cpu"] = y
                      /\ por'["pedidos_cpu"] = por["pedidos_cpu"]
                 /\ kc' = w /\ ck' = ck /\ cm' = cm /\ mc' = mc
           /\ Va("cpu", y, <<"cpu", "kernel">>, w) =>
                 /\ SoloCpu /\ por'["cpu"] = y
                      /\ por'["pedidos_cpu"] = por["pedidos_cpu"]
                 /\ kc' = kc /\ ck' = w /\ cm' = cm /\ mc' = mc
           /\ Va("cpu", y, <<"cpu", "memoria">>, w) =>
                 /\ SoloCpu /\ por'["cpu"] = y
                      /\ por'["pedidos_cpu"] = por["pedidos_cpu"]
                 /\ kc' = kc /\ ck' = ck /\ cm' = w /\ mc' = mc
           /\ Va("cpu", y, <<"memoria", "cpu">>, w) =>
                 /\ SoloCpu /\ por'["cpu"] = y
                      /\ por'["pedidos_cpu"] = por["pedidos_cpu"]
                 /\ kc' = kc /\ ck' = ck /\ cm' = cm /\ mc' = w
           /\ Va("pedidos_cpu", y, <<"cpu", "memoria">>, w) =>
                 /\ SoloCpu /\ por'["cpu"] = por["cpu"]
                      /\ por'["pedidos_cpu"] = y
                 /\ kc' = kc /\ ck' = ck /\ cm' = w /\ mc' = mc
           /\ Va("pedidos_cpu", y, <<"memoria", "cpu">>, w) =>
                 /\ SoloCpu /\ por'["cpu"] = por["cpu"]
                      /\ por'["pedidos_cpu"] = y
                 /\ kc' = kc /\ ck' = ck /\ cm' = cm /\ mc' = w
<1>1. \A h, c : Va(h, y, c, w) =>
         /\ Tipos' /\ UNCHANGED Resto4 /\ por'[h] = y /\ CanalPasa(c, w)
         /\ \A g \in Hilos \ {h} : por'[g] = por[g]
  BY DEF Va, HiloPasa
<1>2. "cpu" \in Hilos /\ "pedidos_cpu" \in Hilos
  BY HilosSon
<1>3. ASSUME NEW h \in {"cpu", "pedidos_cpu"}, NEW c, Va(h, y, c, w)
      PROVE  /\ Tipos' /\ UNCHANGED Resto4 /\ por'[h] = y
             /\ \A g \in Hilos \ {"cpu", "pedidos_cpu"} : por'[g] = por[g]
             /\ h = "cpu" => por'["pedidos_cpu"] = por["pedidos_cpu"]
             /\ h = "pedidos_cpu" => por'["cpu"] = por["cpu"]
  BY <1>1, <1>2, <1>3
<1> QED
  BY <1>1, <1>3, CanalesDe DEF SoloCpu, IgualKC, IgualCM

\* With no request of the CPU its thread of Memoria waits.
LEMMA PedidosCpuEspera ==
    ASSUME Tipos, EnBucle("pedidos_cpu"), cm = <<>>
    PROVE  ~Avanza("pedidos_cpu")
BY PedidosCpuToca, NoHay DEF Hay, cm

\* The CPU goes on to an instruction.
LEMMA EligeInstruccion ==
    ASSUME Tipos, SinPedidosDelFs, TocaUltima("cpu", elige("instruccion")),
           PedidosCpuQuieto, kc = <<>>, ck = <<>>,
           NEW h \in {"cpu", "pedidos_cpu"}, Avanza(h)
    PROVE  SoloCpu /\ Ejecuta'
<1>1. h = "cpu"
  BY PedidosCpuEspera DEF PedidosCpuQuieto
<1>2. \A op \in Desalojos : Devolver(op) \in Seq(Llamadas)
        /\ Len(Devolver(op)) = 1
  BY DevolverLlama DEF SinPedidosDelFs
<1>3. ASSUME NEW o \in Opciones("instruccion")
      PROVE  /\ o \in Seq(Llamadas) /\ o # <<>>
             /\ o = MovIn \/ o = MovOut
                  \/ \E op \in Desalojos : o = Devolver(op)
  <2>1. Opciones("instruccion") = {MovIn, MovOut}
          \cup {Devolver(op) : op \in Desalojos}
    BY DEF Opciones, Devoluciones
  <2>2. o = MovIn \/ o = MovOut \/ \E op \in Desalojos : o = Devolver(op)
    BY <2>1
  <2>3. CASE o = MovIn \/ o = MovOut
    <3>1. MovIn \in Seq(Llamadas) /\ Len(MovIn) # 0
      BY MovInLlama
    <3>2. MovOut \in Seq(Llamadas) /\ Len(MovOut) # 0
      BY MovOutLlama
    <3>3. MovIn # <<>> /\ MovOut # <<>>
      BY <3>1, <3>2, NoVacia
    <3> QED
      BY <2>3, <3>1, <3>2, <3>3
  <2>4. ASSUME NEW op \in Desalojos, o = Devolver(op)
        PROVE  o \in Seq(Llamadas) /\ o # <<>>
    <3>1. o \in Seq(Llamadas) /\ Len(o) = 1
      BY <1>2, <2>4
    <3> QED
      BY <3>1, NoVacia
  <2> QED
    BY <2>2, <2>3, <2>4
<1>4. /\ Tipos' /\ UNCHANGED Resto4 /\ canal' = canal
      /\ \E o \in Opciones("instruccion") : HiloPasa("cpu", o)
  BY <1>1, <1>3, PasoElige, HilosSon
<1>5. PICK o \in Opciones("instruccion") : HiloPasa("cpu", o)
  BY <1>4
<1>6. /\ por'["cpu"] = o /\ \A g \in Hilos \ {"cpu"} : por'[g] = por[g]
  BY <1>5 DEF HiloPasa
<1>7. /\ SoloCpu /\ PedidosCpuQuieto' /\ kc' = <<>> /\ ck' = <<>>
  BY <1>4, <1>6, HilosSon
     DEF SoloCpu, PedidosCpuQuieto, EnBucle, IgualKF, IgualKM, IgualFM, IgualCF,
         kc, ck, kf, fk, km, mk, cm, mc, fm, mf, cf, fc
<1>8. En("cpu", MovIn, 0)' \/ En("cpu", MovOut, 0)'
        \/ \E op \in Desalojos : En("cpu", Devolver(op), 0)'
  <2>1. \A s \in Seq(Llamadas) : Quedan(s, 0) = s
    BY QuedaTodoONada
  <2> QED
    BY <1>3, <1>6, <2>1 DEF En
<1> QED
  BY <1>7, <1>8 DEF Ejecuta

\* The CPU waits for the answer of Memoria, or for the kernel.
LEMMA CpuEspera ==
    ASSUME Tipos,
           \/ En("cpu", MovIn, 1) /\ mc = <<>>
           \/ En("cpu", MovOut, 1) /\ mc = <<>>
           \/ EnBucle("cpu") /\ kc = <<>>
    PROVE  ~Avanza("cpu")
<1>1. CASE En("cpu", MovIn, 1) /\ mc = <<>>
  BY <1>1, MovInToca, NoHay DEF Hay, mc
<1>2. CASE En("cpu", MovOut, 1) /\ mc = <<>>
  BY <1>2, MovOutToca, NoHay DEF Hay, mc
<1>3. CASE EnBucle("cpu") /\ kc = <<>>
  BY <1>3, AtenderKernelToca, NoHay DEF Hay, kc
<1> QED
  BY <1>1, <1>2, <1>3

\* Memoria attends to the CPU: to a MOV_IN, and to a MOV_OUT.
CpuPidio(op, datos, r) ==
    \/ CpuPide(op, datos)
    \/ EnBucle("pedidos_cpu") /\ cm = <<>> /\ mc = Paquete(Op.AUX_OK, r)

\* Memoria attends to a MOV_IN,
LEMMA CpuPideMovIn ==
    ASSUME Tipos, CpuPide(Op.I_MOV_IN, Entero \o Entero \o Entero),
           Avanza("pedidos_cpu")
    PROVE  /\ SoloCpu /\ por'["cpu"] = por["cpu"] /\ kc' = kc /\ ck' = ck
           /\ CpuPidio(Op.I_MOV_IN, Entero \o Entero \o Entero, Nombre)'
<1> DEFINE d == Entero \o Entero \o Entero
           s == ejecutar_cpu_pedido(Op.I_MOV_IN)
<1>1. d \in Seq(Palabras) /\ s \in Seq(Llamadas) /\ s # <<>>
        /\ Op.I_MOV_IN \in Int
  BY TresMas, PedidoMovInLlama, Codigos
<1>2. Sigue("pedidos_cpu", Op.I_MOV_IN) = s
  BY DEF Sigue
<1> HIDE DEF d, s
<1>3. CASE EnBucle("pedidos_cpu") /\ cm = Paquete(Op.I_MOV_IN, d) /\ mc = <<>>
  <2>1. TocaUltima("pedidos_cpu", mira("cpu", "memoria", "pedidos_cpu"))
    BY <1>3, PedidosCpuToca
  <2>2. Va("pedidos_cpu", s, <<"cpu", "memoria">>, Resto(d))
    BY <1>1, <1>2, <1>3, <2>1, PasoMiraPaquete, HilosSon, CanalesSon DEF Hay, cm
  <2> QED
    BY <1>1, <1>3, <2>2, CpuVa, QuedaTodoONada DEF CpuPidio, CpuPide, En, d, s
<1>4. CASE En("pedidos_cpu", s, 0) /\ cm = Resto(d) /\ mc = <<>>
  <2>1. Toca("pedidos_cpu", recibeBuffer("cpu", "memoria"), Quedan(s, 1))
    BY <1>4, PedidoMovInToca DEF s
  <2>2. Va("pedidos_cpu", Quedan(s, 1), <<"cpu", "memoria">>, <<>>)
    BY <1>1, <1>4, <2>1, PasoBufferSolo, CanalesSon DEF Hay, cm
  <2> QED
    BY <1>4, <2>2, CpuVa DEF CpuPidio, CpuPide, En, s
<1>5. CASE En("pedidos_cpu", s, 1) /\ cm = <<>> /\ mc = <<>>
  <2>1. Toca("pedidos_cpu", envia("memoria", "cpu", Op.AUX_OK, Nombre),
          Bucle["pedidos_cpu"])
    BY <1>5, PedidoMovInToca DEF s
  <2>2. Va("pedidos_cpu", Bucle["pedidos_cpu"], <<"memoria", "cpu">>,
          Paquete(Op.AUX_OK, Nombre))
    BY <1>5, <2>1, PasoEnviaSolo, CanalesSon, DatosTipos, Codigos DEF Hay, mc
  <2> QED
    BY <1>5, <2>2, CpuVa DEF CpuPidio, EnBucle
<1> QED
  BY <1>3, <1>4, <1>5 DEF CpuPide, d, s

\* ... and to a MOV_OUT.
LEMMA CpuPideMovOut ==
    ASSUME Tipos, CpuPide(Op.I_MOV_OUT, Entero \o Entero \o Entero \o Nombre),
           Avanza("pedidos_cpu")
    PROVE  /\ SoloCpu /\ por'["cpu"] = por["cpu"] /\ kc' = kc /\ ck' = ck
           /\ CpuPidio(Op.I_MOV_OUT, Entero \o Entero \o Entero \o Nombre,
                <<>>)'
<1> DEFINE d == Entero \o Entero \o Entero \o Nombre
           s == ejecutar_cpu_pedido(Op.I_MOV_OUT)
<1>1. d \in Seq(Palabras) /\ s \in Seq(Llamadas) /\ s # <<>>
        /\ Op.I_MOV_OUT \in Int
  BY TresMas, PedidoMovOutLlama, Codigos
<1>2. Sigue("pedidos_cpu", Op.I_MOV_OUT) = s
  BY DEF Sigue
<1> HIDE DEF d, s
<1>3. CASE EnBucle("pedidos_cpu") /\ cm = Paquete(Op.I_MOV_OUT, d) /\ mc = <<>>
  <2>1. TocaUltima("pedidos_cpu", mira("cpu", "memoria", "pedidos_cpu"))
    BY <1>3, PedidosCpuToca
  <2>2. Va("pedidos_cpu", s, <<"cpu", "memoria">>, Resto(d))
    BY <1>1, <1>2, <1>3, <2>1, PasoMiraPaquete, HilosSon, CanalesSon DEF Hay, cm
  <2> QED
    BY <1>1, <1>3, <2>2, CpuVa, QuedaTodoONada DEF CpuPidio, CpuPide, En, d, s
<1>4. CASE En("pedidos_cpu", s, 0) /\ cm = Resto(d) /\ mc = <<>>
  <2>1. Toca("pedidos_cpu", recibeBuffer("cpu", "memoria"), Quedan(s, 1))
    BY <1>4, PedidoMovOutToca DEF s
  <2>2. Va("pedidos_cpu", Quedan(s, 1), <<"cpu", "memoria">>, <<>>)
    BY <1>1, <1>4, <2>1, PasoBufferSolo, CanalesSon DEF Hay, cm
  <2> QED
    BY <1>4, <2>2, CpuVa DEF CpuPidio, CpuPide, En, s
<1>5. CASE En("pedidos_cpu", s, 1) /\ cm = <<>> /\ mc = <<>>
  <2>1. Toca("pedidos_cpu", envia("memoria", "cpu", Op.AUX_OK, <<>>),
          Bucle["pedidos_cpu"])
    BY <1>5, PedidoMovOutToca DEF s
  <2>2. Va("pedidos_cpu", Bucle["pedidos_cpu"], <<"memoria", "cpu">>,
          Paquete(Op.AUX_OK, <<>>))
    BY <1>5, <2>1, PasoEnviaSolo, CanalesSon, DatosTipos, Codigos DEF Hay, mc
  <2> QED
    BY <1>5, <2>2, CpuVa DEF CpuPidio, EnBucle
<1> QED
  BY <1>3, <1>4, <1>5 DEF CpuPide, d, s

\* The CPU executes instructions until it gives the process back.
LEMMA EjecutaPasa ==
    ASSUME Tipos, SinPedidosDelFs, Ejecuta, NEW h \in {"cpu", "pedidos_cpu"},
           Avanza(h)
    PROVE  SoloCpu /\ CpuAtiende'
<1> DEFINE p == Entero \o Entero \o Entero
           q == Entero \o Entero \o Entero \o Nombre
<1>p. p \in Seq(Palabras) /\ q \in Seq(Palabras) /\ Nombre \in Seq(Palabras)
      /\ <<>> \in Seq(Palabras) /\ Pcb \in Seq(Palabras)
  BY TresMas, DatosTipos
<1>q. kc = <<>> /\ ck = <<>>
  BY DEF Ejecuta
<1>e. ASSUME TocaUltima("cpu", elige("instruccion")), PedidosCpuQuieto
      PROVE  SoloCpu /\ CpuAtiende'
  BY <1>e, <1>q, EligeInstruccion DEF CpuAtiende
<1>c. ASSUME PedidosCpuQuieto
      PROVE  h = "cpu" /\ EnBucle("pedidos_cpu") /\ cm = <<>> /\ mc = <<>>
  BY <1>c, PedidosCpuEspera DEF PedidosCpuQuieto
<1> HIDE DEF p, q
<1>1. CASE En("cpu", atender_kernel, 2) /\ PedidosCpuQuieto
  BY <1>1, <1>e, AtenderKernelToca
<1>2. CASE En("cpu", MovIn, 0) /\ PedidosCpuQuieto
  <2>1. Toca("cpu", envia("cpu", "memoria", Op.I_MOV_IN, p), Quedan(MovIn, 1))
    BY <1>2, MovInToca DEF p
  <2>2. Va("cpu", Quedan(MovIn, 1), <<"cpu", "memoria">>,
          Paquete(Op.I_MOV_IN, p))
    BY <1>2, <1>p, <1>c, <2>1, PasoEnviaSolo, CanalesSon, Codigos DEF Hay, cm
  <2> QED
    BY <1>2, <1>q, <1>c, <2>2, CpuVa
       DEF CpuAtiende, Ejecuta, CpuPide, En, EnBucle, p
<1>3. CASE En("cpu", MovIn, 1) /\ CpuPide(Op.I_MOV_IN, p)
  <2>1. h = "pedidos_cpu"
    BY <1>3, CpuEspera DEF CpuPide
  <2>2. /\ SoloCpu /\ por'["cpu"] = por["cpu"] /\ kc' = kc /\ ck' = ck
        /\ CpuPidio(Op.I_MOV_IN, p, Nombre)'
    BY <1>3, <2>1, CpuPideMovIn DEF p
  <2> QED
    BY <1>3, <1>q, <2>2 DEF CpuAtiende, Ejecuta, CpuPidio, En, p
<1>4. CASE En("cpu", MovIn, 1) /\ EnBucle("pedidos_cpu") /\ cm = <<>>
           /\ mc = Paquete(Op.AUX_OK, Nombre)
  <2>1. h = "cpu"
    BY <1>4, PedidosCpuEspera
  <2>2. Toca("cpu", recibe("memoria", "cpu"), Quedan(MovIn, 2))
    BY <1>4, MovInToca
  <2>3. Va("cpu", Quedan(MovIn, 2), <<"memoria", "cpu">>, Resto(Nombre))
    BY <1>4, <1>p, <2>1, <2>2, PasoRecibePaquete, CanalesSon, Codigos
       DEF Hay, mc
  <2> QED
    BY <1>4, <1>q, <2>3, CpuVa DEF CpuAtiende, Ejecuta, En, EnBucle
<1>5. CASE En("cpu", MovIn, 2) /\ EnBucle("pedidos_cpu") /\ cm = <<>>
             /\ mc = Resto(Nombre)
  <2>1. h = "cpu"
    BY <1>5, PedidosCpuEspera
  <2>2. Toca("cpu", recibeBuffer("memoria", "cpu"), Quedan(MovIn, 3))
    BY <1>5, MovInToca
  <2>3. Va("cpu", Quedan(MovIn, 3), <<"memoria", "cpu">>, <<>>)
    BY <1>5, <1>p, <2>1, <2>2, PasoBufferSolo, CanalesSon DEF Hay, mc
  <2> QED
    BY <1>5, <1>q, <2>3, CpuVa
       DEF CpuAtiende, Ejecuta, PedidosCpuQuieto, En, EnBucle
<1>6. CASE En("cpu", MovIn, 3) /\ PedidosCpuQuieto
  BY <1>6, <1>e, MovInToca
<1>7. CASE En("cpu", MovOut, 0) /\ PedidosCpuQuieto
  <2>1. Toca("cpu", envia("cpu", "memoria", Op.I_MOV_OUT, q), Quedan(MovOut, 1))
    BY <1>7, MovOutToca DEF q
  <2>2. Va("cpu", Quedan(MovOut, 1), <<"cpu", "memoria">>,
          Paquete(Op.I_MOV_OUT, q))
    BY <1>7, <1>p, <1>c, <2>1, PasoEnviaSolo, CanalesSon, Codigos DEF Hay, cm
  <2> QED
    BY <1>7, <1>q, <1>c, <2>2, CpuVa
       DEF CpuAtiende, Ejecuta, CpuPide, En, EnBucle, q
<1>8. CASE En("cpu", MovOut, 1) /\ CpuPide(Op.I_MOV_OUT, q)
  <2>1. h = "pedidos_cpu"
    BY <1>8, CpuEspera DEF CpuPide
  <2>2. /\ SoloCpu /\ por'["cpu"] = por["cpu"] /\ kc' = kc /\ ck' = ck
        /\ CpuPidio(Op.I_MOV_OUT, q, <<>>)'
    BY <1>8, <2>1, CpuPideMovOut DEF q
  <2> QED
    BY <1>8, <1>q, <2>2 DEF CpuAtiende, Ejecuta, CpuPidio, En, q
<1>9. CASE En("cpu", MovOut, 1) /\ EnBucle("pedidos_cpu") /\ cm = <<>>
           /\ mc = Paquete(Op.AUX_OK, <<>>)
  <2>1. h = "cpu"
    BY <1>9, PedidosCpuEspera
  <2>2. Toca("cpu", recibe("memoria", "cpu"), Quedan(MovOut, 2))
    BY <1>9, MovOutToca
  <2>3. Va("cpu", Quedan(MovOut, 2), <<"memoria", "cpu">>, Resto(<<>>))
    BY <1>9, <1>p, <2>1, <2>2, PasoRecibePaquete, CanalesSon, Codigos
       DEF Hay, mc
  <2> QED
    BY <1>9, <1>q, <2>3, CpuVa DEF CpuAtiende, Ejecuta, En, EnBucle
<1>10. CASE En("cpu", MovOut, 2) /\ EnBucle("pedidos_cpu") /\ cm = <<>>
              /\ mc = Resto(<<>>)
  <2>1. h = "cpu"
    BY <1>10, PedidosCpuEspera
  <2>2. Toca("cpu", recibe("memoria", "cpu"), Quedan(MovOut, 3))
    BY <1>10, MovOutToca
  <2>3. Va("cpu", Quedan(MovOut, 3), <<"memoria", "cpu">>, <<>>)
    BY <1>10, <1>p, <2>1, <2>2, PasoRecibeResto, CanalesSon DEF Hay, mc
  <2> QED
    BY <1>10, <1>q, <2>3, CpuVa
       DEF CpuAtiende, Ejecuta, PedidosCpuQuieto, En, EnBucle
<1>11. CASE En("cpu", MovOut, 3) /\ PedidosCpuQuieto
  BY <1>11, <1>e, MovOutToca
<1>12. ASSUME NEW op \in Desalojos, En("cpu", Devolver(op), 0), PedidosCpuQuieto
      PROVE  SoloCpu /\ CpuAtiende'
  <2>1. op \in Int /\ op \notin {Op.I_F_READ, Op.I_F_WRITE}
    BY DEF SinPedidosDelFs
  <2>2. Toca("cpu", envia("cpu", "kernel", op, Pcb), Bucle["cpu"])
    BY <1>12, <2>1, DevolverToca
  <2>3. Va("cpu", Bucle["cpu"], <<"cpu", "kernel">>, Paquete(op, Pcb))
    BY <1>12, <1>p, <1>q, <1>c, <2>1, <2>2, PasoEnviaSolo, CanalesSon
       DEF Hay, ck
  <2> QED
    BY <1>12, <1>q, <1>c, <2>3, CpuVa DEF CpuAtiende, PedidosCpuQuieto, EnBucle
<1> QED
  BY <1>1, <1>2, <1>3, <1>4, <1>5, <1>6, <1>7, <1>8, <1>9, <1>10, <1>11, <1>12
     DEF Ejecuta, p, q

\* Every step of the CPU, and of Memoria for it, is one of those.
LEMMA CpuPasa ==
    ASSUME Tipos, SinPedidosDelFs, CpuAtiende, NEW h \in {"cpu", "pedidos_cpu"},
           Avanza(h)
    PROVE  SoloCpu /\ CpuAtiende'
<1>c. ASSUME PedidosCpuQuieto
      PROVE  h = "cpu" /\ EnBucle("pedidos_cpu") /\ cm = <<>> /\ mc = <<>>
  BY <1>c, PedidosCpuEspera DEF PedidosCpuQuieto
<1>1. CASE PedidosCpuQuieto /\ ck = <<>> /\ EnBucle("cpu")
             /\ kc = Paquete(Op.OP_EXECUTE_PCB, Pcb)
  <2>1. Toca("cpu", recibe("kernel", "cpu"), Quedan(atender_kernel, 1))
    BY <1>1, AtenderKernelToca
  <2>2. Va("cpu", Quedan(atender_kernel, 1), <<"kernel", "cpu">>, Resto(Pcb))
    BY <1>1, <1>c, <2>1, PasoRecibePaquete, CanalesSon, Codigos, DatosTipos
       DEF Hay, kc
  <2> QED
    BY <1>1, <1>c, <2>2, CpuVa DEF CpuAtiende, PedidosCpuQuieto, En, EnBucle
<1>2. CASE PedidosCpuQuieto /\ ck = <<>> /\ En("cpu", atender_kernel, 1)
             /\ kc = Resto(Pcb)
  <2>1. Toca("cpu", recibeBuffer("kernel", "cpu"), Quedan(atender_kernel, 2))
    BY <1>2, AtenderKernelToca
  <2>2. Va("cpu", Quedan(atender_kernel, 2), <<"kernel", "cpu">>, <<>>)
    BY <1>2, <1>c, <2>1, PasoBufferSolo, CanalesSon, DatosTipos DEF Hay, kc
  <2> QED
    BY <1>2, <1>c, <2>2, CpuVa
       DEF CpuAtiende, Ejecuta, PedidosCpuQuieto, En, EnBucle
<1>3. CASE Ejecuta
  BY <1>3, EjecutaPasa
<1>4. CASE PedidosCpuQuieto /\ EnBucle("cpu") /\ kc = <<>>
  BY <1>4, <1>c, CpuEspera
<1> QED
  BY <1>1, <1>2, <1>3, <1>4 DEF CpuAtiende
-----------------------------------------------------------------------------
(* The FileSystem answers the kernel *)

\* Only the FileSystem does anything.
SoloFs ==
    /\ Tipos' /\ UNCHANGED Resto4 /\ IgualKC /\ IgualKM /\ IgualCM /\ IgualFM
         /\ IgualCF
    /\ \A g \in Hilos \ {"fs"} : por'[g] = por[g]

\* What a call of the FileSystem leaves alone.
LEMMA FsVa ==
    ASSUME NEW y, NEW w
    PROVE  /\ Va("fs", y, <<"kernel", "fs">>, w) =>
                 SoloFs /\ por'["fs"] = y /\ kf' = w /\ fk' = fk
           /\ Va("fs", y, <<"fs", "kernel">>, w) =>
                 SoloFs /\ por'["fs"] = y /\ kf' = kf /\ fk' = w
BY CanalesDe DEF Va, HiloPasa, SoloFs

Pedidos == {Op.KERNEL_CREAR_ARCHIVO, Op.I_F_OPEN, Op.I_TRUNCATE}

\* With no request of the kernel the FileSystem waits.
LEMMA FsEspera ==
    ASSUME Tipos, EnBucle("fs"), kf = <<>>
    PROVE  ~Avanza("fs")
BY FsToca, NoHay DEF Hay, kf

\* Every step of the FileSystem on a request takes it nearer to its answer.
LEMMA FsPasa ==
    ASSUME Tipos, NEW op \in Pedidos, NEW d \in Seq(Palabras), FsAtiende(op, d),
           Avanza("fs")
    PROVE  SoloFs /\ FsAtiende(op, d)'
<1> DEFINE s == ejecutar_instrucciones_kernel(op)
<1>1. op \in Int /\ op \in {Op.KERNEL_CREAR_ARCHIVO, Op.I_F_OPEN, Op.I_TRUNCATE}
  BY Codigos DEF Pedidos
<1>2. s \in Seq(Llamadas) /\ s # <<>> /\ Sigue("fs", op) = s
  BY <1>1, FsPedidoLlama, NoVacia DEF Sigue
<1>3. CASE EnBucle("fs") /\ kf = Paquete(op, d) /\ fk = <<>>
  <2>1. TocaUltima("fs", mira("kernel", "fs", "fs"))
    BY <1>3, FsToca
  <2>2. Va("fs", s, <<"kernel", "fs">>, Resto(d))
    BY <1>1, <1>2, <1>3, <2>1, PasoMiraPaquete, HilosSon, CanalesSon DEF Hay, kf
  <2> HIDE DEF s
  <2> QED
    BY <1>2, <1>3, <2>2, FsVa, QuedaTodoONada DEF FsAtiende, En, s
<1>4. CASE En("fs", s, 0) /\ kf = Resto(d) /\ fk = <<>>
  <2>1. Toca("fs", recibeBuffer("kernel", "fs"), Quedan(s, 1))
    BY <1>1, <1>4, FsPedidoToca
  <2>2. Va("fs", Quedan(s, 1), <<"kernel", "fs">>, <<>>)
    BY <1>4, <2>1, PasoBufferSolo, CanalesSon DEF Hay, kf
  <2> QED
    BY <1>4, <2>2, FsVa DEF FsAtiende, En
<1>5. CASE En("fs", s, 1) /\ kf = <<>> /\ fk = <<>>
  <2>1. TocaUltima("fs", elige("confirmar"))
    BY <1>1, <1>5, FsPedidoToca
  <2>2. Opciones("confirmar") = {Confirmar(Op.AUX_OK), Confirmar(Op.AUX_ERROR)}
    BY DEF Opciones
  <2>3. \A r \in Confirmaciones : Confirmar(r) \in Seq(Llamadas)
          /\ Confirmar(r) # <<>>
    BY ConfirmarLlama, Codigos, NoVacia DEF Confirmaciones
  <2>4. \A o \in Opciones("confirmar") :
           o \in Seq(Llamadas) /\ o # <<>>
             /\ \E r \in Confirmaciones : o = Confirmar(r)
    BY <2>2, <2>3 DEF Confirmaciones
  <2>5. /\ Tipos' /\ UNCHANGED Resto4 /\ canal' = canal
        /\ \E o \in Opciones("confirmar") : HiloPasa("fs", o)
    BY <2>1, <2>4, PasoElige, HilosSon
  <2>6. PICK r \in Confirmaciones : HiloPasa("fs", Confirmar(r))
    BY <2>4, <2>5
  <2>7. /\ por'["fs"] = Confirmar(r)
             /\ \A g \in Hilos \ {"fs"} : por'[g] = por[g]
    BY <2>6 DEF HiloPasa
  <2>8. SoloFs /\ kf' = <<>> /\ fk' = <<>>
    BY <1>5, <2>5, <2>7 DEF SoloFs, IgualKC, IgualKM, IgualCM, IgualFM, IgualCF,
       kc, ck, kf, fk, km, mk, cm, mc, fm, mf, cf, fc
  <2>9. En("fs", Confirmar(r), 0)'
    BY <2>3, <2>7, QuedaTodoONada DEF En
  <2> QED
    BY <2>8, <2>9 DEF FsAtiende
<1>6. ASSUME NEW r \in Confirmaciones, En("fs", Confirmar(r), 0), kf = <<>>,
             fk = <<>>
      PROVE  SoloFs /\ FsAtiende(op, d)'
  <2>1. r \in Int
    BY Codigos DEF Confirmaciones
  <2>2. Toca("fs", envia("fs", "kernel", r, <<>>), Bucle["fs"])
    BY <1>6, <2>1, ConfirmarToca
  <2>3. Va("fs", Bucle["fs"], <<"fs", "kernel">>, Paquete(r, <<>>))
    BY <1>6, <2>1, <2>2, PasoEnviaSolo, CanalesSon, DatosTipos DEF Hay, fk
  <2> QED
    BY <1>6, <2>3, FsVa DEF FsAtiende, EnBucle
<1>7. CASE EnBucle("fs") /\ kf = <<>>
  BY <1>7, FsEspera
<1> QED
  BY <1>3, <1>4, <1>5, <1>6, <1>7 DEF FsAtiende

-----------------------------------------------------------------------------
(* The thread of Memoria for the FileSystem *)

SoloPedidosFs ==
    /\ Tipos' /\ UNCHANGED Resto4 /\ IgualKC /\ IgualKF /\ IgualKM /\ IgualCM
         /\ IgualCF
    /\ \A g \in Hilos \ {"pedidos_fs"} : por'[g] = por[g]

\* It reads the size that was left of the greeting as if it were an operation,
LEMMA PedidosFsPasa ==
    ASSUME Tipos, EnBucle("pedidos_fs"), fm = Resto(<<>>), mf = <<>>,
           Avanza("pedidos_fs")
    PROVE  /\ SoloPedidosFs /\ En("pedidos_fs", Bucle.pedidos_fs, 1)'
           /\ fm' = <<>> /\ mf' = <<>>
<1>1. Toca("pedidos_fs", recibe("fs", "memoria"), Quedan(Bucle.pedidos_fs, 1))
  BY PedidosFsToca
<1>2. Va("pedidos_fs", Quedan(Bucle.pedidos_fs, 1), <<"fs", "memoria">>, <<>>)
  BY <1>1, PasoRecibeResto, CanalesSon, DatosTipos DEF Hay, fm
<1> QED
  BY <1>2, CanalesDe DEF Va, HiloPasa, SoloPedidosFs, En

\* ... and then waits for a request,
LEMMA PedidosFsEspera ==
    ASSUME Tipos, En("pedidos_fs", Bucle.pedidos_fs, 1), fm = <<>>
    PROVE  ~Avanza("pedidos_fs")
BY PedidosFsToca, NoHay DEF Hay, fm

\* ... for ever, while the FileSystem makes none.
LEMMA PedidosFsSigue ==
    ASSUME Tipos, PedidosFs, Avanza("pedidos_fs")
    PROVE  SoloPedidosFs /\ PedidosFs'
BY PedidosFsPasa, PedidosFsEspera DEF PedidosFs
-----------------------------------------------------------------------------
(* The main thread of Memoria *)

\* A call of s, when t comes after s.
LEMMA PasoDe ==
    ASSUME NEW s \in Seq(Llamadas), NEW t \in Seq(Llamadas), t # <<>>,
           NEW k \in 0..Len(s) - 1, NEW j, j = k + 1
    PROVE  Paso(s \o t, k, j, s[j]) /\ (j = Len(s) => Quedan(s \o t, j) = t)
<1>1. Len(t) # 0 /\ s \o t \in Seq(Llamadas) /\ Len(s \o t) = Len(s) + Len(t)
  OBVIOUS
<1>2. (s \o t)[j] = s[j]
  OBVIOUS
<1>3. Paso(s \o t, k, j, s[j])
  BY <1>1, <1>2 DEF Paso
<1>4. ASSUME j = Len(s)
      PROVE  Quedan(s \o t, j) = t
  <2>1. Quedan(s \o t, Len(s) + 0) = Quedan(t, 0) /\ 0 \in 0..Len(t)
    BY QuedaLaSegunda
  <2> QED
    BY <1>4, <2>1, QuedaTodoONada
<1> QED
  BY <1>3, <1>4

\* The next call of thread h is x, what it asks for comes next, and then q; or x
\* creates the threads "hilos", and then comes q.
TocaCon(h, x, q) ==
    /\ Ahora(h) = x /\ Tail(por[h]) = q /\ q \in Seq(Llamadas)
    /\ \A t \in Seq(Llamadas) : SigueCon(h, t) => HiloPasa(h, t \o q)

\* At call k of s, with q after it.
LEMMA AntesDe ==
    ASSUME Tipos, NEW h \in Hilos, NEW s \in Seq(Llamadas),
           NEW q \in Seq(Llamadas),
           q # <<>>, NEW k \in 0..Len(s) - 1, NEW j, j = k + 1, En(h, s \o q, k)
    PROVE  /\ Toca(h, s[j], Quedan(s \o q, j))
           /\ j = Len(s) => TocaCon(h, s[j], q)
<1>1. Paso(s \o q, k, j, s[j]) /\ (j = Len(s) => Quedan(s \o q, j) = q)
  BY PasoDe
<1>2. Toca(h, s[j], Quedan(s \o q, j))
  BY <1>1, Ahi
<1>3. Ahora(h) = s[j] /\ Tail(por[h]) = Quedan(s \o q, j)
  BY <1>1, Posicion, ZenonT(40) DEF Paso
<1>4. ASSUME j = Len(s), NEW t \in Seq(Llamadas), SigueCon(h, t)
      PROVE  HiloPasa(h, t \o q)
  <2>1. Tail(por[h]) = q
    BY <1>1, <1>3, <1>4
  <2>2. t \o q \in Seq(Llamadas) /\ t \o q # <<>>
    OBVIOUS
  <2>3. por' = [por EXCEPT ![h] = t \o q]
    BY <1>4, <2>1, <2>2 DEF SigueCon
  <2> QED
    BY <2>2, <2>3 DEF Tipos, HiloPasa
<1> QED
  BY <1>1, <1>2, <1>3, <1>4 DEF TocaCon

\* The switch of a greeting goes to its case, and q is left after it.
LEMMA PasoMiraCon ==
    ASSUME Tipos, NEW h \in Hilos, NEW de, NEW a, <<de, a>> \in Canales,
           NEW como,
           NEW op \in Int, NEW w, NEW q, NEW t \in Seq(Llamadas),
           w # <<>>, Head(w).vale = op,
           TocaCon(h, mira(de, a, como), q), Hay(de, a, w), Avanza(h),
             Sigue(como, op) = t
    PROVE  Va(h, t \o q, <<de, a>>, Tail(w))
<1>1. /\ Ahora(h) = mira(de, a, como) /\ (SigueCon(h, t) => HiloPasa(h, t \o q))
  BY DEF TocaCon
<1>2. Ahora(h).paso = "switch" /\ Ahora(h).canal = <<de, a>>
        /\ Ahora(h).como = como
  BY <1>1 DEF mira
<1>3. Switch(h)
  BY <1>2, QueLlama
<1>4. canal[<<de, a>>] # <<>> /\ Sacar(<<de, a>>, 1)
  BY <1>2, <1>3 DEF Switch
<1>5. Sigue(como, Head(canal[<<de, a>>]).vale) = t
  BY <1>4 DEF Hay
<1>6. HiloPasa(h, t \o q) /\ UNCHANGED Resto4
  BY <1>1, <1>2, <1>3, <1>5 DEF Switch, Resto4
<1>7. CanalPasa(<<de, a>>, Tail(canal[<<de, a>>]))
  BY <1>4, Saca
<1>8. Tipos'
  BY <1>6, <1>7, TiposDe
<1> QED
  BY <1>6, <1>7, <1>8 DEF Hay, Va

\* pthread_create gives the threads it creates their loops.
LEMMA PasoLanza ==
    ASSUME Tipos, NEW h \in Hilos, NEW hilos \in SUBSET Hilos, h \notin hilos,
           NEW q,
           Ahora(h) = lanza(hilos), Tail(por[h]) = q, q \in Seq(Llamadas),
             Avanza(h)
    PROVE  /\ Tipos' /\ UNCHANGED Resto4 /\ canal' = canal /\ por'[h] = q
           /\ \A g \in hilos : por'[g] = Bucle[g]
           /\ \A g \in Hilos \ (hilos \cup {h}) : por'[g] = por[g]
<1>1. Ahora(h).paso = "pthread_create" /\ Ahora(h).hilos = hilos
  BY DEF lanza
<1>2. PthreadCreate(h)
  BY <1>1, QueLlama
<1>3. /\ UNCHANGED <<canal, escuchan, cola, mutex_memoria, inicializar>>
      /\ por' = [g \in Hilos |-> CASE g = h -> q
                                   [] g \in hilos -> Bucle[g]
                                   [] OTHER -> por[g]]
  BY <1>1, <1>2 DEF PthreadCreate
<1>4. /\ por'[h] = q
      /\ \A g \in hilos : por'[g] = Bucle[g]
      /\ \A g \in Hilos \ (hilos \cup {h}) : por'[g] = por[g]
  BY <1>3
<1>5. \A g \in Hilos : por'[g] \in Seq(Llamadas)
  <2> SUFFICES ASSUME NEW g \in Hilos PROVE por'[g] \in Seq(Llamadas)
    OBVIOUS
  <2>1. CASE g = h
    BY <1>4, <2>1
  <2>2. CASE g \in hilos
    BY <1>4, <2>2, BucleTipos
  <2>3. CASE g \in Hilos \ (hilos \cup {h})
    BY <1>4, <2>3 DEF Tipos
  <2> QED
    BY <2>1, <2>2, <2>3
<1>6. por' \in [Hilos -> Seq(Llamadas)]
  BY <1>3, <1>5
<1> QED
  BY <1>3, <1>4, <1>6 DEF Tipos, Resto4

-----------------------------------------------------------------------------
(* Memoria and the kernel *)

Clientela == {"kernel", "cpu", "fs"}
Luego(i) == Quedan(Inicio.memoria, i + 1)

\* What is left to Memoria after its i-th client.
LEMMA LuegoSon ==
    ASSUME NEW i \in 1..3
    PROVE  Luego(i) \in Seq(Llamadas) /\ Luego(i) # <<>>
<1>1. i + 1 \in 0..Len(Inicio.memoria) - 1 /\ Inicio.memoria \in Seq(Llamadas)
  BY InicioMemoriaLlama
<1> QED
  BY <1>1, LoQueQueda DEF Luego

\* The calls of the greeting,
LEMMA SaludaToca ==
    ASSUME Tipos, NEW c \in Clientela, NEW i \in 1..3
    PROVE  /\ Saluda(c, i, 0) =>
                 Toca("memoria", recibe(c, "memoria"),
                   Quedan(Saludo(c) \o Luego(i), 1))
           /\ Saluda(c, i, 1) =>
                 Toca("memoria", responde("memoria", c),
                   Quedan(Saludo(c) \o Luego(i), 2))
           /\ Saluda(c, i, 2) => TocaCon("memoria",
                mira(c, "memoria", "conexion"), Luego(i))
<1> DEFINE s == Saludo(c)
           q == Luego(i)
<1>1. /\ s \in Seq(Llamadas) /\ Len(s) = 3 /\ s[1] = recibe(c, "memoria")
      /\ s[2] = responde("memoria", c) /\ s[3] = mira(c, "memoria", "conexion")
  BY SaludoLlama DEF Clientela, Modulos
<1>2. q \in Seq(Llamadas) /\ q # <<>> /\ "memoria" \in Hilos
  BY LuegoSon, HilosSon
<1>3. \A j : Saluda(c, i, j) = En("memoria", s \o q, j)
  BY DEF Saluda, Luego
<1> HIDE DEF s, q
<1>4. ASSUME NEW k \in 0..2, NEW j, j = k + 1, En("memoria", s \o q, k)
      PROVE  /\ Toca("memoria", s[j], Quedan(s \o q, j))
             /\ j = 3 => TocaCon("memoria", s[j], q)
  <2>1. k \in 0..Len(s) - 1
    BY <1>1
  <2>2. /\ Toca("memoria", s[j], Quedan(s \o q, j))
        /\ j = Len(s) => TocaCon("memoria", s[j], q)
    BY <1>1, <1>2, <1>4, <2>1, AntesDe
  <2> QED
    BY <1>1, <2>2
<1>5. /\ En("memoria", s \o q, 0) => Toca("memoria", s[1], Quedan(s \o q, 1))
      /\ En("memoria", s \o q, 1) => Toca("memoria", s[2], Quedan(s \o q, 2))
      /\ En("memoria", s \o q, 2) => TocaCon("memoria", s[3], q)
  BY <1>4
<1> QED
  BY <1>1, <1>3, <1>5 DEF s, q

\* ... and those that follow it.
LEMMA AtiendeToca ==
    ASSUME Tipos, NEW i \in 1..3
    PROVE  /\ Atiende("fs", i, 0) =>
                 Ahora("memoria") = lanza({"pedidos_fs"})
                   /\ Tail(por["memoria"]) = Luego(i)
           /\ Atiende("cpu", i, 0) =>
                 Toca("memoria", recibe("cpu", "memoria"),
                      Quedan(atender_conexiones(Soy.cpu) \o Luego(i), 1))
           /\ Atiende("cpu", i, 1) =>
                 Ahora("memoria") = lanza({"pedidos_cpu"})
                   /\ Tail(por["memoria"]) = Luego(i)
           /\ Atiende("kernel", i, 0) =>
                 Toca("memoria", recibe("kernel", "memoria"),
                      Quedan(atender_conexiones(Soy.kernel) \o Luego(i), 1))
           /\ Atiende("kernel", i, 1) =>
                 /\ Ahora("memoria") = lanza({"pedidos_kernel"})
                 /\ Tail(por["memoria"]) = Quedan(atender_conexiones(Soy.kernel)
                      \o Luego(i), 2)
           /\ Atiende("kernel", i, 2) => Ahora("memoria") = solo("fin")
<1> DEFINE q == Luego(i)
           a == atender_conexiones(Soy.fs)
           b == atender_conexiones(Soy.cpu)
           c == atender_conexiones(Soy.kernel)
<1>1. q \in Seq(Llamadas) /\ q # <<>> /\ "memoria" \in Hilos
  BY LuegoSon, HilosSon
<1>2. \A j : /\ Atiende("fs", i, j) = En("memoria", a \o q, j)
             /\ Atiende("cpu", i, j) = En("memoria", b \o q, j)
             /\ Atiende("kernel", i, j) = En("memoria", c \o q, j)
  BY DEF Atiende, Luego
<1>3. a \in Seq(Llamadas) /\ Len(a) = 1 /\ a[1] = lanza({"pedidos_fs"})
  BY ConexionFsLlama
<1>4. /\ b \in Seq(Llamadas) /\ Len(b) = 2
      /\ b[1] = recibe("cpu", "memoria") /\ b[2] = lanza({"pedidos_cpu"})
  BY ConexionCpuLlama
<1>5. /\ c \in Seq(Llamadas) /\ Len(c) = 3 /\ c[1] = recibe("kernel", "memoria")
      /\ c[2] = lanza({"pedidos_kernel"}) /\ c[3] = solo("fin")
  BY ConexionKernelLlama
<1> HIDE DEF a, b, c, q
<1>6. ASSUME NEW s \in Seq(Llamadas), NEW k \in 0..Len(s) - 1, NEW j, j = k + 1,
             En("memoria", s \o q, k)
      PROVE  /\ Toca("memoria", s[j], Quedan(s \o q, j))
                  /\ Ahora("memoria") = s[j]
             /\ Tail(por["memoria"]) = Quedan(s \o q, j)
             /\ j = Len(s) => Tail(por["memoria"]) = q
  <2>1. /\ Toca("memoria", s[j], Quedan(s \o q, j))
        /\ j = Len(s) => TocaCon("memoria", s[j], q)
    BY <1>1, <1>6, AntesDe
  <2>2. Paso(s \o q, k, j, s[j])
    BY <1>1, <1>6, PasoDe
  <2>3. Tail(por["memoria"]) = Quedan(s \o q, j)
    BY <1>1, <1>6, <2>2, Posicion DEF Paso
  <2> QED
    BY <2>1, <2>3 DEF Toca, TocaCon
<1>13. /\ 0 \in 0..Len(a) - 1 /\ 0 \in 0..Len(b) - 1 /\ 1 \in 0..Len(b) - 1
       /\ 0 \in 0..Len(c) - 1 /\ 1 \in 0..Len(c) - 1 /\ 2 \in 0..Len(c) - 1
       /\ 1 = 0 + 1 /\ 2 = 1 + 1 /\ 3 = 2 + 1
  BY <1>3, <1>4, <1>5
<1>7. Atiende("fs", i, 0) => Ahora("memoria") = a[1] /\ Tail(por["memoria"]) = q
  BY <1>2, <1>3, <1>6, <1>13
<1>8. Atiende("cpu", i, 0) => Toca("memoria", b[1], Quedan(b \o q, 1))
  BY <1>2, <1>4, <1>6, <1>13
<1>9. Atiende("cpu", i, 1) => Ahora("memoria") = b[2]
        /\ Tail(por["memoria"]) = q
  BY <1>2, <1>4, <1>6, <1>13
<1>10. Atiende("kernel", i, 0) => Toca("memoria", c[1], Quedan(c \o q, 1))
  BY <1>2, <1>5, <1>6, <1>13
<1>11. Atiende("kernel", i, 1) =>
          Ahora("memoria") = c[2] /\ Tail(por["memoria"]) = Quedan(c \o q, 2)
  BY <1>2, <1>5, <1>6, <1>13
<1>12. Atiende("kernel", i, 2) => Ahora("memoria") = c[3]
  BY <1>2, <1>5, <1>6, <1>13
<1> QED
  BY <1>3, <1>4, <1>5, <1>7, <1>8, <1>9, <1>10, <1>11, <1>12 DEF a, b, c, q

\* Saluda and Atiende, by what is left of the main thread of Memoria.
LEMMA SeguidaDe ==
    ASSUME NEW c, NEW i, NEW j
    PROVE  /\ Saluda(c, i, j) <=> por["memoria"] = Quedan(Saludo(c) \o Luego(i),
                j)
           /\ Atiende(c, i, j) <=>
                 por["memoria"] = Quedan(atender_conexiones(Soy[c]) \o Luego(i),
                   j)
BY DEF Saluda, Atiende, En, Luego
-----------------------------------------------------------------------------
(* The thread of Memoria for the kernel *)

\* Only Memoria, for the kernel, does anything.
SoloMem ==
    /\ Tipos' /\ UNCHANGED Resto4 /\ IgualKC /\ IgualKF /\ IgualCM /\ IgualFM
         /\ IgualCF
    /\ \A g \in Hilos \ {"memoria", "pedidos_kernel"} : por'[g] = por[g]

\* What a call of Memoria for the kernel leaves alone.
LEMMA MemVa ==
    ASSUME NEW y, NEW w
    PROVE  /\ Va("memoria", y, <<"kernel", "memoria">>, w) =>
                 /\ SoloMem /\ por'["memoria"] = y /\ km' = w /\ mk' = mk
                 /\ por'["pedidos_kernel"] = por["pedidos_kernel"]
           /\ Va("memoria", y, <<"memoria", "kernel">>, w) =>
                 /\ SoloMem /\ por'["memoria"] = y /\ km' = km /\ mk' = w
                 /\ por'["pedidos_kernel"] = por["pedidos_kernel"]
           /\ Va("pedidos_kernel", y, <<"kernel", "memoria">>, w) =>
                 /\ SoloMem /\ por'["memoria"] = por["memoria"] /\ km' = w
                      /\ mk' = mk
                 /\ por'["pedidos_kernel"] = y
           /\ Va("pedidos_kernel", y, <<"memoria", "kernel">>, w) =>
                 /\ SoloMem /\ por'["memoria"] = por["memoria"] /\ km' = km
                      /\ mk' = w
                 /\ por'["pedidos_kernel"] = y
<1>1. \A h, c : Va(h, y, c, w) =>
         /\ Tipos' /\ UNCHANGED Resto4 /\ por'[h] = y /\ CanalPasa(c, w)
         /\ \A g \in Hilos \ {h} : por'[g] = por[g]
  BY DEF Va, HiloPasa
<1>2. "memoria" \in Hilos /\ "pedidos_kernel" \in Hilos
  BY HilosSon
<1>3. ASSUME NEW h \in {"memoria", "pedidos_kernel"}, NEW c, Va(h, y, c, w)
      PROVE  /\ Tipos' /\ UNCHANGED Resto4 /\ por'[h] = y
             /\ \A g \in Hilos \ {"memoria", "pedidos_kernel"} :
                  por'[g] = por[g]
             /\ h = "memoria" => por'["pedidos_kernel"] = por["pedidos_kernel"]
             /\ h = "pedidos_kernel" => por'["memoria"] = por["memoria"]
  BY <1>1, <1>2, <1>3
<1> QED
  BY <1>1, <1>3, CanalesDe DEF SoloMem, IgualKC, IgualKM

\* A thread that nobody has created does not move.
LEMMA NoEmpezo ==
    ASSUME NEW h, SinEmpezar(h)
    PROVE  ~Avanza(h)
<1>1. Ahora(h) = [paso |-> "fin"]
  BY DEF SinEmpezar, Ahora, Fin
<1> QED
  BY <1>1, NoSigueFin

\* A thread that has not started is not in its loop.
LEMMA BucleNoEsFin ==
    /\ EnBucle("pedidos_kernel") => ~SinEmpezar("pedidos_kernel")
    /\ EnBucle("pedidos_cpu") => ~SinEmpezar("pedidos_cpu")
    /\ EnBucle("pedidos_fs") => ~SinEmpezar("pedidos_fs")
<1>1. /\ Bucle["pedidos_kernel"][1].paso = "switch"
           /\ Bucle["pedidos_cpu"][1].paso = "switch"
      /\ Bucle["pedidos_fs"][1].paso = "recibir_operacion"
  <2>1. /\ Bucle["pedidos_kernel"][1] = mira("kernel", "memoria",
             "pedidos_kernel")
        /\ Bucle["pedidos_cpu"][1] = mira("cpu", "memoria", "pedidos_cpu")
        /\ Bucle["pedidos_fs"][1] = recibe("fs", "memoria")
    BY PedidosKernelLlama, PedidosCpuLlama, PedidosFsLlama
  <2> QED
    BY <2>1 DEF mira, recibe
<1>2. Fin[1].paso = "fin"
  BY DEF Fin
<1> QED
  BY <1>1, <1>2 DEF EnBucle, SinEmpezar

\* While Memoria greets the kernel, and the kernel may already have sent w.
LEMMA KmListoMemoria ==
    ASSUME Tipos, NEW w \in Seq(Palabras), KmListo(w), Avanza("memoria")
    PROVE  SoloMem /\ KmListo(w)' /\ mk' = mk /\ MemoriaTermina'
<1> DEFINE t == atender_conexiones(Soy.kernel)
           q == Luego(3)
<1>1. /\ t \in Seq(Llamadas) /\ q \in Seq(Llamadas) /\ t \o q \in Seq(Llamadas)
      /\ 3 \in 1..3 /\ "memoria" \in Hilos /\ "kernel" \in Clientela
  BY ConexionKernelLlama, LuegoSon, HilosSon DEF Clientela
<1>2. /\ \A j : Atiende("kernel", 3, j)' <=> por'["memoria"] = Quedan(t \o q, j)
  BY DEF Atiende, En, Luego
<1>3. Sigue("conexion", Op.AUX_SOY_KERNEL) = t
  BY DEF Sigue, Soy
<1> HIDE DEF t, q
<1>4. CASE EnBucle("pedidos_kernel") /\ Ahora("memoria") = [paso |-> "fin"]
  BY <1>4, NoSigueFin
<1>5. CASE /\ SinEmpezar("pedidos_kernel") /\ Saluda("kernel", 3, 2)
           /\ km = Paquete(Op.AUX_SOY_KERNEL, <<>>) \o w
  <2>1. TocaCon("memoria", mira("kernel", "memoria", "conexion"), q)
    BY <1>1, <1>5, SaludaToca DEF q
  <2>2. /\ km # <<>> /\ Head(km) = Palabra("op", Op.AUX_SOY_KERNEL)
        /\ Tail(km) = Resto(<<>>) \o w
    <3>1. <<>> \in Seq(Palabras) /\ Op.AUX_SOY_KERNEL \in Int
      BY Codigos, DatosTipos
    <3>2. Paquete(Op.AUX_SOY_KERNEL, <<>>) \o w # <<>>
      BY <3>1, PaqueteDe
    <3>3. Head(Paquete(Op.AUX_SOY_KERNEL, <<>>) \o w) = Palabra("op",
            Op.AUX_SOY_KERNEL)
      BY <3>1, PaqueteDe
    <3>4. Tail(Paquete(Op.AUX_SOY_KERNEL, <<>>) \o w) = Resto(<<>>) \o w
      BY <3>1, PaqueteDe, ZenonT(40)
    <3> QED
      BY <1>5, <3>2, <3>3, <3>4
  <2>3. Head(km).vale = Op.AUX_SOY_KERNEL
    BY <2>2 DEF Palabra
  <2>4. Va("memoria", t \o q, <<"kernel", "memoria">>, Tail(km))
    BY <1>1, <1>3, <2>1, <2>2, <2>3, PasoMiraCon, CanalesSon, Codigos
       DEF Hay, km
  <2>5. Quedan(t \o q, 0) = t \o q
    BY <1>1, QuedaTodoONada
  <2> QED
    BY <1>2, <1>5, <2>2, <2>4, <2>5, MemVa
       DEF KmListo, SinEmpezar, MemoriaTermina
<1>6. CASE SinEmpezar("pedidos_kernel") /\ Atiende("kernel", 3, 0)
             /\ km = Resto(<<>>) \o w
  <2>1. Toca("memoria", recibe("kernel", "memoria"), Quedan(t \o q, 1))
    BY <1>1, <1>6, AtiendeToca DEF t, q
  <2>2. Va("memoria", Quedan(t \o q, 1), <<"kernel", "memoria">>, Tail(km))
    BY <2>1, PasoRecibe, CanalesSon DEF Hay, km
  <2>3. Tail(km) = w
    BY <1>6, RestoDe, DatosTipos, ConcatEmptySeq
  <2> QED
    BY <1>2, <1>6, <2>2, <2>3, MemVa DEF KmListo, SinEmpezar, MemoriaTermina
<1>7. CASE SinEmpezar("pedidos_kernel") /\ Atiende("kernel", 3, 1) /\ km = w
  <2> DEFINE y == Quedan(t \o q, 2)
  <2>1. /\ Ahora("memoria") = lanza({"pedidos_kernel"})
             /\ Tail(por["memoria"]) = y
    BY <1>1, <1>7, AtiendeToca DEF t, q
  <2>2. y \in Seq(Llamadas) /\ y # <<>> /\ Head(y) = solo("fin")
    <3>1. t[3] = solo("fin") /\ Len(t) = 3
      BY ConexionKernelLlama DEF t
    <3>2. q # <<>>
      BY <1>1, LuegoSon DEF q
    <3>3. 2 \in 0..Len(t) - 1 /\ 3 = 2 + 1
      BY <3>1
    <3>4. Paso(t \o q, 2, 3, t[3])
      BY <1>1, <3>2, <3>3, PasoDe
    <3> DEFINE s == t \o q
    <3>5. s \in Seq(Llamadas) /\ 2 \in 0..Len(s) - 1 /\ 2 + 1 = 3
            /\ s[3] = solo("fin")
      BY <3>1, <3>4 DEF Paso
    <3> HIDE DEF s
    <3>6. /\ Quedan(s, 2) \in Seq(Llamadas) /\ Quedan(s, 2) # <<>>
          /\ Head(Quedan(s, 2)) = s[2 + 1]
      BY <3>5, LoQueQueda
    <3> QED
      BY <3>5, <3>6 DEF s
  <2> HIDE DEF y
  <2>3. /\ Tipos' /\ UNCHANGED Resto4 /\ canal' = canal /\ por'["memoria"] = y
        /\ por'["pedidos_kernel"] = Bucle["pedidos_kernel"]
        /\ \A g \in Hilos \ {"memoria", "pedidos_kernel"} : por'[g] = por[g]
    <3> DEFINE H == {"pedidos_kernel"}
    <3>1. H \in SUBSET Hilos /\ "memoria" \notin H
      BY HilosSon
    <3>2. /\ Tipos' /\ UNCHANGED Resto4 /\ canal' = canal /\ por'["memoria"] = y
          /\ \A g \in H : por'[g] = Bucle[g]
          /\ \A g \in Hilos \ (H \cup {"memoria"}) : por'[g] = por[g]
      BY <1>1, <2>1, <2>2, <3>1, PasoLanza
    <3> QED
      BY <3>2
  <2>4. SoloMem /\ km' = km /\ mk' = mk
    BY <2>3 DEF SoloMem, IgualKC, IgualKF, IgualCM, IgualFM, IgualCF,
       kc, ck, kf, fk, km, mk, cm, mc, fm, mf, cf, fc
  <2>5. Ahora("memoria")' = [paso |-> "fin"] /\ EnBucle("pedidos_kernel")'
    BY <2>2, <2>3 DEF Ahora, EnBucle, solo
  <2> QED
    BY <1>7, <2>4, <2>5 DEF KmListo, MemoriaTermina
<1> QED
  BY <1>4, <1>5, <1>6, <1>7 DEF KmListo
-----------------------------------------------------------------------------
(* What Memoria does with each request of the kernel *)

\* A thread with a call to make was created, and is not in its loop.
LEMMA EmpezoYa ==
    ASSUME NEW h, NEW y, NEW de, NEW a, NEW op, NEW d, NEW que, NEW como,
           \/ Toca(h, recibe(de, a), y) \/ Toca(h, recibeBuffer(de, a), y)
           \/ Toca(h, envia(de, a, op, d), y) \/ TocaUltima(h, elige(que))
           \/ TocaUltima(h, mira(de, a, como))
    PROVE  ~SinEmpezar(h)
<1>1. Ahora(h).paso # "fin"
  BY DEF Toca, TocaUltima, recibe, recibeBuffer, envia, elige, mira
<1> QED
  BY <1>1 DEF SinEmpezar, Ahora, Fin

\* While Memoria attends to a request its main thread does not move.
LEMMA PkMedio ==
    ASSUME MemoriaTermina, ~SinEmpezar("pedidos_kernel"),
           NEW h \in {"memoria", "pedidos_kernel"}, Avanza(h)
    PROVE  /\ h = "pedidos_kernel"
           /\ por'["memoria"] = por["memoria"] => MemoriaTermina'
           /\ \A w : /\ por'["memoria"] = por["memoria"] /\ km' = w
                    /\ por'["pedidos_kernel"] = Bucle["pedidos_kernel"]
                    => KmListo(w)'
<1>1. Ahora("memoria") = [paso |-> "fin"]
  BY DEF MemoriaTermina
<1>2. por'["memoria"] = por["memoria"] => Ahora("memoria")' = [paso |-> "fin"]
  BY <1>1 DEF Ahora
<1>3. h = "pedidos_kernel"
  BY <1>1, NoSigueFin
<1> QED
  BY <1>2, <1>3 DEF MemoriaTermina, KmListo, EnBucle

\* Memoria has the request whole, or part of it, and reads its first word.
Encabeza(op, d, w, v) ==
    \/ w = Paquete(op, d) /\ v = Resto(d)
    \/ \E r \in Seq(Palabras) : w = Paquete(op, d) \o r /\ v = Resto(d) \o r

\* Memoria takes the operation of a request of the kernel,
LEMMA KmListoPide ==
    ASSUME Tipos, MemoriaTermina, NEW op \in Int, NEW d \in Seq(Palabras),
           NEW w \in Seq(Palabras), NEW v, NEW t \in Seq(Llamadas), t # <<>>,
           Sigue("pedidos_kernel", op) = t, KmListo(w),
           Encabeza(op, d, w, v), NEW h \in {"memoria", "pedidos_kernel"},
             Avanza(h)
    PROVE  /\ SoloMem /\ MemoriaTermina' /\ mk' = mk
           /\ KmListo(w)' \/ (En("pedidos_kernel", t, 0)' /\ km' = v)
<1>1. CASE h = "memoria"
  BY <1>1, KmListoMemoria
<1>2. CASE h = "pedidos_kernel"
  <2>1. ~SinEmpezar("pedidos_kernel")
    BY <1>2, NoEmpezo
  <2>2. EnBucle("pedidos_kernel") /\ km = w
    BY <2>1 DEF KmListo
  <2>3. TocaUltima("pedidos_kernel",
          mira("kernel", "memoria", "pedidos_kernel"))
    BY <2>2, PedidosKernelToca
  <2>4. Va("pedidos_kernel", t, <<"kernel", "memoria">>, v)
    <3>1. Hay("kernel", "memoria", w)
      BY <2>2 DEF Hay, km
    <3>2. CASE w = Paquete(op, d) /\ v = Resto(d)
      BY <1>2, <2>3, <3>1, <3>2, PasoMiraPaquete, HilosSon, CanalesSon
    <3>3. ASSUME NEW r \in Seq(Palabras), w = Paquete(op, d) \o r,
                 v = Resto(d) \o r
          PROVE  Va("pedidos_kernel", t, <<"kernel", "memoria">>, v)
      BY <1>2, <2>3, <3>1, <3>3, PasoMiraPaqueteY, HilosSon, CanalesSon
    <3> QED
      BY <3>2, <3>3 DEF Encabeza
  <2>5. Quedan(t, 0) = t
    BY QuedaTodoONada
  <2> QED
    BY <1>2, <2>1, <2>4, <2>5, MemVa, PkMedio DEF En
<1> QED
  BY <1>1, <1>2

\* ... waits when there is none,
LEMMA KmListoQuieto ==
    ASSUME Tipos, MemoriaTermina, KmListo(<<>>),
           NEW h \in {"memoria", "pedidos_kernel"},
           Avanza(h)
    PROVE  SoloMem /\ MemoriaTermina' /\ mk' = mk /\ KmListo(<<>>)'
<1>1. CASE h = "memoria"
  <2>1. <<>> \in Seq(Palabras)
    BY DatosTipos
  <2> QED
    BY <1>1, <2>1, KmListoMemoria
<1>2. CASE h = "pedidos_kernel"
  <2>1. ~SinEmpezar("pedidos_kernel")
    BY <1>2, NoEmpezo
  <2>2. EnBucle("pedidos_kernel") /\ km = <<>>
    BY <2>1 DEF KmListo
  <2>3. TocaUltima("pedidos_kernel",
          mira("kernel", "memoria", "pedidos_kernel"))
    BY <2>2, PedidosKernelToca
  <2>4. Hay("kernel", "memoria", <<>>)
    BY <2>2 DEF Hay, km
  <2> QED
    BY <1>2, <2>3, <2>4, NoHay
<1> QED
  BY <1>1, <1>2

\* ... does nothing while its answer is read,
LEMMA MemRespondioPasa ==
    ASSUME Tipos, MemoriaTermina, NEW w, MemRespondio(w),
           NEW h \in {"memoria", "pedidos_kernel"}, Avanza(h)
    PROVE  SoloMem /\ MemoriaTermina' /\ MemRespondio(w)'
BY KmListoQuieto DEF MemRespondio

\* ... and nothing once it is.
LEMMA MemQuietaPasa ==
    ASSUME Tipos, MemoriaTermina, MemQuieta,
           NEW h \in {"memoria", "pedidos_kernel"},
           Avanza(h)
    PROVE  SoloMem /\ MemoriaTermina' /\ MemQuieta'
BY KmListoQuieto DEF MemQuieta

\* The segment table of a new process.
LEMMA PidePcbPasa ==
    ASSUME Tipos, MemoriaTermina, PidePcb,
           NEW h \in {"memoria", "pedidos_kernel"}, Avanza(h)
    PROVE  SoloMem /\ MemoriaTermina' /\ PidePcb'
<1> DEFINE s == ejecutar_kernel_pedido(Op.AUX_CREATE_PCB)
<1>a. /\ s \in Seq(Llamadas) /\ s # <<>> /\ Op.AUX_CREATE_PCB \in Int
      /\ Entero \in Seq(Palabras) /\ Tabla \in Seq(Palabras)
      /\ Paquete(Op.AUX_CREATE_PCB, Entero) \in Seq(Palabras)
  BY PedidoPcbLlama, Codigos, DatosTipos, PaqueteTipo, SMTT(30)
<1>b. Sigue("pedidos_kernel", Op.AUX_CREATE_PCB) = s
  BY DEF Sigue
<1>1. CASE KmListo(Paquete(Op.AUX_CREATE_PCB, Entero)) /\ mk = <<>>
  <2> HIDE DEF s
  <2>0. Encabeza(Op.AUX_CREATE_PCB, Entero, Paquete(Op.AUX_CREATE_PCB, Entero),
          Resto(Entero))
    BY DEF Encabeza
  <2>1. /\ SoloMem /\ MemoriaTermina' /\ mk' = mk
        /\ \/ KmListo(Paquete(Op.AUX_CREATE_PCB, Entero))'
           \/ En("pedidos_kernel", s, 0)' /\ km' = Resto(Entero)
    BY <2>0, <1>a, <1>b, <1>1, KmListoPide
  <2> QED
    BY <1>1, <2>1 DEF PidePcb, s
<1>2. CASE En("pedidos_kernel", s, 0) /\ km = Resto(Entero) /\ mk = <<>>
  <2>1. Toca("pedidos_kernel", recibeBuffer("kernel", "memoria"), Quedan(s, 1))
    BY <1>2, PedidoPcbToca
  <2>2. ~SinEmpezar("pedidos_kernel")
    BY <2>1, EmpezoYa
  <2>3. h = "pedidos_kernel"
    BY <2>2, PkMedio
  <2>4. Va("pedidos_kernel", Quedan(s, 1), <<"kernel", "memoria">>, <<>>)
    BY <1>2, <2>1, <2>3, <1>a, PasoBufferSolo, CanalesSon DEF Hay, km
  <2> QED
    BY <1>2, <2>2, <2>4, MemVa, PkMedio DEF PidePcb, En
<1>3. CASE En("pedidos_kernel", s, 1) /\ km = <<>> /\ mk = <<>>
  <2>1. Toca("pedidos_kernel", envia("memoria", "kernel", Op.AUX_CREATE_PCB,
          Tabla), Bucle["pedidos_kernel"])
    BY <1>3, PedidoPcbToca
  <2>2. ~SinEmpezar("pedidos_kernel")
    BY <2>1, EmpezoYa
  <2>3. h = "pedidos_kernel"
    BY <2>2, PkMedio
  <2>4. Va("pedidos_kernel", Bucle["pedidos_kernel"], <<"memoria", "kernel">>,
          Paquete(Op.AUX_CREATE_PCB, Tabla))
    BY <1>3, <2>1, <2>3, <1>a, PasoEnviaSolo, CanalesSon DEF Hay, mk
  <2> QED
    BY <1>3, <2>2, <2>4, MemVa, PkMedio DEF PidePcb, MemRespondio
<1>4. CASE MemRespondio(Paquete(Op.AUX_CREATE_PCB, Tabla))
  BY <1>4, MemRespondioPasa DEF PidePcb
<1> QED
  BY <1>1, <1>2, <1>3, <1>4 DEF PidePcb

\* A segment to create: Memoria has the first packet,
LEMMA MitadCrearPasa ==
    ASSUME Tipos, MemoriaTermina, Mitad(Op.I_CREATE_SEGMENT),
           NEW h \in {"memoria", "pedidos_kernel"}, Avanza(h)
    PROVE  SoloMem /\ MemoriaTermina' /\ Mitad(Op.I_CREATE_SEGMENT)'
<1> DEFINE s == ejecutar_kernel_pedido(Op.I_CREATE_SEGMENT)
<1>a. /\ s \in Seq(Llamadas) /\ s # <<>> /\ Op.I_CREATE_SEGMENT \in Int
      /\ Pcb \in Seq(Palabras) /\ Paquete(Op.I_CREATE_SEGMENT,
           Pcb) \in Seq(Palabras)
  <2>1. s \in Seq(Llamadas) /\ Len(s) = 4
    BY PedidoCrearLlama
  <2> HIDE DEF s
  <2>0. Len(s) # 0
    BY <2>1
  <2>2. s # <<>>
    BY <2>1, <2>0, NoVacia
  <2>3. Op.I_CREATE_SEGMENT \in Int /\ Pcb \in Seq(Palabras)
    BY Codigos, DatosTipos
  <2>4. Paquete(Op.I_CREATE_SEGMENT, Pcb) \in Seq(Palabras)
    BY <2>3, PaqueteTipo
  <2> QED
    BY <2>1, <2>2, <2>3, <2>4
<1>b. Sigue("pedidos_kernel", Op.I_CREATE_SEGMENT) = s
  BY DEF Sigue
<1>c. mk = <<>>
  BY DEF Mitad
<1>1. CASE KmListo(Paquete(Op.I_CREATE_SEGMENT, Pcb))
  <2> HIDE DEF s
  <2>0. Encabeza(Op.I_CREATE_SEGMENT, Pcb, Paquete(Op.I_CREATE_SEGMENT, Pcb),
          Resto(Pcb))
    BY DEF Encabeza
  <2>1. /\ SoloMem /\ MemoriaTermina' /\ mk' = mk
        /\ \/ KmListo(Paquete(Op.I_CREATE_SEGMENT, Pcb))'
           \/ En("pedidos_kernel", s, 0)' /\ km' = Resto(Pcb)
    BY <2>0, <1>a, <1>b, <1>1, KmListoPide
  <2> QED
    BY <1>c, <2>1 DEF Mitad, s
<1>2. CASE En("pedidos_kernel", s, 0) /\ km = Resto(Pcb)
  <2>1. Toca("pedidos_kernel", recibeBuffer("kernel", "memoria"), Quedan(s, 1))
    BY <1>2, PedidoCrearToca
  <2>2. ~SinEmpezar("pedidos_kernel")
    BY <2>1, EmpezoYa
  <2>3. h = "pedidos_kernel"
    BY <2>2, PkMedio
  <2>4. Va("pedidos_kernel", Quedan(s, 1), <<"kernel", "memoria">>, <<>>)
    BY <1>2, <2>1, <2>3, <1>a, PasoBufferSolo, CanalesSon DEF Hay, km
  <2> QED
    BY <1>2, <2>2, <2>4, MemVa, PkMedio, <1>c DEF Mitad, En
<1>3. CASE En("pedidos_kernel", s, 1) /\ km = <<>>
  <2>1. Toca("pedidos_kernel", recibe("kernel", "memoria"), Quedan(s, 2))
    BY <1>3, PedidoCrearToca
  <2>2. h = "pedidos_kernel"
    BY <2>1, EmpezoYa, PkMedio
  <2>3. Hay("kernel", "memoria", <<>>)
    BY <1>3 DEF Hay, km
  <2> QED
    BY <2>1, <2>2, <2>3, NoHay
<1> QED
  BY <1>1, <1>2, <1>3 DEF Mitad

\* ... and both.
LEMMA EnteraCrearPasa ==
    ASSUME Tipos, SinOtraRespuesta, MemoriaTermina,
           Entera(Op.I_CREATE_SEGMENT, Entero \o Entero),
           NEW h \in {"memoria", "pedidos_kernel"}, Avanza(h)
    PROVE  /\ SoloMem /\ MemoriaTermina'
           /\ Entera(Op.I_CREATE_SEGMENT, Entero \o Entero)' \/ RespondeCrear'
<1> DEFINE d == Entero \o Entero
           p == Paquete(Op.I_CREATE_SEGMENT, d)
<1> DEFINE s == ejecutar_kernel_pedido(Op.I_CREATE_SEGMENT)
<1>a. /\ s \in Seq(Llamadas) /\ s # <<>> /\ Op.I_CREATE_SEGMENT \in Int
      /\ Pcb \in Seq(Palabras) /\ Paquete(Op.I_CREATE_SEGMENT,
           Pcb) \in Seq(Palabras)
  <2>1. s \in Seq(Llamadas) /\ Len(s) = 4
    BY PedidoCrearLlama
  <2> HIDE DEF s
  <2>0. Len(s) # 0
    BY <2>1
  <2>2. s # <<>>
    BY <2>1, <2>0, NoVacia
  <2>3. Op.I_CREATE_SEGMENT \in Int /\ Pcb \in Seq(Palabras)
    BY Codigos, DatosTipos
  <2>4. Paquete(Op.I_CREATE_SEGMENT, Pcb) \in Seq(Palabras)
    BY <2>3, PaqueteTipo
  <2> QED
    BY <2>1, <2>2, <2>3, <2>4
<1>b. Sigue("pedidos_kernel", Op.I_CREATE_SEGMENT) = s
  BY DEF Sigue
<1>c. mk = <<>>
  BY DEF Entera
<1>d. d \in Seq(Palabras) /\ p \in Seq(Palabras) /\ Tabla \in Seq(Palabras)
      /\ Paquete(Op.I_CREATE_SEGMENT, Pcb) \o p \in Seq(Palabras)
           /\ Op.AUX_OK \in Int
  <2>1. d \in Seq(Palabras) /\ Tabla \in Seq(Palabras) /\ Op.AUX_OK \in Int
    BY TresMas, DatosTipos, Codigos
  <2> HIDE DEF d
  <2>2. p \in Seq(Palabras)
    BY <1>a, <2>1, PaqueteTipo
  <2> HIDE DEF p
  <2>3. Paquete(Op.I_CREATE_SEGMENT, Pcb) \o p \in Seq(Palabras)
    BY <1>a, <2>2
  <2> QED
    BY <2>1, <2>2, <2>3
<1> HIDE DEF d, p
<1>1. CASE KmListo(Paquete(Op.I_CREATE_SEGMENT, Pcb) \o p)
  <2> HIDE DEF s
  <2>0. Encabeza(Op.I_CREATE_SEGMENT, Pcb,
          Paquete(Op.I_CREATE_SEGMENT, Pcb) \o p, Resto(Pcb) \o p)
    BY <1>d DEF Encabeza
  <2>1. /\ SoloMem /\ MemoriaTermina' /\ mk' = mk
        /\ \/ KmListo(Paquete(Op.I_CREATE_SEGMENT, Pcb) \o p)'
           \/ En("pedidos_kernel", s, 0)' /\ km' = Resto(Pcb) \o p
    BY <2>0, <1>a, <1>b, <1>d, <1>1, KmListoPide
  <2> QED
    BY <1>c, <2>1 DEF Entera, s, d, p
<1>2. CASE En("pedidos_kernel", s, 0) /\ km = Resto(Pcb) \o p
  <2>1. Toca("pedidos_kernel", recibeBuffer("kernel", "memoria"), Quedan(s, 1))
    BY <1>2, PedidoCrearToca
  <2>2. ~SinEmpezar("pedidos_kernel")
    BY <2>1, EmpezoYa
  <2>3. h = "pedidos_kernel"
    BY <2>2, PkMedio
  <2>4. Va("pedidos_kernel", Quedan(s, 1), <<"kernel", "memoria">>, p)
    BY <1>2, <2>1, <2>3, <1>a, <1>d, PasoBuffer, CanalesSon DEF Hay, km
  <2> QED
    BY <1>2, <2>2, <2>4, MemVa, PkMedio, <1>c DEF Entera, En, d, p
<1>3. CASE En("pedidos_kernel", s, 1) /\ km = p
  <2>1. Toca("pedidos_kernel", recibe("kernel", "memoria"), Quedan(s, 2))
    BY <1>3, PedidoCrearToca
  <2>2. ~SinEmpezar("pedidos_kernel")
    BY <2>1, EmpezoYa
  <2>3. h = "pedidos_kernel"
    BY <2>2, PkMedio
  <2>4. Va("pedidos_kernel", Quedan(s, 2), <<"kernel", "memoria">>, Resto(d))
    BY <1>3, <2>1, <2>3, <1>a, <1>d, PasoRecibePaquete, CanalesSon
       DEF Hay, km, p
  <2> QED
    BY <1>3, <2>2, <2>4, MemVa, PkMedio, <1>c DEF Entera, En, d
<1>4. CASE En("pedidos_kernel", s, 2) /\ km = Resto(d)
  <2>1. Toca("pedidos_kernel", recibeBuffer("kernel", "memoria"), Quedan(s, 3))
    BY <1>4, PedidoCrearToca
  <2>2. ~SinEmpezar("pedidos_kernel")
    BY <2>1, EmpezoYa
  <2>3. h = "pedidos_kernel"
    BY <2>2, PkMedio
  <2>4. Va("pedidos_kernel", Quedan(s, 3), <<"kernel", "memoria">>, <<>>)
    BY <1>4, <2>1, <2>3, <1>d, PasoBufferSolo, CanalesSon DEF Hay, km
  <2> QED
    BY <1>4, <2>2, <2>4, MemVa, PkMedio, <1>c DEF Entera, En, d
<1>5. CASE En("pedidos_kernel", s, 3) /\ km = <<>>
  <2>1. TocaUltima("pedidos_kernel", elige("crear_segmento"))
    BY <1>5, PedidoCrearToca
  <2>2. ~SinEmpezar("pedidos_kernel")
    BY <2>1, EmpezoYa
  <2>3. h = "pedidos_kernel"
    BY <2>2, PkMedio
  <2>4. Opciones("crear_segmento") = {crear_segmento(r) : r \in Creaciones}
    BY DEF Opciones
  <2>5. ASSUME NEW o \in Opciones("crear_segmento")
        PROVE  o \in Seq(Llamadas) /\ o # <<>>
                 /\ \E r \in Creaciones : o = crear_segmento(r)
    <3>1. PICK r \in Creaciones : o = crear_segmento(r)
      BY <2>4
    <3>2. r \in Int
      BY Codigos DEF SinOtraRespuesta
    <3> QED
      BY <3>1, <3>2, CrearSegmentoLlama, NoVacia
  <2>6. /\ Tipos' /\ UNCHANGED Resto4 /\ canal' = canal
        /\ \E o \in Opciones("crear_segmento") : HiloPasa("pedidos_kernel", o)
    BY <2>1, <2>3, <2>5, PasoElige, HilosSon
  <2>7. PICK r \in Creaciones : HiloPasa("pedidos_kernel", crear_segmento(r))
    BY <2>4, <2>6
  <2>8. /\ por'["pedidos_kernel"] = crear_segmento(r)
             /\ por'["memoria"] = por["memoria"]
        /\ \A g \in Hilos \ {"memoria", "pedidos_kernel"} : por'[g] = por[g]
    BY <2>7, HilosSon DEF HiloPasa
  <2>9. SoloMem /\ km' = <<>> /\ mk' = <<>>
    BY <1>5, <1>c, <2>6, <2>8
       DEF SoloMem, IgualKC, IgualKF, IgualCM, IgualFM, IgualCF, kc, ck, kf, fk,
           km, mk, cm, mc, fm, mf, cf, fc
  <2>10. crear_segmento(r) \in Seq(Llamadas)
    BY <2>4, <2>5
  <2>11. En("pedidos_kernel", crear_segmento(r), 0)'
    BY <2>8, <2>10, QuedaTodoONada DEF En
  <2> QED
    BY <2>2, <2>8, <2>9, <2>11, PkMedio DEF RespondeCrear
<1> QED
  BY <1>1, <1>2, <1>3, <1>4, <1>5 DEF Entera, d, p

\* A segment to delete: Memoria has the first packet,
LEMMA MitadBorrarPasa ==
    ASSUME Tipos, MemoriaTermina, Mitad(Op.I_DELETE_SEGMENT),
           NEW h \in {"memoria", "pedidos_kernel"}, Avanza(h)
    PROVE  SoloMem /\ MemoriaTermina' /\ Mitad(Op.I_DELETE_SEGMENT)'
<1> DEFINE s == ejecutar_kernel_pedido(Op.I_DELETE_SEGMENT)
<1>a. /\ s \in Seq(Llamadas) /\ s # <<>> /\ Op.I_DELETE_SEGMENT \in Int
      /\ Pcb \in Seq(Palabras) /\ Paquete(Op.I_DELETE_SEGMENT,
           Pcb) \in Seq(Palabras)
  <2>1. s \in Seq(Llamadas) /\ Len(s) = 4
    BY PedidoBorrarLlama
  <2> HIDE DEF s
  <2>0. Len(s) # 0
    BY <2>1
  <2>2. s # <<>>
    BY <2>1, <2>0, NoVacia
  <2>3. Op.I_DELETE_SEGMENT \in Int /\ Pcb \in Seq(Palabras)
    BY Codigos, DatosTipos
  <2>4. Paquete(Op.I_DELETE_SEGMENT, Pcb) \in Seq(Palabras)
    BY <2>3, PaqueteTipo
  <2> QED
    BY <2>1, <2>2, <2>3, <2>4
<1>b. Sigue("pedidos_kernel", Op.I_DELETE_SEGMENT) = s
  BY DEF Sigue
<1>c. mk = <<>>
  BY DEF Mitad
<1>1. CASE KmListo(Paquete(Op.I_DELETE_SEGMENT, Pcb))
  <2> HIDE DEF s
  <2>0. Encabeza(Op.I_DELETE_SEGMENT, Pcb, Paquete(Op.I_DELETE_SEGMENT, Pcb),
          Resto(Pcb))
    BY DEF Encabeza
  <2>1. /\ SoloMem /\ MemoriaTermina' /\ mk' = mk
        /\ \/ KmListo(Paquete(Op.I_DELETE_SEGMENT, Pcb))'
           \/ En("pedidos_kernel", s, 0)' /\ km' = Resto(Pcb)
    BY <2>0, <1>a, <1>b, <1>1, KmListoPide
  <2> QED
    BY <1>c, <2>1 DEF Mitad, s
<1>2. CASE En("pedidos_kernel", s, 0) /\ km = Resto(Pcb)
  <2>1. Toca("pedidos_kernel", recibeBuffer("kernel", "memoria"), Quedan(s, 1))
    BY <1>2, PedidoBorrarToca
  <2>2. ~SinEmpezar("pedidos_kernel")
    BY <2>1, EmpezoYa
  <2>3. h = "pedidos_kernel"
    BY <2>2, PkMedio
  <2>4. Va("pedidos_kernel", Quedan(s, 1), <<"kernel", "memoria">>, <<>>)
    BY <1>2, <2>1, <2>3, <1>a, PasoBufferSolo, CanalesSon DEF Hay, km
  <2> QED
    BY <1>2, <2>2, <2>4, MemVa, PkMedio, <1>c DEF Mitad, En
<1>3. CASE En("pedidos_kernel", s, 1) /\ km = <<>>
  <2>1. Toca("pedidos_kernel", recibe("kernel", "memoria"), Quedan(s, 2))
    BY <1>3, PedidoBorrarToca
  <2>2. h = "pedidos_kernel"
    BY <2>1, EmpezoYa, PkMedio
  <2>3. Hay("kernel", "memoria", <<>>)
    BY <1>3 DEF Hay, km
  <2> QED
    BY <2>1, <2>2, <2>3, NoHay
<1> QED
  BY <1>1, <1>2, <1>3 DEF Mitad

\* ... and both.
LEMMA EnteraBorrarPasa ==
    ASSUME Tipos, MemoriaTermina, Entera(Op.I_DELETE_SEGMENT, Entero),
           NEW h \in {"memoria", "pedidos_kernel"}, Avanza(h)
    PROVE  /\ SoloMem /\ MemoriaTermina'
           /\ Entera(Op.I_DELETE_SEGMENT, Entero)'
                \/ MemRespondio(Paquete(Op.AUX_OK, Tabla))'
<1> DEFINE d == Entero
           p == Paquete(Op.I_DELETE_SEGMENT, d)
<1> DEFINE s == ejecutar_kernel_pedido(Op.I_DELETE_SEGMENT)
<1>a. /\ s \in Seq(Llamadas) /\ s # <<>> /\ Op.I_DELETE_SEGMENT \in Int
      /\ Pcb \in Seq(Palabras) /\ Paquete(Op.I_DELETE_SEGMENT,
           Pcb) \in Seq(Palabras)
  <2>1. s \in Seq(Llamadas) /\ Len(s) = 4
    BY PedidoBorrarLlama
  <2> HIDE DEF s
  <2>0. Len(s) # 0
    BY <2>1
  <2>2. s # <<>>
    BY <2>1, <2>0, NoVacia
  <2>3. Op.I_DELETE_SEGMENT \in Int /\ Pcb \in Seq(Palabras)
    BY Codigos, DatosTipos
  <2>4. Paquete(Op.I_DELETE_SEGMENT, Pcb) \in Seq(Palabras)
    BY <2>3, PaqueteTipo
  <2> QED
    BY <2>1, <2>2, <2>3, <2>4
<1>b. Sigue("pedidos_kernel", Op.I_DELETE_SEGMENT) = s
  BY DEF Sigue
<1>c. mk = <<>>
  BY DEF Entera
<1>d. d \in Seq(Palabras) /\ p \in Seq(Palabras) /\ Tabla \in Seq(Palabras)
      /\ Paquete(Op.I_DELETE_SEGMENT, Pcb) \o p \in Seq(Palabras)
           /\ Op.AUX_OK \in Int
  <2>1. d \in Seq(Palabras) /\ Tabla \in Seq(Palabras) /\ Op.AUX_OK \in Int
    BY TresMas, DatosTipos, Codigos
  <2> HIDE DEF d
  <2>2. p \in Seq(Palabras)
    BY <1>a, <2>1, PaqueteTipo
  <2> HIDE DEF p
  <2>3. Paquete(Op.I_DELETE_SEGMENT, Pcb) \o p \in Seq(Palabras)
    BY <1>a, <2>2
  <2> QED
    BY <2>1, <2>2, <2>3
<1> HIDE DEF d, p
<1>1. CASE KmListo(Paquete(Op.I_DELETE_SEGMENT, Pcb) \o p)
  <2> HIDE DEF s
  <2>0. Encabeza(Op.I_DELETE_SEGMENT, Pcb,
          Paquete(Op.I_DELETE_SEGMENT, Pcb) \o p, Resto(Pcb) \o p)
    BY <1>d DEF Encabeza
  <2>1. /\ SoloMem /\ MemoriaTermina' /\ mk' = mk
        /\ \/ KmListo(Paquete(Op.I_DELETE_SEGMENT, Pcb) \o p)'
           \/ En("pedidos_kernel", s, 0)' /\ km' = Resto(Pcb) \o p
    BY <2>0, <1>a, <1>b, <1>d, <1>1, KmListoPide
  <2> QED
    BY <1>c, <2>1 DEF Entera, s, d, p
<1>2. CASE En("pedidos_kernel", s, 0) /\ km = Resto(Pcb) \o p
  <2>1. Toca("pedidos_kernel", recibeBuffer("kernel", "memoria"), Quedan(s, 1))
    BY <1>2, PedidoBorrarToca
  <2>2. ~SinEmpezar("pedidos_kernel")
    BY <2>1, EmpezoYa
  <2>3. h = "pedidos_kernel"
    BY <2>2, PkMedio
  <2>4. Va("pedidos_kernel", Quedan(s, 1), <<"kernel", "memoria">>, p)
    BY <1>2, <2>1, <2>3, <1>a, <1>d, PasoBuffer, CanalesSon DEF Hay, km
  <2> QED
    BY <1>2, <2>2, <2>4, MemVa, PkMedio, <1>c DEF Entera, En, d, p
<1>3. CASE En("pedidos_kernel", s, 1) /\ km = p
  <2>1. Toca("pedidos_kernel", recibe("kernel", "memoria"), Quedan(s, 2))
    BY <1>3, PedidoBorrarToca
  <2>2. ~SinEmpezar("pedidos_kernel")
    BY <2>1, EmpezoYa
  <2>3. h = "pedidos_kernel"
    BY <2>2, PkMedio
  <2>4. Va("pedidos_kernel", Quedan(s, 2), <<"kernel", "memoria">>, Resto(d))
    BY <1>3, <2>1, <2>3, <1>a, <1>d, PasoRecibePaquete, CanalesSon
       DEF Hay, km, p
  <2> QED
    BY <1>3, <2>2, <2>4, MemVa, PkMedio, <1>c DEF Entera, En, d
<1>4. CASE En("pedidos_kernel", s, 2) /\ km = Resto(d)
  <2>1. Toca("pedidos_kernel", recibeBuffer("kernel", "memoria"), Quedan(s, 3))
    BY <1>4, PedidoBorrarToca
  <2>2. ~SinEmpezar("pedidos_kernel")
    BY <2>1, EmpezoYa
  <2>3. h = "pedidos_kernel"
    BY <2>2, PkMedio
  <2>4. Va("pedidos_kernel", Quedan(s, 3), <<"kernel", "memoria">>, <<>>)
    BY <1>4, <2>1, <2>3, <1>d, PasoBufferSolo, CanalesSon DEF Hay, km
  <2> QED
    BY <1>4, <2>2, <2>4, MemVa, PkMedio, <1>c DEF Entera, En, d
<1>5. CASE En("pedidos_kernel", s, 3) /\ km = <<>>
  <2>1. Toca("pedidos_kernel", envia("memoria", "kernel", Op.AUX_OK, Tabla),
          Bucle["pedidos_kernel"])
    BY <1>5, PedidoBorrarToca
  <2>2. ~SinEmpezar("pedidos_kernel")
    BY <2>1, EmpezoYa
  <2>3. h = "pedidos_kernel"
    BY <2>2, PkMedio
  <2>4. Va("pedidos_kernel", Bucle["pedidos_kernel"], <<"memoria", "kernel">>,
          Paquete(Op.AUX_OK, Tabla))
    BY <1>5, <2>1, <2>3, <1>c, <1>d, PasoEnviaSolo, CanalesSon DEF Hay, mk
  <2> QED
    BY <1>5, <2>2, <2>4, MemVa, PkMedio, <1>c DEF MemRespondio
<1> QED
  BY <1>1, <1>2, <1>3, <1>4, <1>5 DEF Entera, d, p

\* The result of creating a segment.
LEMMA RespondeCrearPasa ==
    ASSUME Tipos, SinOtraRespuesta, MemoriaTermina, RespondeCrear,
           NEW h \in {"memoria", "pedidos_kernel"}, Avanza(h)
    PROVE  SoloMem /\ MemoriaTermina' /\ RespondeCrear'
<1>1. ASSUME NEW r \in Creaciones, En("pedidos_kernel", crear_segmento(r), 0),
             km = <<>>, mk = <<>>
      PROVE  SoloMem /\ MemoriaTermina' /\ RespondeCrear'
  <2>1. r \in Int /\ DatosDe(r) \in Seq(Palabras)
    BY Codigos, TresMas DEF SinOtraRespuesta
  <2>2. Toca("pedidos_kernel", envia("memoria", "kernel", r, DatosDe(r)),
          Bucle["pedidos_kernel"])
    BY <1>1, <2>1, CrearSegmentoToca
  <2>3. ~SinEmpezar("pedidos_kernel")
    BY <2>2, EmpezoYa
  <2>4. h = "pedidos_kernel"
    BY <2>3, PkMedio
  <2>5. Va("pedidos_kernel", Bucle["pedidos_kernel"], <<"memoria", "kernel">>,
          Paquete(r, DatosDe(r)))
    BY <1>1, <2>1, <2>2, <2>4, PasoEnviaSolo, CanalesSon DEF Hay, mk
  <2> QED
    BY <1>1, <2>3, <2>5, MemVa, PkMedio DEF RespondeCrear, MemRespondio
<1>2. ASSUME NEW r \in Creaciones, MemRespondio(Paquete(r, DatosDe(r)))
      PROVE  SoloMem /\ MemoriaTermina' /\ RespondeCrear'
  BY <1>2, MemRespondioPasa DEF RespondeCrear
<1> QED
  BY <1>1, <1>2 DEF RespondeCrear

\* The compaction.
LEMMA MemCompactaPasa ==
    ASSUME Tipos, MemoriaTermina, NEW r \in Seq(Palabras), MemCompacta(r),
           NEW h \in {"memoria", "pedidos_kernel"}, Avanza(h)
    PROVE  SoloMem /\ MemoriaTermina' /\ MemCompacta(r)'
<1> DEFINE s == Compactar
<1>a. /\ s \in Seq(Llamadas) /\ s # <<>> /\ Op.COMPACTACION \in Int
           /\ Op.AUX_OK \in Int
      /\ <<>> \in Seq(Palabras) /\ Tabla \in Seq(Palabras)
      /\ Paquete(Op.COMPACTACION, <<>>) \in Seq(Palabras)
  <2>1. s \in Seq(Llamadas) /\ Len(s) = 2
    BY CompactarLlama
  <2> HIDE DEF s
  <2>0. Len(s) # 0
    BY <2>1
  <2>2. s # <<>>
    BY <2>1, <2>0, NoVacia
  <2>3. /\ Op.COMPACTACION \in Int /\ Op.AUX_OK \in Int
        /\ <<>> \in Seq(Palabras) /\ Tabla \in Seq(Palabras)
    BY Codigos, DatosTipos
  <2>4. Paquete(Op.COMPACTACION, <<>>) \in Seq(Palabras)
    BY <2>3, PaqueteTipo
  <2> QED
    BY <2>1, <2>2, <2>3, <2>4
<1>b. Sigue("pedidos_kernel", Op.COMPACTACION) = s
  BY DEF Sigue, ejecutar_kernel_pedido, Op
<1>1. CASE KmListo(Paquete(Op.COMPACTACION, <<>>)) /\ mk = r
  <2> HIDE DEF s
  <2>0. Encabeza(Op.COMPACTACION, <<>>, Paquete(Op.COMPACTACION, <<>>),
          Resto(<<>>))
    BY DEF Encabeza
  <2>1. /\ SoloMem /\ MemoriaTermina' /\ mk' = mk
        /\ \/ KmListo(Paquete(Op.COMPACTACION, <<>>))'
           \/ En("pedidos_kernel", s, 0)' /\ km' = Resto(<<>>)
    BY <2>0, <1>a, <1>b, <1>1, KmListoPide
  <2> QED
    BY <1>1, <2>1 DEF MemCompacta, s
<1>2. CASE En("pedidos_kernel", s, 0) /\ km = Resto(<<>>) /\ mk = r
  <2>1. Toca("pedidos_kernel", recibe("kernel", "memoria"), Quedan(s, 1))
    BY <1>2, CompactarToca
  <2>2. ~SinEmpezar("pedidos_kernel")
    BY <2>1, EmpezoYa
  <2>3. h = "pedidos_kernel"
    BY <2>2, PkMedio
  <2>4. Va("pedidos_kernel", Quedan(s, 1), <<"kernel", "memoria">>, <<>>)
    BY <1>2, <2>1, <2>3, <1>a, PasoRecibeResto, CanalesSon DEF Hay, km
  <2> QED
    BY <1>2, <2>2, <2>4, MemVa, PkMedio DEF MemCompacta, En
<1>3. CASE En("pedidos_kernel", s, 1) /\ km = <<>> /\ mk = r
  <2>1. Toca("pedidos_kernel", envia("memoria", "kernel", Op.AUX_OK, Tabla),
          Bucle["pedidos_kernel"])
    BY <1>3, CompactarToca
  <2>2. ~SinEmpezar("pedidos_kernel")
    BY <2>1, EmpezoYa
  <2>3. h = "pedidos_kernel"
    BY <2>2, PkMedio
  <2>4. Va("pedidos_kernel", Bucle["pedidos_kernel"], <<"memoria", "kernel">>,
          r \o Paquete(Op.AUX_OK, Tabla))
    BY <1>3, <2>1, <2>3, <1>a, PasoEnvia, CanalesSon DEF Hay, mk
  <2> QED
    BY <1>3, <2>2, <2>4, MemVa, PkMedio DEF MemCompacta, MemRespondio
<1>4. CASE MemRespondio(r \o Paquete(Op.AUX_OK, Tabla))
  BY <1>4, MemRespondioPasa DEF MemCompacta
<1> QED
  BY <1>1, <1>2, <1>3, <1>4 DEF MemCompacta
-----------------------------------------------------------------------------
(* The threads of the kernel, and what they leave alone *)

\* pthread_mutex_lock,
LEMMA PasoTomar ==
    ASSUME Tipos, NEW h \in Hilos, NEW y, Toca(h, solo("lock"), y), Avanza(h)
    PROVE  /\ Tipos' /\ canal' = canal /\ HiloPasa(h, y)
           /\ mutex_memoria = Nadie /\ mutex_memoria' = h
<1>1. Ahora(h) = solo("lock") /\ (SigueCon(h, <<>>) => HiloPasa(h, y))
  BY DEF Toca
<1>2. Ahora(h).paso = "lock"
  BY <1>1 DEF solo
<1>3. Lock(h)
  BY <1>2, QueLlama
<1>4. HiloPasa(h, y) /\ canal' = canal
  BY <1>1, <1>3 DEF Lock
<1> QED
  BY <1>3, <1>4 DEF Lock, Tipos, HiloPasa

\* ... pthread_mutex_unlock
LEMMA PasoSoltar ==
    ASSUME Tipos, NEW h \in Hilos, NEW y, Toca(h, solo("unlock"), y), Avanza(h)
    PROVE  /\ Tipos' /\ canal' = canal /\ HiloPasa(h, y)
           /\ mutex_memoria' = Nadie
<1>1. Ahora(h) = solo("unlock") /\ (SigueCon(h, <<>>) => HiloPasa(h, y))
  BY DEF Toca
<1>2. Ahora(h).paso = "unlock"
  BY <1>1 DEF solo
<1>3. Unlock(h)
  BY <1>2, QueLlama
<1>4. HiloPasa(h, y) /\ canal' = canal
  BY <1>1, <1>3 DEF Unlock
<1> QED
  BY <1>3, <1>4 DEF Unlock, Tipos, HiloPasa

\* ... and sem_wait.
LEMMA PasoConsola ==
    ASSUME Tipos, NEW h \in Hilos, NEW y, Toca(h, solo("sem_wait"), y),
           Avanza(h)
    PROVE  /\ Tipos' /\ canal' = canal /\ HiloPasa(h, y)
           /\ mutex_memoria' = mutex_memoria
<1>1. Ahora(h) = solo("sem_wait") /\ (SigueCon(h, <<>>) => HiloPasa(h, y))
  BY DEF Toca
<1>2. Ahora(h).paso = "sem_wait"
  BY <1>1 DEF solo
<1>3. SemWait(h)
  BY <1>2, QueLlama
<1>4. HiloPasa(h, y) /\ canal' = canal
  BY <1>1, <1>3 DEF SemWait
<1>5. inicializar' \in Nat
  BY <1>3 DEF SemWait, Tipos
<1> QED
  BY <1>3, <1>4, <1>5 DEF SemWait, Tipos, HiloPasa

\* What each part of the system is made of.
IgualCpu ==
    /\ por'["cpu"] = por["cpu"] /\ por'["pedidos_cpu"] = por["pedidos_cpu"]
    /\ IgualKC /\ IgualCM
IgualFs == por'["fs"] = por["fs"] /\ IgualKF
IgualPedidosFs == por'["pedidos_fs"] = por["pedidos_fs"] /\ IgualFM
IgualMem ==
    /\ por'["memoria"] = por["memoria"]
    /\ por'["pedidos_kernel"] = por["pedidos_kernel"] /\ IgualKM

\* What is said of the CPU holds while nothing of it changes.
LEMMA CpuIgual ==
    ASSUME IgualCpu
    PROVE  /\ CpuAtiende => CpuAtiende'
           /\ CpuQuieta => CpuQuieta'
           /\ PedidosCpuQuieto => PedidosCpuQuieto'
           /\ EnBucle("cpu") => EnBucle("cpu")'
<1>1. PedidosCpuQuieto <=> PedidosCpuQuieto'
  BY DEF IgualCpu, PedidosCpuQuieto, EnBucle, IgualCM
<1>2. EnBucle("cpu") <=> EnBucle("cpu")'
  BY DEF IgualCpu, EnBucle
<1>3. CpuQuieta => CpuQuieta'
  BY <1>1, <1>2
     DEF IgualCpu, CpuQuieta, Quieto, DelKernel, AlKernel, IgualKC, kc, ck
<1>4. \A op, d : CpuPide(op, d) <=> CpuPide(op, d)'
  BY DEF IgualCpu, CpuPide, EnBucle, En, IgualCM
<1>5. Ejecuta => Ejecuta'
  BY <1>1, <1>4 DEF IgualCpu, Ejecuta, EnBucle, En, IgualCM, IgualKC
<1>6. CpuAtiende => CpuAtiende'
  BY <1>1, <1>2, <1>5 DEF CpuAtiende, IgualCpu, IgualKC, En
<1> QED
  BY <1>1, <1>2, <1>3, <1>6

\* The same of the FileSystem,
LEMMA FsIgual ==
    ASSUME IgualFs
    PROVE  /\ FsQuieto => FsQuieto'
           /\ FsRespondio => FsRespondio'
           /\ \A op, d : FsAtiende(op, d) => FsAtiende(op, d)'
<1>1. EnBucle("fs") <=> EnBucle("fs")'
  BY DEF IgualFs, EnBucle
<1>2. FsQuieto => FsQuieto'
  BY <1>1 DEF FsQuieto, Quieto, DelKernel, AlKernel, IgualFs, IgualKF, kf, fk
<1>3. FsRespondio => FsRespondio'
  BY <1>1 DEF FsRespondio, IgualFs, IgualKF
<1>4. ASSUME NEW op, NEW d, FsAtiende(op, d)
      PROVE  FsAtiende(op, d)'
  BY <1>1, <1>4 DEF FsAtiende, En, IgualFs, IgualKF
<1> QED
  BY <1>2, <1>3, <1>4

\* ... of the thread of Memoria for it,
LEMMA PedidosFsIgual ==
    ASSUME IgualPedidosFs
    PROVE  PedidosFs => PedidosFs'
BY DEF IgualPedidosFs, PedidosFs, IgualFM, EnBucle, En

\* ... and of the thread of Memoria for the kernel.
LEMMA MemIgual ==
    ASSUME IgualMem
    PROVE  /\ \A w : KmListo(w) => KmListo(w)'
           /\ \A w : MemRespondio(w) => MemRespondio(w)'
           /\ MemQuieta => MemQuieta'
           /\ PidePcb => PidePcb'
           /\ \A op : Mitad(op) => Mitad(op)'
           /\ \A op, d : Entera(op, d) => Entera(op, d)'
           /\ RespondeCrear => RespondeCrear'
           /\ \A r : MemCompacta(r) => MemCompacta(r)'
           /\ MemoriaTermina => MemoriaTermina'
<1>1. \A w : KmListo(w) <=> KmListo(w)'
  BY DEF IgualMem, IgualKM, KmListo, EnBucle, SinEmpezar, Saluda, Atiende, En,
         Ahora
<1>2. km' = km /\ mk' = mk
  BY DEF IgualMem, IgualKM
<1>3. \A w : MemRespondio(w) <=> MemRespondio(w)'
  BY <1>1, <1>2 DEF MemRespondio
<1>4. \A s, k : En("pedidos_kernel", s, k) <=> En("pedidos_kernel", s, k)'
  BY DEF En, IgualMem
<1>5. MemoriaTermina => MemoriaTermina'
  BY DEF MemoriaTermina, IgualMem, SinEmpezar, Ahora
<1>6. MemQuieta => MemQuieta'
  BY <1>1, <1>2 DEF MemQuieta
<1>7. PidePcb => PidePcb'
  BY <1>1, <1>2, <1>3, <1>4 DEF PidePcb
<1>8. \A op : Mitad(op) => Mitad(op)'
  BY <1>1, <1>2, <1>4 DEF Mitad
<1>9. \A op, d : Entera(op, d) => Entera(op, d)'
  BY <1>1, <1>2, <1>4 DEF Entera
<1>10. RespondeCrear => RespondeCrear'
  BY <1>2, <1>3, <1>4 DEF RespondeCrear
<1>11. \A r : MemCompacta(r) => MemCompacta(r)'
  BY <1>1, <1>2, <1>3, <1>4 DEF MemCompacta
<1> QED
  BY <1>1, <1>3, <1>5, <1>6, <1>7, <1>8, <1>9, <1>10, <1>11

\* Thread h of the kernel does something, and is left with y.
Suyo(h, y) ==
    /\ Tipos' /\ por'[h] = y /\ IgualCF /\ IgualPedidosFs
    /\ por'["kernel"] = por["kernel"]
    /\ \A g \in {"ready", "desalojo"} \ {h} : por'[g] = por[g]
MismoMutex == mutex_memoria' = mutex_memoria

\* What a call of a thread of the kernel on a connection leaves alone,
LEMMA KernelVa ==
    ASSUME NEW h \in {"ready", "desalojo"}, NEW y, NEW w
    PROVE  /\ Va(h, y, <<"kernel", "cpu">>, w) =>
                 /\ Suyo(h, y) /\ MismoMutex /\ IgualFs /\ IgualMem /\ IgualCM
                 /\ kc' = w /\ ck' = ck
                 /\ por'["cpu"] = por["cpu"]
                      /\ por'["pedidos_cpu"] = por["pedidos_cpu"]
           /\ Va(h, y, <<"cpu", "kernel">>, w) =>
                 /\ Suyo(h, y) /\ MismoMutex /\ IgualFs /\ IgualMem /\ IgualCM
                 /\ kc' = kc /\ ck' = w
                 /\ por'["cpu"] = por["cpu"]
                      /\ por'["pedidos_cpu"] = por["pedidos_cpu"]
           /\ Va(h, y, <<"kernel", "fs">>, w) =>
                 /\ Suyo(h, y) /\ MismoMutex /\ IgualCpu /\ IgualMem
                 /\ kf' = w /\ fk' = fk /\ por'["fs"] = por["fs"]
           /\ Va(h, y, <<"fs", "kernel">>, w) =>
                 /\ Suyo(h, y) /\ MismoMutex /\ IgualCpu /\ IgualMem
                 /\ kf' = kf /\ fk' = w /\ por'["fs"] = por["fs"]
           /\ Va(h, y, <<"kernel", "memoria">>, w) =>
                 /\ Suyo(h, y) /\ MismoMutex /\ IgualCpu /\ IgualFs /\ km' = w
                      /\ mk' = mk
                 /\ por'["memoria"] = por["memoria"]
                 /\ por'["pedidos_kernel"] = por["pedidos_kernel"]
           /\ Va(h, y, <<"memoria", "kernel">>, w) =>
                 /\ Suyo(h, y) /\ MismoMutex /\ IgualCpu /\ IgualFs /\ km' = km
                      /\ mk' = w
                 /\ por'["memoria"] = por["memoria"]
                 /\ por'["pedidos_kernel"] = por["pedidos_kernel"]
<1> DEFINE Yo == /\ Tipos' /\ MismoMutex /\ por'[h] = y
                      /\ por'["kernel"] = por["kernel"]
                 /\ \A g \in {"ready", "desalojo"} \ {h} : por'[g] = por[g]
           Otros == /\ por'["cpu"] = por["cpu"]
                         /\ por'["pedidos_cpu"] = por["pedidos_cpu"]
                    /\ por'["fs"] = por["fs"]
                         /\ por'["pedidos_fs"] = por["pedidos_fs"]
                    /\ por'["memoria"] = por["memoria"]
                    /\ por'["pedidos_kernel"] = por["pedidos_kernel"]
<1>1. ASSUME NEW c, Va(h, y, c, w)
      PROVE  Yo /\ Otros /\ CanalPasa(c, w)
  BY <1>1, HilosSon DEF Va, HiloPasa, MismoMutex, Resto4
<1>8. Yo /\ IgualCF /\ IgualPedidosFs => Suyo(h, y) /\ MismoMutex
  BY DEF Suyo
<1> HIDE DEF Yo
<1>2. ASSUME Va(h, y, <<"kernel", "cpu">>, w)
      PROVE  /\ Suyo(h, y) /\ MismoMutex /\ IgualFs /\ IgualMem /\ IgualCM
             /\ kc' = w /\ ck' = ck
             /\ por'["cpu"] = por["cpu"]
                  /\ por'["pedidos_cpu"] = por["pedidos_cpu"]
  <2>1. Yo /\ Otros /\ CanalPasa(<<"kernel", "cpu">>, w)
    BY <1>1, <1>2
  <2>2. kc' = w /\ ck' = ck /\ IgualKF /\ IgualKM /\ IgualCM /\ IgualFM
          /\ IgualCF
    BY <2>1, CanalesDe
  <2> QED
    BY <1>8, <2>1, <2>2 DEF IgualPedidosFs, IgualFs, IgualMem
<1>3. ASSUME Va(h, y, <<"cpu", "kernel">>, w)
      PROVE  /\ Suyo(h, y) /\ MismoMutex /\ IgualFs /\ IgualMem /\ IgualCM
             /\ kc' = kc /\ ck' = w
             /\ por'["cpu"] = por["cpu"]
                  /\ por'["pedidos_cpu"] = por["pedidos_cpu"]
  <2>1. Yo /\ Otros /\ CanalPasa(<<"cpu", "kernel">>, w)
    BY <1>1, <1>3
  <2>2. ck' = w /\ kc' = kc /\ IgualKF /\ IgualKM /\ IgualCM /\ IgualFM
          /\ IgualCF
    BY <2>1, CanalesDe
  <2> QED
    BY <1>8, <2>1, <2>2 DEF IgualPedidosFs, IgualFs, IgualMem
<1>4. ASSUME Va(h, y, <<"kernel", "fs">>, w)
      PROVE  /\ Suyo(h, y) /\ MismoMutex /\ IgualCpu /\ IgualMem
             /\ kf' = w /\ fk' = fk /\ por'["fs"] = por["fs"]
  <2>1. Yo /\ Otros /\ CanalPasa(<<"kernel", "fs">>, w)
    BY <1>1, <1>4
  <2>2. kf' = w /\ fk' = fk /\ IgualKC /\ IgualKM /\ IgualCM /\ IgualFM
          /\ IgualCF
    BY <2>1, CanalesDe
  <2> QED
    BY <1>8, <2>1, <2>2 DEF IgualPedidosFs, IgualCpu, IgualMem
<1>5. ASSUME Va(h, y, <<"fs", "kernel">>, w)
      PROVE  /\ Suyo(h, y) /\ MismoMutex /\ IgualCpu /\ IgualMem
             /\ kf' = kf /\ fk' = w /\ por'["fs"] = por["fs"]
  <2>1. Yo /\ Otros /\ CanalPasa(<<"fs", "kernel">>, w)
    BY <1>1, <1>5
  <2>2. fk' = w /\ kf' = kf /\ IgualKC /\ IgualKM /\ IgualCM /\ IgualFM
          /\ IgualCF
    BY <2>1, CanalesDe
  <2> QED
    BY <1>8, <2>1, <2>2 DEF IgualPedidosFs, IgualCpu, IgualMem
<1>6. ASSUME Va(h, y, <<"kernel", "memoria">>, w)
      PROVE  /\ Suyo(h, y) /\ MismoMutex /\ IgualCpu /\ IgualFs /\ km' = w
                  /\ mk' = mk
             /\ por'["memoria"] = por["memoria"]
             /\ por'["pedidos_kernel"] = por["pedidos_kernel"]
  <2>1. Yo /\ Otros /\ CanalPasa(<<"kernel", "memoria">>, w)
    BY <1>1, <1>6
  <2>2. km' = w /\ mk' = mk /\ IgualKC /\ IgualKF /\ IgualCM /\ IgualFM
          /\ IgualCF
    BY <2>1, CanalesDe
  <2> QED
    BY <1>8, <2>1, <2>2 DEF IgualPedidosFs, IgualCpu, IgualFs
<1>7. ASSUME Va(h, y, <<"memoria", "kernel">>, w)
      PROVE  /\ Suyo(h, y) /\ MismoMutex /\ IgualCpu /\ IgualFs /\ km' = km
                  /\ mk' = w
             /\ por'["memoria"] = por["memoria"]
             /\ por'["pedidos_kernel"] = por["pedidos_kernel"]
  <2>1. Yo /\ Otros /\ CanalPasa(<<"memoria", "kernel">>, w)
    BY <1>1, <1>7
  <2>2. mk' = w /\ km' = km /\ IgualKC /\ IgualKF /\ IgualCM /\ IgualFM
          /\ IgualCF
    BY <2>1, CanalesDe
  <2> QED
    BY <1>8, <2>1, <2>2 DEF IgualPedidosFs, IgualCpu, IgualFs
<1> QED
  BY <1>2, <1>3, <1>4, <1>5, <1>6, <1>7

\* ... and what any other does.
LEMMA KernelSolo ==
    ASSUME NEW h \in {"ready", "desalojo"}, NEW y, Tipos', canal' = canal,
           HiloPasa(h, y)
    PROVE  Suyo(h, y) /\ IgualCpu /\ IgualFs /\ IgualMem
<1>1. /\ por'[h] = y /\ por'["kernel"] = por["kernel"]
      /\ \A g \in {"ready", "desalojo"} \ {h} : por'[g] = por[g]
      /\ por'["cpu"] = por["cpu"] /\ por'["pedidos_cpu"] = por["pedidos_cpu"]
      /\ por'["fs"] = por["fs"] /\ por'["pedidos_fs"] = por["pedidos_fs"]
      /\ por'["memoria"] = por["memoria"]
      /\ por'["pedidos_kernel"] = por["pedidos_kernel"]
  BY HilosSon DEF HiloPasa
<1>2. IgualKC /\ IgualKF /\ IgualKM /\ IgualCM /\ IgualFM /\ IgualCF
  BY DEF IgualKC, IgualKF, IgualKM, IgualCM, IgualFM, IgualCF,
     kc, ck, kf, fk, km, mk, cm, mc, fm, mf, cf, fc
<1> QED
  BY <1>1, <1>2 DEF Suyo, IgualCpu, IgualFs, IgualMem, IgualPedidosFs

\* The kernel sends p to Memoria, after w.
LEMMA KmCrece ==
    ASSUME NEW w \in Seq(Palabras), NEW p \in Seq(Palabras), KmListo(w),
           km' = km \o p, mk' = mk, por'["memoria"] = por["memoria"],
           por'["pedidos_kernel"] = por["pedidos_kernel"]
    PROVE  KmListo(w \o p)'
<1>1. \A s \in Seq(Palabras) : (s \o w) \o p = s \o (w \o p)
  OBVIOUS
<1>2. CASE EnBucle("pedidos_kernel") /\ km = w
             /\ Ahora("memoria") = [paso |-> "fin"]
  BY <1>2 DEF KmListo, EnBucle, Ahora
<1>3. CASE /\ SinEmpezar("pedidos_kernel") /\ Saluda("kernel", 3, 2)
           /\ km = Paquete(Op.AUX_SOY_KERNEL, <<>>) \o w
  <2>1. Paquete(Op.AUX_SOY_KERNEL, <<>>) \in Seq(Palabras)
    BY PaqueteTipo, DatosTipos, Codigos
  <2>2. km' = Paquete(Op.AUX_SOY_KERNEL, <<>>) \o (w \o p)
    BY <1>1, <1>3, <2>1
  <2> QED
    BY <1>3, <2>2 DEF KmListo, SinEmpezar, Saluda, En
<1>4. CASE SinEmpezar("pedidos_kernel") /\ Atiende("kernel", 3, 0)
             /\ km = Resto(<<>>) \o w
  <2>1. Resto(<<>>) \in Seq(Palabras)
    BY PaqueteTipo, DatosTipos, Codigos
  <2>2. km' = Resto(<<>>) \o (w \o p)
    BY <1>1, <1>4, <2>1
  <2> QED
    BY <1>4, <2>2 DEF KmListo, SinEmpezar, Atiende, En
<1>5. CASE SinEmpezar("pedidos_kernel") /\ Atiende("kernel", 3, 1) /\ km = w
  BY <1>5 DEF KmListo, SinEmpezar, Atiende, En
<1> QED
  BY <1>2, <1>3, <1>4, <1>5 DEF KmListo

\* The same, when there was nothing to read.
LEMMA KmEmpieza ==
    ASSUME NEW p \in Seq(Palabras), KmListo(<<>>),
           km' = km \o p, mk' = mk, por'["memoria"] = por["memoria"],
           por'["pedidos_kernel"] = por["pedidos_kernel"]
    PROVE  KmListo(p)'
<1>1. <<>> \in Seq(Palabras) /\ <<>> \o p = p
  BY DatosTipos, ConcatEmptySeq
<1>2. \A w \in Seq(Palabras) : KmListo(w) => KmListo(w \o p)'
  BY KmCrece
<1> QED
  BY <1>1, <1>2
-----------------------------------------------------------------------------
(* What the kernel does without mutex_memoria *)

\* Nobody works for the kernel.
LEMMA QuietosSon ==
    /\ FsQuieto <=> EnBucle("fs") /\ kf = <<>> /\ fk = <<>>
    /\ FsQuieto' <=> EnBucle("fs")' /\ kf' = <<>> /\ fk' = <<>>
    /\ CpuQuieta <=> PedidosCpuQuieto /\ EnBucle("cpu") /\ kc = <<>>
         /\ ck = <<>>
    /\ CpuQuieta' <=> PedidosCpuQuieto' /\ EnBucle("cpu")' /\ kc' = <<>>
         /\ ck' = <<>>
BY DEF FsQuieto, CpuQuieta, Quieto, DelKernel, AlKernel, kf, fk, kc, ck

Ajeno(h) ==
    /\ Tipos' /\ IgualCF /\ IgualPedidosFs /\ por'["kernel"] = por["kernel"]
    /\ \A g \in {"ready", "desalojo"} \ {h} : por'[g] = por[g]

\* A step of a thread of the kernel is no step of the others.
LEMMA SuyoEs ==
    ASSUME NEW h, NEW y, Suyo(h, y)
    PROVE  Ajeno(h) /\ por'[h] = y
BY DEF Suyo, Ajeno

\* manejo_desalojo_pcb goes on without the mutex, or takes it.
Libre == Ajeno("desalojo") /\ MismoMutex /\ IgualMem /\ DesalojoSinMutex'
Toma ==
    /\ Ajeno("desalojo") /\ IgualMem /\ mutex_memoria = Nadie
    /\ mutex_memoria' = "desalojo" /\ CpuQuieta' /\ FsQuieto'
    /\ MemQuieta => DesalojoConMutex'

\* The two threads of the kernel that run processes.
LEMMA ElDesalojo == "desalojo" \in Hilos /\ "ready" \in Hilos
BY HilosSon

\* A thread that owes nobody anything asks somebody, or takes the mutex.
LEMMA EnPazPasa ==
    ASSUME Tipos, EnPaz, CpuQuieta, FsQuieto, Avanza("desalojo")
    PROVE  Libre \/ Toma
<1>a. /\ EnBucle("fs") /\ kf = <<>> /\ fk = <<>>
      /\ PedidosCpuQuieto /\ EnBucle("cpu") /\ kc = <<>> /\ ck = <<>>
      /\ Op.OP_EXECUTE_PCB \in Int /\ Op.I_F_OPEN \in Int
           /\ Op.I_TRUNCATE \in Int
      /\ Op.KERNEL_CREAR_ARCHIVO \in Int /\ Pcb \in Seq(Palabras)
           /\ Nombre \in Seq(Palabras)
      /\ Nombre \o Cifras \in Seq(Palabras)
  BY QuietosSon, Codigos, DatosTipos, TresMas
<1>1. CASE EnBucle("desalojo")
  <2>1. Toca("desalojo", envia("kernel", "cpu", Op.OP_EXECUTE_PCB, Pcb),
          Quedan(manejo_desalojo_pcb, 1))
    BY <1>1, DesalojoToca
  <2>2. Va("desalojo", Quedan(manejo_desalojo_pcb, 1), <<"kernel", "cpu">>,
          Paquete(Op.OP_EXECUTE_PCB, Pcb))
    BY <1>a, <2>1, PasoEnviaSolo, CanalesSon DEF Hay, kc
  <2>3. /\ Suyo("desalojo", Quedan(manejo_desalojo_pcb, 1)) /\ MismoMutex
             /\ IgualFs /\ IgualMem
        /\ IgualCM /\ kc' = Paquete(Op.OP_EXECUTE_PCB, Pcb) /\ ck' = ck
        /\ por'["cpu"] = por["cpu"] /\ por'["pedidos_cpu"] = por["pedidos_cpu"]
    BY <2>2, KernelVa
  <2>4. Ajeno("desalojo") /\ En("desalojo", manejo_desalojo_pcb, 1)'
          /\ FsQuieto'
    BY <2>3, SuyoEs, FsIgual DEF En
  <2>5. CpuAtiende'
    BY <1>a, <2>3 DEF CpuAtiende, PedidosCpuQuieto, EnBucle, IgualCM
  <2> QED
    BY <2>3, <2>4, <2>5 DEF Libre, DesalojoSinMutex
<1>2. CASE En("desalojo", Abrir, 1)
  <2>1. Toca("desalojo", envia("kernel", "fs", Op.I_F_OPEN, Nombre),
          Quedan(Abrir, 2))
    BY <1>2, AbrirToca
  <2>2. Va("desalojo", Quedan(Abrir, 2), <<"kernel", "fs">>,
          Paquete(Op.I_F_OPEN, Nombre))
    BY <1>a, <2>1, PasoEnviaSolo, CanalesSon DEF Hay, kf
  <2>3. /\ Suyo("desalojo", Quedan(Abrir, 2)) /\ MismoMutex /\ IgualCpu
             /\ IgualMem
        /\ kf' = Paquete(Op.I_F_OPEN, Nombre) /\ fk' = fk
             /\ por'["fs"] = por["fs"]
    BY <2>2, KernelVa
  <2>4. Ajeno("desalojo") /\ En("desalojo", Abrir, 2)' /\ CpuQuieta'
    BY <2>3, SuyoEs, CpuIgual DEF En
  <2>5. FsAtiende(Op.I_F_OPEN, Nombre)'
    BY <1>a, <2>3 DEF FsAtiende, EnBucle
  <2> QED
    BY <2>3, <2>4, <2>5 DEF Libre, DesalojoSinMutex, EsperaAlFileSystem
<1>3. CASE En("desalojo", Truncar, 1)
  <2>1. Toca("desalojo", envia("kernel", "fs", Op.I_TRUNCATE, Nombre \o Cifras),
          Quedan(Truncar, 2))
    BY <1>3, TruncarToca
  <2>2. Va("desalojo", Quedan(Truncar, 2), <<"kernel", "fs">>,
          Paquete(Op.I_TRUNCATE, Nombre \o Cifras))
    BY <1>a, <2>1, PasoEnviaSolo, CanalesSon DEF Hay, kf
  <2>3. /\ Suyo("desalojo", Quedan(Truncar, 2)) /\ MismoMutex /\ IgualCpu
             /\ IgualMem
        /\ kf' = Paquete(Op.I_TRUNCATE, Nombre \o Cifras) /\ fk' = fk
             /\ por'["fs"] = por["fs"]
    BY <2>2, KernelVa
  <2>4. Ajeno("desalojo") /\ En("desalojo", Truncar, 2)' /\ CpuQuieta'
    BY <2>3, SuyoEs, CpuIgual DEF En
  <2>5. FsAtiende(Op.I_TRUNCATE, Nombre \o Cifras)'
    BY <1>a, <2>3 DEF FsAtiende, EnBucle
  <2> QED
    BY <2>3, <2>4, <2>5 DEF Libre, DesalojoSinMutex, EsperaAlFileSystem
<1>4. CASE En("desalojo", NoAbierto, 1)
  <2>1. Toca("desalojo", envia("kernel", "fs", Op.KERNEL_CREAR_ARCHIVO, Nombre),
          Quedan(NoAbierto, 2))
    BY <1>4, NoAbiertoToca
  <2>2. Va("desalojo", Quedan(NoAbierto, 2), <<"kernel", "fs">>,
          Paquete(Op.KERNEL_CREAR_ARCHIVO, Nombre))
    BY <1>a, <2>1, PasoEnviaSolo, CanalesSon DEF Hay, kf
  <2>3. /\ Suyo("desalojo", Quedan(NoAbierto, 2)) /\ MismoMutex /\ IgualCpu
             /\ IgualMem
        /\ kf' = Paquete(Op.KERNEL_CREAR_ARCHIVO, Nombre) /\ fk' = fk
             /\ por'["fs"] = por["fs"]
    BY <2>2, KernelVa
  <2>4. Ajeno("desalojo") /\ En("desalojo", NoAbierto, 2)' /\ CpuQuieta'
    BY <2>3, SuyoEs, CpuIgual DEF En
  <2>5. FsAtiende(Op.KERNEL_CREAR_ARCHIVO, Nombre)'
    BY <1>a, <2>3 DEF FsAtiende, EnBucle
  <2> QED
    BY <2>3, <2>4, <2>5 DEF Libre, DesalojoSinMutex, EsperaAlFileSystem
<1>5. CASE En("desalojo", Crear, 1)
  <2>1. Toca("desalojo", solo("lock"), Quedan(Crear, 2))
    BY <1>5, CrearToca
  <2>2. /\ Tipos' /\ canal' = canal /\ HiloPasa("desalojo", Quedan(Crear, 2))
        /\ mutex_memoria = Nadie /\ mutex_memoria' = "desalojo"
    BY <2>1, ElDesalojo, PasoTomar
  <2>3. Suyo("desalojo", Quedan(Crear, 2)) /\ IgualCpu /\ IgualFs /\ IgualMem
    BY <2>2, KernelSolo
  <2>4. /\ Ajeno("desalojo") /\ En("desalojo", Crear, 2)' /\ CpuQuieta'
             /\ FsQuieto'
        /\ MemQuieta => MemQuieta'
    BY <2>3, SuyoEs, CpuIgual, FsIgual, MemIgual DEF En
  <2>5. MemQuieta => DesalojoConMutex'
    BY <2>4 DEF DesalojoConMutex, PideCrear
  <2> QED
    BY <2>2, <2>3, <2>4, <2>5 DEF Toma
<1>6. CASE En("desalojo", Borrar, 1)
  <2>1. Toca("desalojo", solo("lock"), Quedan(Borrar, 2))
    BY <1>6, BorrarToca
  <2>2. /\ Tipos' /\ canal' = canal /\ HiloPasa("desalojo", Quedan(Borrar, 2))
        /\ mutex_memoria = Nadie /\ mutex_memoria' = "desalojo"
    BY <2>1, ElDesalojo, PasoTomar
  <2>3. Suyo("desalojo", Quedan(Borrar, 2)) /\ IgualCpu /\ IgualFs /\ IgualMem
    BY <2>2, KernelSolo
  <2>4. /\ Ajeno("desalojo") /\ En("desalojo", Borrar, 2)' /\ CpuQuieta'
             /\ FsQuieto'
        /\ MemQuieta => MemQuieta'
    BY <2>3, SuyoEs, CpuIgual, FsIgual, MemIgual DEF En
  <2>5. MemQuieta => DesalojoConMutex'
    BY <2>4 DEF DesalojoConMutex, PideBorrar
  <2> QED
    BY <2>2, <2>3, <2>4, <2>5 DEF Toma
<1>7. CASE En("desalojo", Compacta, 5)
  <2>1. Toca("desalojo", solo("lock"), Quedan(Compacta, 6))
    BY <1>7, CompactaToca
  <2>2. /\ Tipos' /\ canal' = canal /\ HiloPasa("desalojo", Quedan(Compacta, 6))
        /\ mutex_memoria = Nadie /\ mutex_memoria' = "desalojo"
    BY <2>1, ElDesalojo, PasoTomar
  <2>3. Suyo("desalojo", Quedan(Compacta, 6)) /\ IgualCpu /\ IgualFs /\ IgualMem
    BY <2>2, KernelSolo
  <2>4. /\ Ajeno("desalojo") /\ En("desalojo", Compacta, 6)' /\ CpuQuieta'
             /\ FsQuieto'
        /\ MemQuieta => MemQuieta'
    BY <2>3, SuyoEs, CpuIgual, FsIgual, MemIgual DEF En
  <2>5. MemQuieta => DesalojoConMutex'
    BY <2>4 DEF DesalojoConMutex, PideCrear
  <2> QED
    BY <2>2, <2>3, <2>4, <2>5 DEF Toma
<1> QED
  BY <1>1, <1>2, <1>3, <1>4, <1>5, <1>6, <1>7 DEF EnPaz

\* The process comes back: op says what the kernel does with it.
LEMMA OtraEs ==
    ASSUME NEW op \in Int \ {Op.I_F_READ, Op.I_F_WRITE}
    PROVE  \/ op = Op.I_F_OPEN /\ Sigue("manejo_instrucciones", op) = Abrir
           \/ op = Op.I_TRUNCATE /\ Sigue("manejo_instrucciones", op) = Truncar
           \/ op = Op.I_CREATE_SEGMENT
                /\ Sigue("manejo_instrucciones", op) = Crear
           \/ op = Op.I_DELETE_SEGMENT
                /\ Sigue("manejo_instrucciones", op) = Borrar
           \/ Sigue("manejo_instrucciones", op) = Otra
<1>1. Sigue("manejo_instrucciones", op) = manejo_instrucciones(op)
  BY DEF Sigue
<1>2. CASE op \in {Op.I_F_OPEN, Op.I_TRUNCATE, Op.I_CREATE_SEGMENT,
             Op.I_DELETE_SEGMENT}
  BY <1>1, <1>2 DEF Abrir, Truncar, Crear, Borrar
<1>3. CASE op \notin {Op.I_F_OPEN, Op.I_TRUNCATE, Op.I_CREATE_SEGMENT,
             Op.I_DELETE_SEGMENT}
  <2>1. manejo_instrucciones(op) = RecibirBuffer("cpu", "kernel") \o <<>>
    BY <1>3 DEF manejo_instrucciones, Op
  <2>2. Otra \in Seq(Llamadas) /\ Otra = RecibirBuffer("cpu", "kernel")
    BY OtraLlama DEF Otra
  <2>3. Otra \o <<>> = Otra
    BY <2>2, ConcatEmptySeq
  <2> QED
    BY <1>1, <2>1, <2>2, <2>3
<1> QED
  BY <1>2, <1>3

Devuelto == \/ En("desalojo", Abrir, 0) \/ En("desalojo", Truncar, 0)
            \/ En("desalojo", Crear, 0) \/ En("desalojo", Borrar, 0)
            \/ En("desalojo", Otra, 0)

\* The cases of the switch of manejo_instrucciones have calls.
LEMMA VuelvenLlama ==
    ASSUME NEW t \in {Abrir, Truncar, Crear, Borrar, Otra}
    PROVE  t \in Seq(Llamadas) /\ t # <<>>
<1>1. t \in Seq(Llamadas) /\ Len(t) # 0
  <2>1. CASE t = Abrir
    BY <2>1, AbrirLlama
  <2>2. CASE t = Truncar
    BY <2>2, TruncarLlama
  <2>3. CASE t = Crear
    BY <2>3, CrearLlama
  <2>4. CASE t = Borrar
    BY <2>4, BorrarLlama
  <2>5. CASE t = Otra
    BY <2>5, OtraLlama
  <2> QED
    BY <2>1, <2>2, <2>3, <2>4, <2>5
<1> QED
  BY <1>1, NoVacia

\* The process comes back from the CPU,
LEMMA VuelvePasa ==
    ASSUME Tipos, SinPedidosDelFs, En("desalojo", manejo_desalojo_pcb, 1),
           CpuAtiende,
           FsQuieto, Avanza("desalojo")
    PROVE  Libre
<1>1. TocaUltima("desalojo", mira("cpu", "kernel", "manejo_instrucciones"))
  BY DesalojoToca
<1>2. CASE ck = <<>>
  <2>1. Hay("cpu", "kernel", <<>>)
    BY <1>2 DEF Hay, ck
  <2> QED
    BY <1>1, <2>1, NoHay
<1>3. ASSUME PedidosCpuQuieto, EnBucle("cpu"), kc = <<>>,
             NEW op \in Desalojos, ck = Paquete(op, Pcb)
      PROVE  Libre
  <2> DEFINE t == Sigue("manejo_instrucciones", op)
  <2>1. op \in Int \ {Op.I_F_READ, Op.I_F_WRITE} /\ Pcb \in Seq(Palabras)
    BY DatosTipos DEF SinPedidosDelFs
  <2>2. t \in {Abrir, Truncar, Crear, Borrar, Otra}
    BY <2>1, OtraEs
  <2>3. t \in Seq(Llamadas) /\ t # <<>>
    BY <2>2, VuelvenLlama
  <2>4. Hay("cpu", "kernel", Paquete(op, Pcb))
    BY <1>3 DEF Hay, ck
  <2>5. Sigue("manejo_instrucciones", op) = t
    OBVIOUS
  <2> HIDE DEF t
  <2>6. Va("desalojo", t, <<"cpu", "kernel">>, Resto(Pcb))
    BY <1>1, <2>1, <2>3, <2>4, <2>5, ElDesalojo, PasoMiraPaquete, CanalesSon
  <2>7. /\ Suyo("desalojo", t) /\ MismoMutex /\ IgualFs /\ IgualMem /\ IgualCM
        /\ kc' = kc /\ ck' = Resto(Pcb)
        /\ por'["cpu"] = por["cpu"] /\ por'["pedidos_cpu"] = por["pedidos_cpu"]
    BY <2>6, KernelVa
  <2>8. Ajeno("desalojo") /\ por'["desalojo"] = t /\ FsQuieto'
    BY <2>7, SuyoEs, FsIgual
  <2>9. PedidosCpuQuieto' /\ EnBucle("cpu")' /\ kc' = <<>>
    BY <1>3, <2>7 DEF PedidosCpuQuieto, EnBucle, IgualCM
  <2>10. \A s \in Seq(Llamadas) : Quedan(s, 0) = s
    BY QuedaTodoONada
  <2>11. Devuelto'
    BY <2>2, <2>3, <2>8, <2>10 DEF Devuelto, En
  <2> QED
    BY <2>7, <2>8, <2>9, <2>11 DEF Libre, DesalojoSinMutex, Devuelto
<1> QED
  BY <1>2, <1>3 DEF CpuAtiende, Ejecuta

\* ... and its context is read.
LEMMA DevueltoPasa ==
    ASSUME Tipos, Devuelto, PedidosCpuQuieto, EnBucle("cpu"), kc = <<>>,
           ck = Resto(Pcb), FsQuieto, Avanza("desalojo")
    PROVE  Libre
<1>a. Pcb \in Seq(Palabras) /\ Hay("cpu", "kernel", Resto(Pcb))
  BY DatosTipos DEF Hay, ck
<1>b. ASSUME NEW y, Va("desalojo", y, <<"cpu", "kernel">>, <<>>)
      PROVE  Suyo("desalojo", y) /\ MismoMutex /\ IgualFs /\ IgualMem
               /\ CpuQuieta'
  <2>1. /\ Suyo("desalojo", y) /\ MismoMutex /\ IgualFs /\ IgualMem /\ IgualCM
        /\ kc' = kc /\ ck' = <<>>
        /\ por'["cpu"] = por["cpu"] /\ por'["pedidos_cpu"] = por["pedidos_cpu"]
    BY <1>b, KernelVa
  <2> QED
    BY <2>1, QuietosSon DEF PedidosCpuQuieto, EnBucle, IgualCM
<1>1. CASE En("desalojo", Abrir, 0)
  <2>1. Toca("desalojo", recibeBuffer("cpu", "kernel"), Quedan(Abrir, 1))
    BY <1>1, AbrirToca
  <2>2. Va("desalojo", Quedan(Abrir, 1), <<"cpu", "kernel">>, <<>>)
    BY <1>a, <2>1, PasoBufferSolo, CanalesSon
  <2>3. Suyo("desalojo", Quedan(Abrir, 1)) /\ MismoMutex /\ IgualFs /\ IgualMem
          /\ CpuQuieta'
    BY <1>b, <2>2
  <2>4. Ajeno("desalojo") /\ En("desalojo", Abrir, 1)' /\ FsQuieto'
    BY <2>3, SuyoEs, FsIgual DEF En, EnBucle
  <2> QED
    BY <2>3, <2>4 DEF Libre, DesalojoSinMutex, EnPaz
<1>2. CASE En("desalojo", Truncar, 0)
  <2>1. Toca("desalojo", recibeBuffer("cpu", "kernel"), Quedan(Truncar, 1))
    BY <1>2, TruncarToca
  <2>2. Va("desalojo", Quedan(Truncar, 1), <<"cpu", "kernel">>, <<>>)
    BY <1>a, <2>1, PasoBufferSolo, CanalesSon
  <2>3. Suyo("desalojo", Quedan(Truncar, 1)) /\ MismoMutex /\ IgualFs
          /\ IgualMem /\ CpuQuieta'
    BY <1>b, <2>2
  <2>4. Ajeno("desalojo") /\ En("desalojo", Truncar, 1)' /\ FsQuieto'
    BY <2>3, SuyoEs, FsIgual DEF En, EnBucle
  <2> QED
    BY <2>3, <2>4 DEF Libre, DesalojoSinMutex, EnPaz
<1>3. CASE En("desalojo", Crear, 0)
  <2>1. Toca("desalojo", recibeBuffer("cpu", "kernel"), Quedan(Crear, 1))
    BY <1>3, CrearToca
  <2>2. Va("desalojo", Quedan(Crear, 1), <<"cpu", "kernel">>, <<>>)
    BY <1>a, <2>1, PasoBufferSolo, CanalesSon
  <2>3. Suyo("desalojo", Quedan(Crear, 1)) /\ MismoMutex /\ IgualFs /\ IgualMem
          /\ CpuQuieta'
    BY <1>b, <2>2
  <2>4. Ajeno("desalojo") /\ En("desalojo", Crear, 1)' /\ FsQuieto'
    BY <2>3, SuyoEs, FsIgual DEF En, EnBucle
  <2> QED
    BY <2>3, <2>4 DEF Libre, DesalojoSinMutex, EnPaz
<1>4. CASE En("desalojo", Borrar, 0)
  <2>1. Toca("desalojo", recibeBuffer("cpu", "kernel"), Quedan(Borrar, 1))
    BY <1>4, BorrarToca
  <2>2. Va("desalojo", Quedan(Borrar, 1), <<"cpu", "kernel">>, <<>>)
    BY <1>a, <2>1, PasoBufferSolo, CanalesSon
  <2>3. Suyo("desalojo", Quedan(Borrar, 1)) /\ MismoMutex /\ IgualFs /\ IgualMem
          /\ CpuQuieta'
    BY <1>b, <2>2
  <2>4. Ajeno("desalojo") /\ En("desalojo", Borrar, 1)' /\ FsQuieto'
    BY <2>3, SuyoEs, FsIgual DEF En, EnBucle
  <2> QED
    BY <2>3, <2>4 DEF Libre, DesalojoSinMutex, EnPaz
<1>5. CASE En("desalojo", Otra, 0)
  <2>1. Toca("desalojo", recibeBuffer("cpu", "kernel"), Bucle["desalojo"])
    BY <1>5, OtraToca
  <2>2. Va("desalojo", Bucle["desalojo"], <<"cpu", "kernel">>, <<>>)
    BY <1>a, <2>1, PasoBufferSolo, CanalesSon
  <2>3. Suyo("desalojo", Bucle["desalojo"]) /\ MismoMutex /\ IgualFs /\ IgualMem
          /\ CpuQuieta'
    BY <1>b, <2>2
  <2>4. Ajeno("desalojo") /\ EnBucle("desalojo")' /\ FsQuieto'
    BY <2>3, SuyoEs, FsIgual DEF En, EnBucle
  <2> QED
    BY <2>3, <2>4 DEF Libre, DesalojoSinMutex, EnPaz
<1> QED
  BY <1>1, <1>2, <1>3, <1>4, <1>5 DEF Devuelto

\* The kernel reads the answer of the FileSystem: its operation, then the zero.
LEMMA FsAtiendeLee ==
    ASSUME NEW op, NEW d, FsAtiende(op, d), fk # <<>>
    PROVE  \E r \in Confirmaciones : EnBucle("fs") /\ kf = <<>>
             /\ fk = Paquete(r, <<>>)
BY DEF FsAtiende

\* The kernel reads of the answer of the FileSystem.
LEMMA LeeDelFs ==
    ASSUME NEW y, NEW w, Va("desalojo", y, <<"fs", "kernel">>, w), CpuQuieta,
           EnBucle("fs"), kf = <<>>
    PROVE  /\ Suyo("desalojo", y) /\ MismoMutex /\ IgualMem /\ CpuQuieta'
           /\ w = <<>> => FsQuieto'
           /\ w = Resto(<<>>) => FsRespondio'
<1>1. /\ Suyo("desalojo", y) /\ MismoMutex /\ IgualCpu /\ IgualMem
      /\ kf' = kf /\ fk' = w /\ por'["fs"] = por["fs"]
  BY KernelVa
<1>2. EnBucle("fs")'
  BY <1>1 DEF EnBucle
<1> QED
  BY <1>1, <1>2, CpuIgual, QuietosSon DEF FsRespondio

\* The kernel waits for the FileSystem and reads its answer.
LEMMA EsperaAlFsPasa ==
    ASSUME Tipos, EsperaAlFileSystem, CpuQuieta, Avanza("desalojo")
    PROVE  Libre
<1>1. CASE En("desalojo", Abrir, 2) /\ FsAtiende(Op.I_F_OPEN, Nombre)
  <2>1. TocaUltima("desalojo", mira("fs", "kernel", "f_open"))
    BY <1>1, AbrirToca
  <2>2. fk # <<>>
    BY <2>1, NoHay DEF Hay, fk
  <2>3. PICK r \in Confirmaciones : EnBucle("fs") /\ kf = <<>>
          /\ fk = Paquete(r, <<>>)
    BY <1>1, <2>2, FsAtiendeLee
  <2>4. r \in Int /\ <<>> \in Seq(Palabras)
    BY Codigos, DatosTipos DEF Confirmaciones
  <2> DEFINE t == TrasAbrir(r)
  <2>5. t \in Seq(Llamadas) /\ Len(t) # 0
    <3>1. CASE r = Op.AUX_OK
      BY <3>1, AbiertoLlama
    <3>2. CASE r = Op.AUX_ERROR
      BY <3>2, NoAbiertoLlama DEF NoAbierto
    <3> QED
      BY <2>3, <3>1, <3>2 DEF Confirmaciones
  <2>6. Sigue("f_open", r) = t
    BY DEF Sigue
  <2>7. t = TrasAbrir(Op.AUX_OK) \/ t = NoAbierto
    BY <2>3 DEF Confirmaciones, NoAbierto
  <2> HIDE DEF t
  <2>8. t # <<>>
    BY <2>5, NoVacia
  <2>9. Hay("fs", "kernel", Paquete(r, <<>>))
    BY <2>3 DEF Hay, fk
  <2>10. Va("desalojo", t, <<"fs", "kernel">>, Resto(<<>>))
    BY <2>1, <2>4, <2>5, <2>6, <2>8, <2>9, ElDesalojo, PasoMiraPaquete,
       CanalesSon
  <2>11. Suyo("desalojo", t) /\ MismoMutex /\ IgualMem /\ CpuQuieta'
           /\ FsRespondio'
    BY <2>3, <2>10, LeeDelFs
  <2>12. Ajeno("desalojo") /\ por'["desalojo"] = t /\ Quedan(t, 0) = t
    BY <2>5, <2>11, SuyoEs, QuedaTodoONada
  <2>13. En("desalojo", TrasAbrir(Op.AUX_OK), 0)'
           \/ En("desalojo", NoAbierto, 0)'
    BY <2>7, <2>12 DEF En
  <2> QED
    BY <2>11, <2>12, <2>13 DEF Libre, DesalojoSinMutex, EsperaAlFileSystem
<1>2. CASE En("desalojo", TrasAbrir(Op.AUX_OK), 0) /\ FsRespondio
  <2>1. Toca("desalojo", recibe("fs", "kernel"), Bucle["desalojo"])
    BY <1>2, AbiertoToca
  <2>2. EnBucle("fs") /\ kf = <<>> /\ fk = Resto(<<>>) /\ <<>> \in Seq(Palabras)
    BY <1>2, DatosTipos DEF FsRespondio
  <2>3. Va("desalojo", Bucle["desalojo"], <<"fs", "kernel">>, <<>>)
    BY <2>1, <2>2, PasoRecibeResto, CanalesSon DEF Hay, fk
  <2>4. Suyo("desalojo", Bucle["desalojo"]) /\ MismoMutex /\ IgualMem
          /\ CpuQuieta' /\ FsQuieto'
    BY <2>2, <2>3, LeeDelFs
  <2>5. Ajeno("desalojo") /\ EnBucle("desalojo")'
    BY <2>4, SuyoEs DEF En, EnBucle
  <2> QED
    BY <2>4, <2>5 DEF Libre, DesalojoSinMutex, EnPaz
<1>3. CASE En("desalojo", NoAbierto, 0) /\ FsRespondio
  <2>1. Toca("desalojo", recibe("fs", "kernel"), Quedan(NoAbierto, 1))
    BY <1>3, NoAbiertoToca
  <2>2. EnBucle("fs") /\ kf = <<>> /\ fk = Resto(<<>>) /\ <<>> \in Seq(Palabras)
    BY <1>3, DatosTipos DEF FsRespondio
  <2>3. Va("desalojo", Quedan(NoAbierto, 1), <<"fs", "kernel">>, <<>>)
    BY <2>1, <2>2, PasoRecibeResto, CanalesSon DEF Hay, fk
  <2>4. Suyo("desalojo", Quedan(NoAbierto, 1)) /\ MismoMutex /\ IgualMem
          /\ CpuQuieta' /\ FsQuieto'
    BY <2>2, <2>3, LeeDelFs
  <2>5. Ajeno("desalojo") /\ En("desalojo", NoAbierto, 1)'
    BY <2>4, SuyoEs DEF En, EnBucle
  <2> QED
    BY <2>4, <2>5 DEF Libre, DesalojoSinMutex, EnPaz
<1>4. CASE En("desalojo", NoAbierto, 2)
             /\ FsAtiende(Op.KERNEL_CREAR_ARCHIVO, Nombre)
  <2>1. Toca("desalojo", recibe("fs", "kernel"), Quedan(NoAbierto, 3))
    BY <1>4, NoAbiertoToca
  <2>2. fk # <<>>
    BY <2>1, NoHay DEF Hay, fk
  <2>3. PICK r \in Confirmaciones : EnBucle("fs") /\ kf = <<>>
          /\ fk = Paquete(r, <<>>)
    BY <1>4, <2>2, FsAtiendeLee
  <2>4. r \in Int /\ <<>> \in Seq(Palabras)
    BY Codigos, DatosTipos DEF Confirmaciones
  <2>5. Va("desalojo", Quedan(NoAbierto, 3), <<"fs", "kernel">>, Resto(<<>>))
    BY <2>1, <2>3, <2>4, PasoRecibePaquete, CanalesSon DEF Hay, fk
  <2>6. Suyo("desalojo", Quedan(NoAbierto, 3)) /\ MismoMutex /\ IgualMem
          /\ CpuQuieta' /\ FsRespondio'
    BY <2>3, <2>5, LeeDelFs
  <2>7. Ajeno("desalojo") /\ En("desalojo", NoAbierto, 3)'
    BY <2>6, SuyoEs DEF En
  <2> QED
    BY <2>6, <2>7 DEF Libre, DesalojoSinMutex, EsperaAlFileSystem
<1>5. CASE En("desalojo", NoAbierto, 3) /\ FsRespondio
  <2>1. Toca("desalojo", recibe("fs", "kernel"), Bucle["desalojo"])
    BY <1>5, NoAbiertoToca
  <2>2. EnBucle("fs") /\ kf = <<>> /\ fk = Resto(<<>>) /\ <<>> \in Seq(Palabras)
    BY <1>5, DatosTipos DEF FsRespondio
  <2>3. Va("desalojo", Bucle["desalojo"], <<"fs", "kernel">>, <<>>)
    BY <2>1, <2>2, PasoRecibeResto, CanalesSon DEF Hay, fk
  <2>4. Suyo("desalojo", Bucle["desalojo"]) /\ MismoMutex /\ IgualMem
          /\ CpuQuieta' /\ FsQuieto'
    BY <2>2, <2>3, LeeDelFs
  <2>5. Ajeno("desalojo") /\ EnBucle("desalojo")'
    BY <2>4, SuyoEs DEF En, EnBucle
  <2> QED
    BY <2>4, <2>5 DEF Libre, DesalojoSinMutex, EnPaz
<1>6. CASE En("desalojo", Truncar, 2)
             /\ FsAtiende(Op.I_TRUNCATE, Nombre \o Cifras)
  <2>1. Toca("desalojo", recibe("fs", "kernel"), Quedan(Truncar, 3))
    BY <1>6, TruncarToca
  <2>2. fk # <<>>
    BY <2>1, NoHay DEF Hay, fk
  <2>3. PICK r \in Confirmaciones : EnBucle("fs") /\ kf = <<>>
          /\ fk = Paquete(r, <<>>)
    BY <1>6, <2>2, FsAtiendeLee
  <2>4. r \in Int /\ <<>> \in Seq(Palabras)
    BY Codigos, DatosTipos DEF Confirmaciones
  <2>5. Va("desalojo", Quedan(Truncar, 3), <<"fs", "kernel">>, Resto(<<>>))
    BY <2>1, <2>3, <2>4, PasoRecibePaquete, CanalesSon DEF Hay, fk
  <2>6. Suyo("desalojo", Quedan(Truncar, 3)) /\ MismoMutex /\ IgualMem
          /\ CpuQuieta' /\ FsRespondio'
    BY <2>3, <2>5, LeeDelFs
  <2>7. Ajeno("desalojo") /\ En("desalojo", Truncar, 3)'
    BY <2>6, SuyoEs DEF En
  <2> QED
    BY <2>6, <2>7 DEF Libre, DesalojoSinMutex, EsperaAlFileSystem
<1>7. CASE En("desalojo", Truncar, 3) /\ FsRespondio
  <2>1. Toca("desalojo", recibe("fs", "kernel"), Bucle["desalojo"])
    BY <1>7, TruncarToca
  <2>2. EnBucle("fs") /\ kf = <<>> /\ fk = Resto(<<>>) /\ <<>> \in Seq(Palabras)
    BY <1>7, DatosTipos DEF FsRespondio
  <2>3. Va("desalojo", Bucle["desalojo"], <<"fs", "kernel">>, <<>>)
    BY <2>1, <2>2, PasoRecibeResto, CanalesSon DEF Hay, fk
  <2>4. Suyo("desalojo", Bucle["desalojo"]) /\ MismoMutex /\ IgualMem
          /\ CpuQuieta' /\ FsQuieto'
    BY <2>2, <2>3, LeeDelFs
  <2>5. Ajeno("desalojo") /\ EnBucle("desalojo")'
    BY <2>4, SuyoEs DEF En, EnBucle
  <2> QED
    BY <2>4, <2>5 DEF Libre, DesalojoSinMutex, EnPaz
<1> QED
  BY <1>1, <1>2, <1>3, <1>4, <1>5, <1>6, <1>7 DEF EsperaAlFileSystem

\* manejo_desalojo_pcb, while it does not have the mutex.
LEMMA SinMutexPasa ==
    ASSUME Tipos, SinPedidosDelFs, DesalojoSinMutex, Avanza("desalojo")
    PROVE  Libre \/ Toma
BY EnPazPasa, VuelvePasa, DevueltoPasa, EsperaAlFsPasa
   DEF DesalojoSinMutex, Devuelto
-----------------------------------------------------------------------------
(* What the kernel does with mutex_memoria *)

\* Thread h goes on with the mutex, or gives it back.
Sigue1(h) ==
    /\ Ajeno(h) /\ MismoMutex /\ IgualCpu /\ IgualFs
    /\ por'["memoria"] = por["memoria"]
         /\ por'["pedidos_kernel"] = por["pedidos_kernel"]
Suelta(h) ==
    /\ Ajeno(h) /\ mutex_memoria' = Nadie /\ IgualCpu /\ IgualFs /\ IgualMem

\* What a call on the connection with Memoria leaves alone.
LEMMA DeMemoria ==
    ASSUME NEW h \in {"ready", "desalojo"}, NEW y, NEW w
    PROVE  /\ Va(h, y, <<"kernel", "memoria">>, w) =>
                 /\ Sigue1(h) /\ por'[h] = y /\ km' = w /\ mk' = mk
                 /\ por'["memoria"] = por["memoria"]
                 /\ por'["pedidos_kernel"] = por["pedidos_kernel"]
           /\ Va(h, y, <<"memoria", "kernel">>, w) =>
                 /\ Sigue1(h) /\ por'[h] = y /\ km' = km /\ mk' = w
                 /\ por'["memoria"] = por["memoria"]
                 /\ por'["pedidos_kernel"] = por["pedidos_kernel"]
<1>1. ASSUME Va(h, y, <<"kernel", "memoria">>, w)
      PROVE  /\ Sigue1(h) /\ por'[h] = y /\ km' = w /\ mk' = mk
             /\ por'["memoria"] = por["memoria"]
             /\ por'["pedidos_kernel"] = por["pedidos_kernel"]
  BY <1>1, KernelVa, SuyoEs DEF Sigue1
<1>2. ASSUME Va(h, y, <<"memoria", "kernel">>, w)
      PROVE  /\ Sigue1(h) /\ por'[h] = y /\ km' = km /\ mk' = w
             /\ por'["memoria"] = por["memoria"]
             /\ por'["pedidos_kernel"] = por["pedidos_kernel"]
  BY <1>2, KernelVa, SuyoEs DEF Sigue1
<1> QED
  BY <1>1, <1>2

\* It reads, and Memoria has nothing else to do.
LEMMA LeeDeMemoria ==
    ASSUME NEW h \in {"ready", "desalojo"}, NEW y, NEW w,
           Va(h, y, <<"memoria", "kernel">>, w), KmListo(<<>>)
    PROVE  /\ Sigue1(h) /\ por'[h] = y /\ MemRespondio(w)'
           /\ w = <<>> => MemQuieta'
<1>1. /\ Sigue1(h) /\ por'[h] = y /\ km' = km /\ mk' = w
      /\ por'["memoria"] = por["memoria"]
      /\ por'["pedidos_kernel"] = por["pedidos_kernel"]
  BY DeMemoria
<1>2. KmListo(<<>>)'
  BY <1>1 DEF KmListo, EnBucle, SinEmpezar, Saluda, Atiende, En, Ahora
<1> QED
  BY <1>1, <1>2 DEF MemRespondio, MemQuieta

\* It sends, and Memoria had nothing to do.
LEMMA PideAMemoria ==
    ASSUME Tipos, NEW h \in {"ready", "desalojo"}, NEW y, NEW op \in Int,
           NEW d \in Seq(Palabras), Toca(h, envia("kernel", "memoria", op, d),
             y),
           KmListo(<<>>), Avanza(h)
    PROVE  Sigue1(h) /\ por'[h] = y /\ KmListo(Paquete(op, d))' /\ mk' = mk
<1>1. Va(h, y, <<"kernel", "memoria">>, km \o Paquete(op, d))
  BY PasoEnvia, CanalesSon DEF Hay, km
<1>2. /\ Sigue1(h) /\ por'[h] = y /\ km' = km \o Paquete(op, d) /\ mk' = mk
      /\ por'["memoria"] = por["memoria"]
      /\ por'["pedidos_kernel"] = por["pedidos_kernel"]
  BY <1>1, DeMemoria
<1>3. Paquete(op, d) \in Seq(Palabras)
  BY PaqueteTipo
<1>4. KmListo(Paquete(op, d))'
  BY <1>2, <1>3, KmEmpieza
<1> QED
  BY <1>2, <1>4

\* The mutex is given back.
LEMMA Devuelve ==
    ASSUME Tipos, NEW h \in {"ready", "desalojo"}, NEW y,
           Toca(h, solo("unlock"), y), Avanza(h)
    PROVE  Suelta(h) /\ por'[h] = y
<1>1. Tipos' /\ canal' = canal /\ HiloPasa(h, y) /\ mutex_memoria' = Nadie
  BY PasoSoltar, ElDesalojo
<1> QED
  BY <1>1, KernelSolo, SuyoEs DEF Suelta

\* enviar_proceso_a_ready, before it has the mutex ...
LEMMA ReadySinPasa ==
    ASSUME Tipos, ReadySinMutex, Avanza("ready")
    PROVE  /\ Ajeno("ready") /\ IgualCpu /\ IgualFs /\ IgualMem
           /\ \/ MismoMutex /\ ReadySinMutex'
              \/ /\ mutex_memoria = Nadie /\ mutex_memoria' = "ready"
                 /\ MemQuieta => ReadyConMutex'
<1>1. CASE EnBucle("ready")
  <2>1. Toca("ready", solo("sem_wait"), Quedan(enviar_proceso_a_ready, 1))
    BY <1>1, ReadyToca
  <2>2. /\ Tipos' /\ canal' = canal /\ HiloPasa("ready",
             Quedan(enviar_proceso_a_ready, 1))
        /\ mutex_memoria' = mutex_memoria
    BY <2>1, ElDesalojo, PasoConsola
  <2>3. Suyo("ready", Quedan(enviar_proceso_a_ready, 1)) /\ IgualCpu /\ IgualFs
          /\ IgualMem
    BY <2>2, KernelSolo
  <2> QED
    BY <2>2, <2>3, SuyoEs DEF ReadySinMutex, En, MismoMutex
<1>2. CASE En("ready", enviar_proceso_a_ready, 1)
  <2>1. Toca("ready", solo("lock"), Quedan(enviar_proceso_a_ready, 2))
    BY <1>2, ReadyToca
  <2>2. /\ Tipos' /\ canal' = canal /\ HiloPasa("ready",
             Quedan(enviar_proceso_a_ready, 2))
        /\ mutex_memoria = Nadie /\ mutex_memoria' = "ready"
    BY <2>1, ElDesalojo, PasoTomar
  <2>3. Suyo("ready", Quedan(enviar_proceso_a_ready, 2)) /\ IgualCpu /\ IgualFs
          /\ IgualMem
    BY <2>2, KernelSolo
  <2>4. Ajeno("ready") /\ por'["ready"] = Quedan(enviar_proceso_a_ready, 2)
    BY <2>3, SuyoEs
  <2>5. MemQuieta => MemQuieta'
    BY <2>3, MemIgual
  <2>6. MemQuieta => ReadyConMutex'
    BY <2>4, <2>5 DEF ReadyConMutex, En
  <2> QED
    BY <2>2, <2>3, <2>4, <2>6
<1> QED
  BY <1>1, <1>2 DEF ReadySinMutex

\* ... and once it has it.
LEMMA ReadyConPasa ==
    ASSUME Tipos, ReadyConMutex, Avanza("ready")
    PROVE  \/ Sigue1("ready") /\ ReadyConMutex'
           \/ Suelta("ready") /\ MemQuieta /\ EnBucle("ready")'
<1>1. CASE En("ready", enviar_proceso_a_ready, 2) /\ MemQuieta
  <2>1. Toca("ready", envia("kernel", "memoria", Op.AUX_CREATE_PCB, Entero),
          Quedan(enviar_proceso_a_ready, 3))
    BY <1>1, ReadyToca
  <2>2. Op.AUX_CREATE_PCB \in Int /\ Entero \in Seq(Palabras) /\ KmListo(<<>>)
          /\ mk = <<>>
    BY <1>1, Codigos, DatosTipos DEF MemQuieta
  <2>3. /\ Sigue1("ready") /\ por'["ready"] = Quedan(enviar_proceso_a_ready, 3)
        /\ KmListo(Paquete(Op.AUX_CREATE_PCB, Entero))' /\ mk' = mk
    BY <2>1, <2>2, PideAMemoria
  <2> QED
    BY <2>2, <2>3 DEF ReadyConMutex, En, PidePcb
<1>2. CASE En("ready", enviar_proceso_a_ready, 3) /\ PidePcb
  <2>1. Toca("ready", recibe("memoria", "kernel"),
          Quedan(enviar_proceso_a_ready, 4))
    BY <1>2, ReadyToca
  <2>2. mk # <<>>
    BY <2>1, NoHay DEF Hay, mk
  <2>3. KmListo(<<>>) /\ mk = Paquete(Op.AUX_CREATE_PCB, Tabla)
    BY <1>2, <2>2 DEF PidePcb, MemRespondio
  <2>4. Op.AUX_CREATE_PCB \in Int /\ Tabla \in Seq(Palabras)
    BY Codigos, DatosTipos
  <2>5. Va("ready", Quedan(enviar_proceso_a_ready, 4), <<"memoria", "kernel">>,
          Resto(Tabla))
    BY <2>1, <2>3, <2>4, PasoRecibePaquete, CanalesSon DEF Hay, mk
  <2>6. Sigue1("ready") /\ por'["ready"] = Quedan(enviar_proceso_a_ready, 4)
          /\ MemRespondio(Resto(Tabla))'
    BY <2>3, <2>5, LeeDeMemoria
  <2> QED
    BY <2>6 DEF ReadyConMutex, En
<1>3. CASE En("ready", enviar_proceso_a_ready, 4) /\ MemRespondio(Resto(Tabla))
  <2>1. Toca("ready", recibeBuffer("memoria", "kernel"),
          Quedan(enviar_proceso_a_ready, 5))
    BY <1>3, ReadyToca
  <2>2. KmListo(<<>>) /\ mk = Resto(Tabla) /\ Tabla \in Seq(Palabras)
    BY <1>3, DatosTipos, TresMas DEF MemRespondio
  <2>3. Va("ready", Quedan(enviar_proceso_a_ready, 5), <<"memoria", "kernel">>,
          <<>>)
    BY <2>1, <2>2, PasoBufferSolo, CanalesSon DEF Hay, mk
  <2>4. Sigue1("ready") /\ por'["ready"] = Quedan(enviar_proceso_a_ready, 5)
          /\ MemQuieta'
    BY <2>2, <2>3, LeeDeMemoria
  <2> QED
    BY <2>4 DEF ReadyConMutex, En
<1>4. CASE En("ready", enviar_proceso_a_ready, 5) /\ MemQuieta
  <2>1. Toca("ready", solo("unlock"), Bucle["ready"])
    BY <1>4, ReadyToca
  <2> QED
    BY <1>4, <2>1, Devuelve DEF EnBucle
<1> QED
  BY <1>1, <1>2, <1>3, <1>4 DEF ReadyConMutex

\* manejo_desalojo_pcb, with the mutex.
Retiene == Sigue1("desalojo") /\ DesalojoConMutex'
Libera == Suelta("desalojo") /\ MemQuieta /\ EnPaz'

\* The second packet of a request, after the first.
LEMMA Completa ==
    ASSUME Tipos, NEW op \in Int, NEW d \in Seq(Palabras), NEW y, Mitad(op),
           Toca("desalojo", envia("kernel", "memoria", op, d), y),
             Avanza("desalojo")
    PROVE  Sigue1("desalojo") /\ por'["desalojo"] = y /\ Entera(op, d)'
<1> DEFINE p == Paquete(op, d)
<1>1. Va("desalojo", y, <<"kernel", "memoria">>, km \o p)
  BY PasoEnvia, CanalesSon DEF Hay, km
<1>2. /\ Sigue1("desalojo") /\ por'["desalojo"] = y /\ km' = km \o p /\ mk' = mk
      /\ por'["memoria"] = por["memoria"]
      /\ por'["pedidos_kernel"] = por["pedidos_kernel"]
  BY <1>1, DeMemoria
<1>3. p \in Seq(Palabras) /\ Paquete(op, Pcb) \in Seq(Palabras) /\ mk' = <<>>
  BY <1>2, PaqueteTipo, DatosTipos DEF Mitad
<1>4. \A s, k : En("pedidos_kernel", s, k) => En("pedidos_kernel", s, k)'
  BY <1>2 DEF En
<1>5. <<>> \o p = p
  BY <1>3, ConcatEmptySeq
<1> HIDE DEF p
<1>6. CASE KmListo(Paquete(op, Pcb))
  <2>1. KmListo(Paquete(op, Pcb) \o p)'
    BY <1>2, <1>3, <1>6, KmCrece
  <2> QED
    BY <1>2, <1>3, <2>1 DEF Entera, p
<1>7. CASE En("pedidos_kernel", ejecutar_kernel_pedido(op), 0)
             /\ km = Resto(Pcb)
  BY <1>2, <1>3, <1>4, <1>7 DEF Entera, p
<1>8. CASE En("pedidos_kernel", ejecutar_kernel_pedido(op), 1) /\ km = <<>>
  BY <1>2, <1>3, <1>4, <1>5, <1>8 DEF Entera, p
<1> QED
  BY <1>6, <1>7, <1>8 DEF Mitad

\* It asks for a segment,
LEMMA PideCrearPasa ==
    ASSUME Tipos, SinOtraRespuesta, PideCrear(Crear, 2, 3, 4),
           Avanza("desalojo")
    PROVE  Retiene
<1>1. CASE En("desalojo", Crear, 2) /\ MemQuieta
  <2>1. Toca("desalojo", envia("kernel", "memoria", Op.I_CREATE_SEGMENT, Pcb),
          Quedan(Crear, 3))
    BY <1>1, CrearToca
  <2>2. Op.I_CREATE_SEGMENT \in Int /\ Pcb \in Seq(Palabras) /\ KmListo(<<>>)
          /\ mk = <<>>
    BY <1>1, Codigos, DatosTipos DEF MemQuieta
  <2>3. /\ Sigue1("desalojo") /\ por'["desalojo"] = Quedan(Crear, 3)
        /\ KmListo(Paquete(Op.I_CREATE_SEGMENT, Pcb))' /\ mk' = mk
    BY <2>1, <2>2, ElDesalojo, PideAMemoria
  <2>4. Mitad(Op.I_CREATE_SEGMENT)'
    BY <2>2, <2>3 DEF Mitad
  <2> QED
    BY <2>3, <2>4 DEF Retiene, DesalojoConMutex, PideCrear, PideBorrar, En
<1>2. CASE En("desalojo", Crear, 3) /\ Mitad(Op.I_CREATE_SEGMENT)
  <2>1. Toca("desalojo", envia("kernel", "memoria", Op.I_CREATE_SEGMENT,
          Entero \o Entero), Quedan(Crear, 4))
    BY <1>2, CrearToca
  <2>2. Op.I_CREATE_SEGMENT \in Int /\ Entero \o Entero \in Seq(Palabras)
    BY Codigos, DatosTipos, TresMas
  <2>3. Sigue1("desalojo") /\ por'["desalojo"] = Quedan(Crear, 4)
          /\ Entera(Op.I_CREATE_SEGMENT, Entero \o Entero)'
    BY <1>2, <2>1, <2>2, Completa
  <2> QED
    BY <2>3 DEF Retiene, DesalojoConMutex, PideCrear, PideBorrar, En
<1>3. CASE /\ En("desalojo", Crear, 4)
           /\ Entera(Op.I_CREATE_SEGMENT, Entero \o Entero) \/ RespondeCrear
  <2>1. TocaUltima("desalojo", mira("memoria", "kernel", "crear"))
    BY <1>3, CrearToca
  <2>2. mk # <<>>
    BY <2>1, NoHay DEF Hay, mk
  <2>3. PICK r \in Creaciones : KmListo(<<>>) /\ mk = Paquete(r, DatosDe(r))
    BY <1>3, <2>2 DEF Entera, RespondeCrear, MemRespondio
  <2>4. r \in Int /\ DatosDe(r) \in Seq(Palabras)
          /\ r \in {Op.AUX_OK, Op.COMPACTACION}
    BY Codigos, TresMas DEF SinOtraRespuesta
  <2> DEFINE t == IF r = Op.AUX_OK THEN Creado ELSE Compacta
  <2>5. t \in Seq(Llamadas) /\ Len(t) # 0
    <3>1. Creado \in Seq(Llamadas) /\ Len(Creado) # 0
      BY CreadoLlama
    <3>2. Compacta \in Seq(Llamadas) /\ Len(Compacta) # 0
      BY CompactaLlama
    <3> QED
      BY <3>1, <3>2
  <2>6. Sigue("crear", r) = t
    BY <2>4 DEF Sigue, TrasCrear, Creado, Compacta, Op
  <2>7. \/ r = Op.AUX_OK /\ t = Creado /\ DatosDe(r) = Puntero
        \/ t = Compacta /\ DatosDe(r) = <<>>
    BY <2>4 DEF DatosDe
  <2> HIDE DEF t
  <2>8. t # <<>>
    BY <2>5, NoVacia
  <2>9. Hay("memoria", "kernel", Paquete(r, DatosDe(r)))
    BY <2>3 DEF Hay, mk
  <2>10. Va("desalojo", t, <<"memoria", "kernel">>, Resto(DatosDe(r)))
    BY <2>1, <2>4, <2>5, <2>6, <2>8, <2>9, ElDesalojo, PasoMiraPaquete,
       CanalesSon
  <2>11. Sigue1("desalojo") /\ por'["desalojo"] = t
           /\ MemRespondio(Resto(DatosDe(r)))'
    BY <2>3, <2>10, LeeDeMemoria
  <2>12. Quedan(t, 0) = t
    BY <2>5, QuedaTodoONada
  <2>13. CASE t = Creado /\ DatosDe(r) = Puntero
    BY <2>11, <2>12, <2>13 DEF Retiene, DesalojoConMutex, En
  <2>14. CASE t = Compacta /\ DatosDe(r) = <<>>
    <3>1. PideCompactar(Compacta)'
      BY <2>11, <2>12, <2>14 DEF PideCompactar, En
    <3> QED
      BY <2>11, <3>1 DEF Retiene, DesalojoConMutex
  <2> QED
    BY <2>7, <2>13, <2>14
<1> QED
  BY <1>1, <1>2, <1>3 DEF PideCrear

\* ... asks again after a compaction,
LEMMA PideOtraVezPasa ==
    ASSUME Tipos, SinOtraRespuesta, PideCrear(Compacta, 6, 7, 8),
           Avanza("desalojo")
    PROVE  Retiene
<1>1. CASE En("desalojo", Compacta, 6) /\ MemQuieta
  <2>1. Toca("desalojo", envia("kernel", "memoria", Op.I_CREATE_SEGMENT, Pcb),
          Quedan(Compacta, 7))
    BY <1>1, CompactaToca
  <2>2. Op.I_CREATE_SEGMENT \in Int /\ Pcb \in Seq(Palabras) /\ KmListo(<<>>)
          /\ mk = <<>>
    BY <1>1, Codigos, DatosTipos DEF MemQuieta
  <2>3. /\ Sigue1("desalojo") /\ por'["desalojo"] = Quedan(Compacta, 7)
        /\ KmListo(Paquete(Op.I_CREATE_SEGMENT, Pcb))' /\ mk' = mk
    BY <2>1, <2>2, ElDesalojo, PideAMemoria
  <2>4. Mitad(Op.I_CREATE_SEGMENT)'
    BY <2>2, <2>3 DEF Mitad
  <2> QED
    BY <2>3, <2>4 DEF Retiene, DesalojoConMutex, PideCrear, PideBorrar, En
<1>2. CASE En("desalojo", Compacta, 7) /\ Mitad(Op.I_CREATE_SEGMENT)
  <2>1. Toca("desalojo", envia("kernel", "memoria", Op.I_CREATE_SEGMENT,
          Entero \o Entero), Quedan(Compacta, 8))
    BY <1>2, CompactaToca
  <2>2. Op.I_CREATE_SEGMENT \in Int /\ Entero \o Entero \in Seq(Palabras)
    BY Codigos, DatosTipos, TresMas
  <2>3. Sigue1("desalojo") /\ por'["desalojo"] = Quedan(Compacta, 8)
          /\ Entera(Op.I_CREATE_SEGMENT, Entero \o Entero)'
    BY <1>2, <2>1, <2>2, Completa
  <2> QED
    BY <2>3 DEF Retiene, DesalojoConMutex, PideCrear, PideBorrar, En
<1>3. CASE /\ En("desalojo", Compacta, 8)
           /\ Entera(Op.I_CREATE_SEGMENT, Entero \o Entero) \/ RespondeCrear
  <2>1. TocaUltima("desalojo", mira("memoria", "kernel", "crear_de_nuevo"))
    BY <1>3, CompactaToca
  <2>2. mk # <<>>
    BY <2>1, NoHay DEF Hay, mk
  <2>3. PICK r \in Creaciones : KmListo(<<>>) /\ mk = Paquete(r, DatosDe(r))
    BY <1>3, <2>2 DEF Entera, RespondeCrear, MemRespondio
  <2>4. r \in Int /\ DatosDe(r) \in Seq(Palabras)
          /\ r \in {Op.AUX_OK, Op.COMPACTACION}
    BY Codigos, TresMas DEF SinOtraRespuesta
  <2> DEFINE t == IF r = Op.AUX_OK THEN Creado ELSE CompactaOtraVez
  <2>5. t \in Seq(Llamadas) /\ Len(t) # 0
    <3>1. Creado \in Seq(Llamadas) /\ Len(Creado) # 0
      BY CreadoLlama
    <3>2. CompactaOtraVez \in Seq(Llamadas) /\ Len(CompactaOtraVez) # 0
      BY CompactaOtraVezLlama
    <3> QED
      BY <3>1, <3>2
  <2>6. Sigue("crear_de_nuevo", r) = t
    BY <2>4 DEF Sigue, TrasCrear, Creado, CompactaOtraVez, Op
  <2>7. \/ r = Op.AUX_OK /\ t = Creado /\ DatosDe(r) = Puntero
        \/ t = CompactaOtraVez /\ DatosDe(r) = <<>>
    BY <2>4 DEF DatosDe
  <2> HIDE DEF t
  <2>8. t # <<>>
    BY <2>5, NoVacia
  <2>9. Hay("memoria", "kernel", Paquete(r, DatosDe(r)))
    BY <2>3 DEF Hay, mk
  <2>10. Va("desalojo", t, <<"memoria", "kernel">>, Resto(DatosDe(r)))
    BY <2>1, <2>4, <2>5, <2>6, <2>8, <2>9, ElDesalojo, PasoMiraPaquete,
       CanalesSon
  <2>11. Sigue1("desalojo") /\ por'["desalojo"] = t
           /\ MemRespondio(Resto(DatosDe(r)))'
    BY <2>3, <2>10, LeeDeMemoria
  <2>12. Quedan(t, 0) = t
    BY <2>5, QuedaTodoONada
  <2>13. CASE t = Creado /\ DatosDe(r) = Puntero
    BY <2>11, <2>12, <2>13 DEF Retiene, DesalojoConMutex, En
  <2>14. CASE t = CompactaOtraVez /\ DatosDe(r) = <<>>
    <3>1. PideCompactar(CompactaOtraVez)'
      BY <2>11, <2>12, <2>14 DEF PideCompactar, En
    <3> QED
      BY <2>11, <3>1 DEF Retiene, DesalojoConMutex
  <2> QED
    BY <2>7, <2>13, <2>14
<1> QED
  BY <1>1, <1>2, <1>3 DEF PideCrear

\* ... deletes one
LEMMA PideBorrarPasa ==
    ASSUME Tipos, PideBorrar, Avanza("desalojo")
    PROVE  Retiene
<1>1. CASE En("desalojo", Borrar, 2) /\ MemQuieta
  <2>1. Toca("desalojo", envia("kernel", "memoria", Op.I_DELETE_SEGMENT, Pcb),
          Quedan(Borrar, 3))
    BY <1>1, BorrarToca
  <2>2. Op.I_DELETE_SEGMENT \in Int /\ Pcb \in Seq(Palabras) /\ KmListo(<<>>)
          /\ mk = <<>>
    BY <1>1, Codigos, DatosTipos DEF MemQuieta
  <2>3. /\ Sigue1("desalojo") /\ por'["desalojo"] = Quedan(Borrar, 3)
        /\ KmListo(Paquete(Op.I_DELETE_SEGMENT, Pcb))' /\ mk' = mk
    BY <2>1, <2>2, ElDesalojo, PideAMemoria
  <2>4. Mitad(Op.I_DELETE_SEGMENT)'
    BY <2>2, <2>3 DEF Mitad
  <2> QED
    BY <2>3, <2>4 DEF Retiene, DesalojoConMutex, PideCrear, PideBorrar, En
<1>2. CASE En("desalojo", Borrar, 3) /\ Mitad(Op.I_DELETE_SEGMENT)
  <2>1. Toca("desalojo", envia("kernel", "memoria", Op.I_DELETE_SEGMENT,
          Entero), Quedan(Borrar, 4))
    BY <1>2, BorrarToca
  <2>2. Op.I_DELETE_SEGMENT \in Int /\ Entero \in Seq(Palabras)
    BY Codigos, DatosTipos, TresMas
  <2>3. Sigue1("desalojo") /\ por'["desalojo"] = Quedan(Borrar, 4)
          /\ Entera(Op.I_DELETE_SEGMENT, Entero)'
    BY <1>2, <2>1, <2>2, Completa
  <2> QED
    BY <2>3 DEF Retiene, DesalojoConMutex, PideCrear, PideBorrar, En
<1>3. CASE /\ En("desalojo", Borrar, 4)
           /\ \/ Entera(Op.I_DELETE_SEGMENT, Entero)
              \/ MemRespondio(Paquete(Op.AUX_OK, Tabla))
  <2>1. TocaUltima("desalojo", mira("memoria", "kernel", "borrar"))
    BY <1>3, BorrarToca
  <2>2. mk # <<>>
    BY <2>1, NoHay DEF Hay, mk
  <2>3. KmListo(<<>>) /\ mk = Paquete(Op.AUX_OK, Tabla)
    BY <1>3, <2>2 DEF Entera, MemRespondio
  <2>4. Op.AUX_OK \in Int /\ Tabla \in Seq(Palabras)
    BY Codigos, DatosTipos
  <2>5. Borrado \in Seq(Llamadas) /\ Len(Borrado) # 0
    BY BorradoLlama
  <2>6. Sigue("borrar", Op.AUX_OK) = Borrado
    BY DEF Sigue, Borrado
  <2>8. Borrado # <<>> /\ Quedan(Borrado, 0) = Borrado
    BY <2>5, NoVacia, QuedaTodoONada
  <2>9. Hay("memoria", "kernel", Paquete(Op.AUX_OK, Tabla))
    BY <2>3 DEF Hay, mk
  <2>10. Va("desalojo", Borrado, <<"memoria", "kernel">>, Resto(Tabla))
    BY <2>1, <2>4, <2>5, <2>6, <2>8, <2>9, ElDesalojo, PasoMiraPaquete,
       CanalesSon
  <2>11. Sigue1("desalojo") /\ por'["desalojo"] = Borrado
           /\ MemRespondio(Resto(Tabla))'
    BY <2>3, <2>10, LeeDeMemoria
  <2> QED
    BY <2>8, <2>11 DEF Retiene, DesalojoConMutex, En
<1> QED
  BY <1>1, <1>2, <1>3 DEF PideBorrar

\* The kernel reads a word of the answer that asked for the compaction.
LEMMA CompactaLee ==
    ASSUME Tipos, NEW y, MemCompacta(Resto(<<>>)), Avanza("desalojo"),
           Toca("desalojo", recibe("memoria", "kernel"), y)
    PROVE  Sigue1("desalojo") /\ por'["desalojo"] = y /\ MemCompacta(<<>>)'
<1> DEFINE p == Paquete(Op.AUX_OK, Tabla)
<1>1. Va("desalojo", y, <<"memoria", "kernel">>, Tail(mk))
  BY PasoRecibe, CanalesSon DEF Hay, mk
<1>2. /\ Sigue1("desalojo") /\ por'["desalojo"] = y /\ km' = km
           /\ mk' = Tail(mk)
      /\ por'["memoria"] = por["memoria"]
      /\ por'["pedidos_kernel"] = por["pedidos_kernel"]
  BY <1>1, DeMemoria
<1>3. p \in Seq(Palabras) /\ <<>> \in Seq(Palabras)
  BY PaqueteTipo, DatosTipos, Codigos
<1>4. Tail(Resto(<<>>)) = <<>>
  BY <1>3, RestoSolo
<1>5. Tail(Resto(<<>>) \o p) = <<>> \o p
  BY <1>3, RestoDe
<1>6. \A w : KmListo(w) => KmListo(w)'
  BY <1>2 DEF KmListo, EnBucle, SinEmpezar, Saluda, Atiende, En, Ahora
<1>7. \A s, k : En("pedidos_kernel", s, k) => En("pedidos_kernel", s, k)'
  BY <1>2 DEF En
<1>8. CASE MemRespondio(Resto(<<>>) \o p)
  <2>1. MemRespondio(<<>> \o p)'
    BY <1>2, <1>5, <1>6, <1>8 DEF MemRespondio
  <2> QED
    BY <1>2, <2>1 DEF MemCompacta
<1>9. CASE ~MemRespondio(Resto(<<>>) \o p)
  BY <1>2, <1>4, <1>6, <1>7, <1>9 DEF MemCompacta
<1> QED
  BY <1>8, <1>9

\* ... and has Memoria compact,
LEMMA CompactarPasa ==
    ASSUME Tipos, PideCompactar(Compacta), Avanza("desalojo")
    PROVE  Retiene \/ Libera
<1>1. CASE En("desalojo", Compacta, 0) /\ MemRespondio(Resto(<<>>))
  <2>1. Toca("desalojo", envia("kernel", "memoria", Op.COMPACTACION, <<>>),
          Quedan(Compacta, 1))
    BY <1>1, CompactaToca
  <2>2. /\ Op.COMPACTACION \in Int /\ <<>> \in Seq(Palabras) /\ KmListo(<<>>)
        /\ mk = Resto(<<>>)
    BY <1>1, Codigos, DatosTipos DEF MemRespondio
  <2>3. /\ Sigue1("desalojo") /\ por'["desalojo"] = Quedan(Compacta, 1)
        /\ KmListo(Paquete(Op.COMPACTACION, <<>>))' /\ mk' = mk
    BY <2>1, <2>2, ElDesalojo, PideAMemoria
  <2>4. MemCompacta(Resto(<<>>))'
    BY <2>2, <2>3 DEF MemCompacta
  <2> QED
    BY <2>3, <2>4 DEF Retiene, DesalojoConMutex, PideCompactar, En
<1>2. CASE En("desalojo", Compacta, 1) /\ MemCompacta(Resto(<<>>))
  <2>1. Toca("desalojo", recibe("memoria", "kernel"), Quedan(Compacta, 2))
    BY <1>2, CompactaToca
  <2>2. Sigue1("desalojo") /\ por'["desalojo"] = Quedan(Compacta, 2)
          /\ MemCompacta(<<>>)'
    BY <1>2, <2>1, CompactaLee
  <2> QED
    BY <2>2 DEF Retiene, DesalojoConMutex, PideCompactar, En
<1>3. CASE En("desalojo", Compacta, 2) /\ MemCompacta(<<>>)
  <2>1. Toca("desalojo", recibe("memoria", "kernel"), Quedan(Compacta, 3))
    BY <1>3, CompactaToca
  <2>2. mk # <<>>
    BY <2>1, NoHay DEF Hay, mk
  <2>0. Paquete(Op.AUX_OK, Tabla) \in Seq(Palabras)
    BY PaqueteTipo, DatosTipos, Codigos
  <2>3. KmListo(<<>>) /\ mk = Paquete(Op.AUX_OK, Tabla)
    BY <1>3, <2>0, <2>2, ConcatEmptySeq DEF MemCompacta, MemRespondio
  <2>4. Op.AUX_OK \in Int /\ Tabla \in Seq(Palabras)
    BY Codigos, DatosTipos
  <2>5. Va("desalojo", Quedan(Compacta, 3), <<"memoria", "kernel">>,
          Resto(Tabla))
    BY <2>1, <2>3, <2>4, PasoRecibePaquete, CanalesSon DEF Hay, mk
  <2>6. Sigue1("desalojo") /\ por'["desalojo"] = Quedan(Compacta, 3)
          /\ MemRespondio(Resto(Tabla))'
    BY <2>3, <2>5, LeeDeMemoria
  <2> QED
    BY <2>6 DEF Retiene, DesalojoConMutex, PideCompactar, En
<1>4. CASE En("desalojo", Compacta, 3) /\ MemRespondio(Resto(Tabla))
  <2>1. Toca("desalojo", recibeBuffer("memoria", "kernel"), Quedan(Compacta, 4))
    BY <1>4, CompactaToca
  <2>2. KmListo(<<>>) /\ mk = Resto(Tabla) /\ Tabla \in Seq(Palabras)
    BY <1>4, DatosTipos, TresMas DEF MemRespondio
  <2>3. Va("desalojo", Quedan(Compacta, 4), <<"memoria", "kernel">>, <<>>)
    BY <2>1, <2>2, PasoBufferSolo, CanalesSon DEF Hay, mk
  <2>4. Sigue1("desalojo") /\ por'["desalojo"] = Quedan(Compacta, 4)
          /\ MemQuieta'
    BY <2>2, <2>3, LeeDeMemoria
  <2> QED
    BY <2>4 DEF Retiene, DesalojoConMutex, PideCompactar, En
<1>5. CASE En("desalojo", Compacta, 4) /\ MemQuieta
  <2>1. Toca("desalojo", solo("unlock"), Quedan(Compacta, 5))
    BY <1>5, CompactaToca
  <2> QED
    BY <1>5, <2>1, Devuelve DEF Libera, EnPaz, En, EnBucle
<1> QED
  BY <1>1, <1>2, <1>3, <1>4, <1>5 DEF PideCompactar

\* ... also the second time.
LEMMA CompactarOtraVezPasa ==
    ASSUME Tipos, PideCompactar(CompactaOtraVez), Avanza("desalojo")
    PROVE  Retiene \/ Libera
<1>1. CASE En("desalojo", CompactaOtraVez, 0) /\ MemRespondio(Resto(<<>>))
  <2>1. Toca("desalojo", envia("kernel", "memoria", Op.COMPACTACION, <<>>),
          Quedan(CompactaOtraVez, 1))
    BY <1>1, CompactaOtraVezToca
  <2>2. /\ Op.COMPACTACION \in Int /\ <<>> \in Seq(Palabras) /\ KmListo(<<>>)
        /\ mk = Resto(<<>>)
    BY <1>1, Codigos, DatosTipos DEF MemRespondio
  <2>3. /\ Sigue1("desalojo") /\ por'["desalojo"] = Quedan(CompactaOtraVez, 1)
        /\ KmListo(Paquete(Op.COMPACTACION, <<>>))' /\ mk' = mk
    BY <2>1, <2>2, ElDesalojo, PideAMemoria
  <2>4. MemCompacta(Resto(<<>>))'
    BY <2>2, <2>3 DEF MemCompacta
  <2> QED
    BY <2>3, <2>4 DEF Retiene, DesalojoConMutex, PideCompactar, En
<1>2. CASE En("desalojo", CompactaOtraVez, 1) /\ MemCompacta(Resto(<<>>))
  <2>1. Toca("desalojo", recibe("memoria", "kernel"),
          Quedan(CompactaOtraVez, 2))
    BY <1>2, CompactaOtraVezToca
  <2>2. Sigue1("desalojo") /\ por'["desalojo"] = Quedan(CompactaOtraVez, 2)
          /\ MemCompacta(<<>>)'
    BY <1>2, <2>1, CompactaLee
  <2> QED
    BY <2>2 DEF Retiene, DesalojoConMutex, PideCompactar, En
<1>3. CASE En("desalojo", CompactaOtraVez, 2) /\ MemCompacta(<<>>)
  <2>1. Toca("desalojo", recibe("memoria", "kernel"),
          Quedan(CompactaOtraVez, 3))
    BY <1>3, CompactaOtraVezToca
  <2>2. mk # <<>>
    BY <2>1, NoHay DEF Hay, mk
  <2>0. Paquete(Op.AUX_OK, Tabla) \in Seq(Palabras)
    BY PaqueteTipo, DatosTipos, Codigos
  <2>3. KmListo(<<>>) /\ mk = Paquete(Op.AUX_OK, Tabla)
    BY <1>3, <2>0, <2>2, ConcatEmptySeq DEF MemCompacta, MemRespondio
  <2>4. Op.AUX_OK \in Int /\ Tabla \in Seq(Palabras)
    BY Codigos, DatosTipos
  <2>5. Va("desalojo", Quedan(CompactaOtraVez, 3), <<"memoria", "kernel">>,
          Resto(Tabla))
    BY <2>1, <2>3, <2>4, PasoRecibePaquete, CanalesSon DEF Hay, mk
  <2>6. Sigue1("desalojo") /\ por'["desalojo"] = Quedan(CompactaOtraVez, 3)
          /\ MemRespondio(Resto(Tabla))'
    BY <2>3, <2>5, LeeDeMemoria
  <2> QED
    BY <2>6 DEF Retiene, DesalojoConMutex, PideCompactar, En
<1>4. CASE En("desalojo", CompactaOtraVez, 3) /\ MemRespondio(Resto(Tabla))
  <2>1. Toca("desalojo", recibeBuffer("memoria", "kernel"),
          Quedan(CompactaOtraVez, 4))
    BY <1>4, CompactaOtraVezToca
  <2>2. KmListo(<<>>) /\ mk = Resto(Tabla) /\ Tabla \in Seq(Palabras)
    BY <1>4, DatosTipos, TresMas DEF MemRespondio
  <2>3. Va("desalojo", Quedan(CompactaOtraVez, 4), <<"memoria", "kernel">>,
          <<>>)
    BY <2>1, <2>2, PasoBufferSolo, CanalesSon DEF Hay, mk
  <2>4. Sigue1("desalojo") /\ por'["desalojo"] = Quedan(CompactaOtraVez, 4)
          /\ MemQuieta'
    BY <2>2, <2>3, LeeDeMemoria
  <2> QED
    BY <2>4 DEF Retiene, DesalojoConMutex, PideCompactar, En
<1>5. CASE En("desalojo", CompactaOtraVez, 4) /\ MemQuieta
  <2>1. Toca("desalojo", solo("unlock"), Bucle["desalojo"])
    BY <1>5, CompactaOtraVezToca
  <2> QED
    BY <1>5, <2>1, Devuelve DEF Libera, EnPaz, En, EnBucle
<1> QED
  BY <1>1, <1>2, <1>3, <1>4, <1>5 DEF PideCompactar

\* With the mutex it goes on with its request or gives it back.
LEMMA ConMutexPasa ==
    ASSUME Tipos, SinOtraRespuesta, DesalojoConMutex, Avanza("desalojo")
    PROVE  Retiene \/ Libera
<1>1. CASE PideCrear(Crear, 2, 3, 4)
  BY <1>1, PideCrearPasa
<1>2. CASE PideCrear(Compacta, 6, 7, 8)
  BY <1>2, PideOtraVezPasa
<1>3. CASE PideBorrar
  BY <1>3, PideBorrarPasa
<1>4. CASE PideCompactar(Compacta)
  BY <1>4, CompactarPasa
<1>5. CASE PideCompactar(CompactaOtraVez)
  BY <1>5, CompactarOtraVezPasa
<1>6. CASE En("desalojo", Creado, 0) /\ MemRespondio(Resto(Puntero))
  <2>1. Toca("desalojo", recibeBuffer("memoria", "kernel"), Quedan(Creado, 1))
    BY <1>6, CreadoToca
  <2>2. KmListo(<<>>) /\ mk = Resto(Puntero) /\ Puntero \in Seq(Palabras)
    BY <1>6, DatosTipos, TresMas DEF MemRespondio
  <2>3. Va("desalojo", Quedan(Creado, 1), <<"memoria", "kernel">>, <<>>)
    BY <2>1, <2>2, PasoBufferSolo, CanalesSon DEF Hay, mk
  <2>4. Sigue1("desalojo") /\ por'["desalojo"] = Quedan(Creado, 1) /\ MemQuieta'
    BY <2>2, <2>3, LeeDeMemoria
  <2> QED
    BY <2>4 DEF Retiene, DesalojoConMutex, En
<1>7. CASE En("desalojo", Creado, 1) /\ MemQuieta
  <2>1. Toca("desalojo", solo("unlock"), Bucle["desalojo"])
    BY <1>7, CreadoToca
  <2> QED
    BY <1>7, <2>1, Devuelve DEF Libera, EnPaz, En, EnBucle
<1>8. CASE En("desalojo", Borrado, 0) /\ MemRespondio(Resto(Tabla))
  <2>1. Toca("desalojo", recibeBuffer("memoria", "kernel"), Quedan(Borrado, 1))
    BY <1>8, BorradoToca
  <2>2. KmListo(<<>>) /\ mk = Resto(Tabla) /\ Tabla \in Seq(Palabras)
    BY <1>8, DatosTipos, TresMas DEF MemRespondio
  <2>3. Va("desalojo", Quedan(Borrado, 1), <<"memoria", "kernel">>, <<>>)
    BY <2>1, <2>2, PasoBufferSolo, CanalesSon DEF Hay, mk
  <2>4. Sigue1("desalojo") /\ por'["desalojo"] = Quedan(Borrado, 1)
          /\ MemQuieta'
    BY <2>2, <2>3, LeeDeMemoria
  <2> QED
    BY <2>4 DEF Retiene, DesalojoConMutex, En
<1>9. CASE En("desalojo", Borrado, 1) /\ MemQuieta
  <2>1. Toca("desalojo", solo("unlock"), Bucle["desalojo"])
    BY <1>9, BorradoToca
  <2> QED
    BY <1>9, <2>1, Devuelve DEF Libera, EnPaz, En, EnBucle
<1> QED
  BY <1>1, <1>2, <1>3, <1>4, <1>5, <1>6, <1>7, <1>8, <1>9 DEF DesalojoConMutex
-----------------------------------------------------------------------------
(* Once the kernel is connected *)

KernelIgual ==
    /\ por'["kernel"] = por["kernel"] /\ por'["ready"] = por["ready"]
    /\ por'["desalojo"] = por["desalojo"]

\* Steps of the modules leave the threads of the kernel alone.
LEMMA SoloSon ==
    /\ SoloCpu => /\ Tipos' /\ IgualCF /\ MismoMutex /\ KernelIgual
                  /\ IgualFs /\ IgualMem /\ IgualPedidosFs
    /\ SoloFs => /\ Tipos' /\ IgualCF /\ MismoMutex /\ KernelIgual
                 /\ IgualCpu /\ IgualMem /\ IgualPedidosFs
    /\ SoloMem => /\ Tipos' /\ IgualCF /\ MismoMutex /\ KernelIgual
                  /\ IgualCpu /\ IgualFs /\ IgualPedidosFs
    /\ SoloPedidosFs => /\ Tipos' /\ IgualCF /\ MismoMutex /\ KernelIgual
                        /\ IgualCpu /\ IgualFs /\ IgualMem
<1> USE HilosSon
       DEF Resto4, MismoMutex, KernelIgual, IgualCpu, IgualFs, IgualMem,
           IgualPedidosFs
<1>1. ASSUME SoloCpu
      PROVE  /\ Tipos' /\ IgualCF /\ MismoMutex /\ KernelIgual
             /\ IgualFs /\ IgualMem /\ IgualPedidosFs
  BY <1>1 DEF SoloCpu
<1>2. ASSUME SoloFs
      PROVE  /\ Tipos' /\ IgualCF /\ MismoMutex /\ KernelIgual
             /\ IgualCpu /\ IgualMem /\ IgualPedidosFs
  BY <1>2 DEF SoloFs
<1>3. ASSUME SoloMem
      PROVE  /\ Tipos' /\ IgualCF /\ MismoMutex /\ KernelIgual
             /\ IgualCpu /\ IgualFs /\ IgualPedidosFs
  BY <1>3 DEF SoloMem
<1>4. ASSUME SoloPedidosFs
      PROVE  /\ Tipos' /\ IgualCF /\ MismoMutex /\ KernelIgual
             /\ IgualCpu /\ IgualFs /\ IgualMem
  BY <1>4 DEF SoloPedidosFs
<1> QED
  BY <1>1, <1>2, <1>3, <1>4

\* What is said of a thread holds while it does not move.
LEMMA DesalojoIgual ==
    ASSUME por'["desalojo"] = por["desalojo"]
    PROVE  /\ \A s, k : En("desalojo", s, k) => En("desalojo", s, k)'
           /\ EnPaz => EnPaz'
<1>1. \A s, k : En("desalojo", s, k) => En("desalojo", s, k)'
  BY DEF En
<1>2. EnBucle("desalojo") => EnBucle("desalojo")'
  BY DEF EnBucle
<1> QED
  BY <1>1, <1>2 DEF EnPaz

\* The same of the other.
LEMMA ReadyIgual ==
    ASSUME por'["ready"] = por["ready"]
    PROVE  /\ \A s, k : En("ready", s, k) => En("ready", s, k)'
           /\ ReadySinMutex => ReadySinMutex'
           /\ ReadyConMutex /\ IgualMem => ReadyConMutex'
<1>1. \A s, k : En("ready", s, k) => En("ready", s, k)'
  BY DEF En
<1>2. EnBucle("ready") => EnBucle("ready")'
  BY DEF EnBucle
<1>3. ReadySinMutex => ReadySinMutex'
  BY <1>1, <1>2 DEF ReadySinMutex
<1>4. ReadyConMutex /\ IgualMem => ReadyConMutex'
  BY <1>1, MemIgual DEF ReadyConMutex
<1> QED
  BY <1>1, <1>3, <1>4

\* The parts of the system that a step of another one leaves alone.
LEMMA SinMutexIgual ==
    ASSUME por'["desalojo"] = por["desalojo"], IgualCpu, IgualFs,
           DesalojoSinMutex
    PROVE  DesalojoSinMutex'
<1>1. CASE EnPaz /\ CpuQuieta /\ FsQuieto
  BY <1>1, DesalojoIgual, CpuIgual, FsIgual DEF DesalojoSinMutex
<1>2. CASE En("desalojo", manejo_desalojo_pcb, 1) /\ CpuAtiende /\ FsQuieto
  BY <1>2, DesalojoIgual, CpuIgual, FsIgual DEF DesalojoSinMutex
<1>3. CASE Devuelto /\ PedidosCpuQuieto /\ EnBucle("cpu") /\ kc = <<>>
             /\ ck = Resto(Pcb) /\ FsQuieto
  <2>1. Devuelto'
    BY <1>3, DesalojoIgual DEF Devuelto
  <2>2. PedidosCpuQuieto' /\ EnBucle("cpu")' /\ FsQuieto'
    BY <1>3, CpuIgual, FsIgual
  <2>3. kc' = <<>> /\ ck' = Resto(Pcb)
    BY <1>3 DEF IgualCpu, IgualKC
  <2> QED
    BY <2>1, <2>2, <2>3 DEF DesalojoSinMutex, Devuelto
<1>4. CASE EsperaAlFileSystem /\ CpuQuieta
  <2>1. EsperaAlFileSystem'
    BY <1>4, DesalojoIgual, FsIgual DEF EsperaAlFileSystem
  <2> QED
    BY <1>4, <2>1, CpuIgual DEF DesalojoSinMutex
<1> QED
  BY <1>1, <1>2, <1>3, <1>4 DEF DesalojoSinMutex, Devuelto

\* ... and with it.
LEMMA ConMutexIgual ==
    ASSUME por'["desalojo"] = por["desalojo"], IgualMem, DesalojoConMutex
    PROVE  DesalojoConMutex'
<1>1. \A s, k : En("desalojo", s, k) => En("desalojo", s, k)'
  BY DesalojoIgual
<1>2. /\ MemQuieta => MemQuieta'
      /\ RespondeCrear => RespondeCrear'
  BY MemIgual
<1>3. \A w : MemRespondio(w) => MemRespondio(w)'
  BY MemIgual
<1>4. /\ \A op : Mitad(op) => Mitad(op)'
      /\ \A op, d : Entera(op, d) => Entera(op, d)'
      /\ \A r : MemCompacta(r) => MemCompacta(r)'
  BY MemIgual
<1>5. \A s, i, j, k : PideCrear(s, i, j, k) => PideCrear(s, i, j, k)'
  BY <1>1, <1>2, <1>4 DEF PideCrear
<1>6. PideBorrar => PideBorrar'
  BY <1>1, <1>2, <1>3, <1>4 DEF PideBorrar
<1>7. \A s : PideCompactar(s) => PideCompactar(s)'
  BY <1>1, <1>2, <1>3, <1>4 DEF PideCompactar
<1> QED
  BY <1>1, <1>2, <1>3, <1>5, <1>6, <1>7 DEF DesalojoConMutex

\* A step of the CPU.
LEMMA CpuQuietaEspera ==
    ASSUME Tipos, PedidosCpuQuieto, EnBucle("cpu"), kc = <<>>,
           NEW h \in {"cpu", "pedidos_cpu"}
    PROVE  ~Avanza(h)
<1>1. ~Avanza("pedidos_cpu")
  BY PedidosCpuEspera DEF PedidosCpuQuieto
<1>2. Toca("cpu", recibe("kernel", "cpu"), Quedan(atender_kernel, 1))
  BY AtenderKernelToca
<1>3. Hay("kernel", "cpu", <<>>)
  BY DEF Hay, kc
<1>4. ~Avanza("cpu")
  BY <1>2, <1>3, NoHay
<1> QED
  BY <1>1, <1>4

\* A step of the CPU,
LEMMA SinMutexCpu ==
    ASSUME Tipos, SinPedidosDelFs, DesalojoSinMutex,
           NEW h \in {"cpu", "pedidos_cpu"}, Avanza(h)
    PROVE  SoloCpu /\ DesalojoSinMutex'
<1>1. ~CpuQuieta
  BY CpuQuietaEspera, QuietosSon
<1>2. ~(PedidosCpuQuieto /\ EnBucle("cpu") /\ kc = <<>>)
  BY CpuQuietaEspera
<1>3. En("desalojo", manejo_desalojo_pcb, 1) /\ CpuAtiende /\ FsQuieto
  BY <1>1, <1>2 DEF DesalojoSinMutex
<1>4. SoloCpu /\ CpuAtiende'
  BY <1>3, CpuPasa
<1>5. IgualFs /\ KernelIgual
  BY <1>4, SoloSon
<1>6. FsQuieto' /\ En("desalojo", manejo_desalojo_pcb, 1)'
  BY <1>3, <1>5, FsIgual, DesalojoIgual DEF KernelIgual
<1> QED
  BY <1>4, <1>6 DEF DesalojoSinMutex

\* A step of the FileSystem.
LEMMA FsQuietoEspera ==
    ASSUME Tipos, EnBucle("fs"), kf = <<>>
    PROVE  ~Avanza("fs")
BY FsEspera

\* ... and one of the FileSystem.
LEMMA SinMutexFs ==
    ASSUME Tipos, DesalojoSinMutex, Avanza("fs")
    PROVE  SoloFs /\ DesalojoSinMutex'
<1>1. ~(EnBucle("fs") /\ kf = <<>>)
  BY FsQuietoEspera
<1>2. ~FsQuieto /\ ~FsRespondio
  BY <1>1, QuietosSon DEF FsRespondio
<1>3. EsperaAlFileSystem /\ CpuQuieta
  BY <1>2 DEF DesalojoSinMutex
<1>4. SoloFs /\ EsperaAlFileSystem'
  <2>1. ASSUME NEW op \in Pedidos, NEW d \in Seq(Palabras), FsAtiende(op, d)
        PROVE  SoloFs /\ FsAtiende(op, d)' /\ KernelIgual
    BY <2>1, FsPasa, SoloSon
  <2>2. /\ Op.I_F_OPEN \in Pedidos /\ Op.KERNEL_CREAR_ARCHIVO \in Pedidos
        /\ Op.I_TRUNCATE \in Pedidos /\ Nombre \in Seq(Palabras)
        /\ Nombre \o Cifras \in Seq(Palabras)
    BY DatosTipos, TresMas DEF Pedidos
  <2>3. KernelIgual => \A s, k : En("desalojo", s, k) => En("desalojo", s, k)'
    BY DEF KernelIgual, En
  <2>4. CASE En("desalojo", Abrir, 2) /\ FsAtiende(Op.I_F_OPEN, Nombre)
    BY <2>1, <2>2, <2>3, <2>4 DEF EsperaAlFileSystem
  <2>5. CASE En("desalojo", NoAbierto, 2)
               /\ FsAtiende(Op.KERNEL_CREAR_ARCHIVO, Nombre)
    BY <2>1, <2>2, <2>3, <2>5 DEF EsperaAlFileSystem
  <2>6. CASE En("desalojo", Truncar, 2)
               /\ FsAtiende(Op.I_TRUNCATE, Nombre \o Cifras)
    BY <2>1, <2>2, <2>3, <2>6 DEF EsperaAlFileSystem
  <2> QED
    BY <1>2, <1>3, <2>4, <2>5, <2>6 DEF EsperaAlFileSystem
<1>5. CpuQuieta'
  BY <1>3, <1>4, SoloSon, CpuIgual
<1> QED
  BY <1>4, <1>5 DEF DesalojoSinMutex

\* A step of Memoria, for the kernel.
LEMMA ReadyMemoria ==
    ASSUME Tipos, MemoriaTermina, ReadyConMutex,
           NEW h \in {"memoria", "pedidos_kernel"}, Avanza(h)
    PROVE  SoloMem /\ MemoriaTermina' /\ ReadyConMutex'
<1>1. SoloMem => \A s, k : En("ready", s, k) => En("ready", s, k)'
  BY SoloSon DEF KernelIgual, En
<1>2. \A w : MemRespondio(w) => SoloMem /\ MemoriaTermina' /\ MemRespondio(w)'
  BY MemRespondioPasa
<1>3. MemQuieta => SoloMem /\ MemoriaTermina' /\ MemQuieta'
  BY MemQuietaPasa
<1>4. PidePcb => SoloMem /\ MemoriaTermina' /\ PidePcb'
  BY PidePcbPasa
<1> QED
  BY <1>1, <1>2, <1>3, <1>4 DEF ReadyConMutex

\* The same for the thread that attends to the CPU.
LEMMA DesalojoMemoria ==
    ASSUME Tipos, SinOtraRespuesta, MemoriaTermina, DesalojoConMutex,
           NEW h \in {"memoria", "pedidos_kernel"}, Avanza(h)
    PROVE  SoloMem /\ MemoriaTermina' /\ DesalojoConMutex'
<1>1. SoloMem => \A s, k : En("desalojo", s, k) => En("desalojo", s, k)'
  BY SoloSon DEF KernelIgual, En
<1>2. \A w : MemRespondio(w) => SoloMem /\ MemoriaTermina' /\ MemRespondio(w)'
  BY MemRespondioPasa
<1>3. MemQuieta => SoloMem /\ MemoriaTermina' /\ MemQuieta'
  BY MemQuietaPasa
<1>4. /\ Mitad(Op.I_CREATE_SEGMENT) => SoloMem /\ MemoriaTermina'
           /\ Mitad(Op.I_CREATE_SEGMENT)'
      /\ Entera(Op.I_CREATE_SEGMENT, Entero \o Entero) \/ RespondeCrear =>
            /\ SoloMem /\ MemoriaTermina'
            /\ (Entera(Op.I_CREATE_SEGMENT, Entero \o Entero) \/ RespondeCrear)'
  BY MitadCrearPasa, EnteraCrearPasa, RespondeCrearPasa
<1>5. \A s, i, j, k : PideCrear(s, i, j, k) =>
         SoloMem /\ MemoriaTermina' /\ PideCrear(s, i, j, k)'
  BY <1>1, <1>3, <1>4 DEF PideCrear
<1>6. PideBorrar => SoloMem /\ MemoriaTermina' /\ PideBorrar'
  <2>1. CASE En("desalojo", Borrar, 2) /\ MemQuieta
    BY <1>1, <1>3, <2>1 DEF PideBorrar
  <2>2. CASE En("desalojo", Borrar, 3) /\ Mitad(Op.I_DELETE_SEGMENT)
    BY <1>1, <2>2, MitadBorrarPasa DEF PideBorrar
  <2>3. CASE En("desalojo", Borrar, 4) /\ Entera(Op.I_DELETE_SEGMENT, Entero)
    BY <1>1, <2>3, EnteraBorrarPasa DEF PideBorrar
  <2>4. CASE En("desalojo", Borrar, 4)
               /\ MemRespondio(Paquete(Op.AUX_OK, Tabla))
    BY <1>1, <1>2, <2>4 DEF PideBorrar
  <2> QED
    BY <2>1, <2>2, <2>3, <2>4 DEF PideBorrar
<1>7. /\ MemCompacta(<<>>) => SoloMem /\ MemoriaTermina' /\ MemCompacta(<<>>)'
      /\ MemCompacta(Resto(<<>>)) => SoloMem /\ MemoriaTermina'
           /\ MemCompacta(Resto(<<>>))'
  <2>1. <<>> \in Seq(Palabras) /\ Resto(<<>>) \in Seq(Palabras)
    BY DatosTipos, PaqueteTipo, Codigos
  <2> QED
    BY <2>1, MemCompactaPasa
<1>8. \A s : PideCompactar(s) => SoloMem /\ MemoriaTermina' /\ PideCompactar(s)'
  BY <1>1, <1>2, <1>3, <1>7 DEF PideCompactar
<1> QED
  BY <1>1, <1>2, <1>3, <1>5, <1>6, <1>8 DEF DesalojoConMutex

\* The main thread of the kernel has nothing more to do.
LEMMA KernelTermino ==
    ASSUME En("kernel", Inicio.kernel, 9)
    PROVE  ~Avanza("kernel")
<1> DEFINE s == Inicio.kernel
<1>1. s \in Seq(Llamadas) /\ 9 \in 0..Len(s) - 1 /\ s[9 + 1] = solo("fin")
  BY InicioKernelLlama
<1> HIDE DEF s
<1>2. Head(Quedan(s, 9)) = s[9 + 1]
  BY <1>1, LoQueQueda
<1>3. Ahora("kernel") = [paso |-> "fin"]
  BY <1>1, <1>2 DEF Ahora, En, solo, s
<1> QED
  BY <1>3, NoSigueFin

\* A step, once the kernel is connected.
LEMMA MarchaPasa ==
    ASSUME Tipos, SinPedidosDelFs, SinOtraRespuesta, Marcha, NEW h \in Hilos,
           Avanza(h)
    PROVE  Tipos' /\ IgualCF /\ Marcha'
<1>a. Nadie # "ready" /\ Nadie # "desalojo"
  BY NadieAssumption
<1>b. En("kernel", Inicio.kernel, 9) /\ PedidosFs /\ MemoriaTermina
  BY DEF Marcha
<1>1. CASE h = "kernel"
  BY <1>1, <1>b, KernelTermino
<1>2. CASE h \in {"memoria", "pedidos_kernel"}
  <2>1. /\ mutex_memoria = Nadie => SoloMem /\ MemoriaTermina' /\ MemQuieta'
        /\ mutex_memoria = "ready" => SoloMem /\ MemoriaTermina'
             /\ ReadyConMutex'
        /\ mutex_memoria = "desalojo"
             => SoloMem /\ MemoriaTermina' /\ DesalojoConMutex'
    BY <1>a, <1>b, <1>2, MemQuietaPasa, ReadyMemoria, DesalojoMemoria DEF Marcha
  <2>2. SoloMem /\ MemoriaTermina'
    BY <2>1 DEF Marcha
  <2>3. /\ Tipos' /\ IgualCF /\ MismoMutex /\ KernelIgual
        /\ IgualCpu /\ IgualFs /\ IgualPedidosFs
    BY <2>2, SoloSon
  <2>4. En("kernel", Inicio.kernel, 9)' /\ PedidosFs'
    BY <1>b, <2>3, PedidosFsIgual DEF KernelIgual, En
  <2>5. /\ DesalojoSinMutex => DesalojoSinMutex'
        /\ ReadySinMutex => ReadySinMutex'
        /\ CpuQuieta => CpuQuieta'
        /\ FsQuieto => FsQuieto'
    BY <2>3, SinMutexIgual, ReadyIgual, CpuIgual, FsIgual DEF KernelIgual
  <2> QED
    BY <1>a, <2>1, <2>2, <2>3, <2>4, <2>5 DEF Marcha, MismoMutex
<1>3. CASE h \in {"cpu", "pedidos_cpu"}
  <2>1. ~CpuQuieta
    BY <1>3, CpuQuietaEspera, QuietosSon
  <2>2. mutex_memoria # "desalojo" /\ DesalojoSinMutex
    BY <2>1, <1>a DEF Marcha
  <2>3. SoloCpu /\ DesalojoSinMutex'
    BY <1>3, <2>2, SinMutexCpu
  <2>4. /\ Tipos' /\ IgualCF /\ MismoMutex /\ KernelIgual
        /\ IgualFs /\ IgualMem /\ IgualPedidosFs
    BY <2>3, SoloSon
  <2>5. /\ En("kernel", Inicio.kernel, 9)' /\ PedidosFs' /\ MemoriaTermina'
        /\ MemQuieta => MemQuieta'
        /\ ReadySinMutex => ReadySinMutex'
        /\ ReadyConMutex => ReadyConMutex'
    BY <1>b, <2>4, PedidosFsIgual, MemIgual, ReadyIgual DEF KernelIgual, En
  <2> QED
    BY <1>a, <2>2, <2>3, <2>4, <2>5 DEF Marcha, MismoMutex
<1>4. CASE h = "fs"
  <2>1. ~FsQuieto
    BY <1>4, FsQuietoEspera, QuietosSon
  <2>2. mutex_memoria # "desalojo" /\ DesalojoSinMutex
    BY <2>1, <1>a DEF Marcha
  <2>3. SoloFs /\ DesalojoSinMutex'
    BY <1>4, <2>2, SinMutexFs
  <2>4. /\ Tipos' /\ IgualCF /\ MismoMutex /\ KernelIgual
        /\ IgualCpu /\ IgualMem /\ IgualPedidosFs
    BY <2>3, SoloSon
  <2>5. /\ En("kernel", Inicio.kernel, 9)' /\ PedidosFs' /\ MemoriaTermina'
        /\ MemQuieta => MemQuieta'
        /\ ReadySinMutex => ReadySinMutex'
        /\ ReadyConMutex => ReadyConMutex'
    BY <1>b, <2>4, PedidosFsIgual, MemIgual, ReadyIgual DEF KernelIgual, En
  <2> QED
    BY <1>a, <2>2, <2>3, <2>4, <2>5 DEF Marcha, MismoMutex
<1>5. CASE h = "pedidos_fs"
  <2>1. SoloPedidosFs /\ PedidosFs'
    BY <1>b, <1>5, PedidosFsSigue
  <2>2. /\ Tipos' /\ IgualCF /\ MismoMutex /\ KernelIgual
        /\ IgualCpu /\ IgualFs /\ IgualMem
    BY <2>1, SoloSon
  <2>3. /\ En("kernel", Inicio.kernel, 9)' /\ MemoriaTermina'
        /\ MemQuieta => MemQuieta'
        /\ ReadySinMutex => ReadySinMutex'
        /\ ReadyConMutex => ReadyConMutex'
    BY <1>b, <2>2, MemIgual, ReadyIgual DEF KernelIgual, En
  <2>4. /\ DesalojoSinMutex => DesalojoSinMutex'
        /\ DesalojoConMutex => DesalojoConMutex'
        /\ CpuQuieta => CpuQuieta'
        /\ FsQuieto => FsQuieto'
    BY <2>2, SinMutexIgual, ConMutexIgual, CpuIgual, FsIgual DEF KernelIgual
  <2> QED
    BY <1>a, <2>1, <2>2, <2>3, <2>4 DEF Marcha, MismoMutex
<1>6. CASE h = "ready"
  <2>1. ASSUME Ajeno("ready")
        PROVE  /\ Tipos' /\ IgualCF /\ PedidosFs'
                    /\ En("kernel", Inicio.kernel, 9)'
               /\ por'["desalojo"] = por["desalojo"]
    BY <1>b, <2>1, PedidosFsIgual DEF Ajeno, En
  <2>2. CASE mutex_memoria = "ready"
    <3>1. ReadyConMutex /\ DesalojoSinMutex
      BY <1>a, <2>2 DEF Marcha
    <3>2. CASE Sigue1("ready") /\ ReadyConMutex'
      <4>1. Ajeno("ready") /\ MismoMutex /\ IgualCpu /\ IgualFs
        BY <3>2 DEF Sigue1
      <4>2. DesalojoSinMutex'
        BY <2>1, <3>1, <4>1, SinMutexIgual
      <4>3. MemoriaTermina'
        BY <1>b, <3>2 DEF Sigue1, MemoriaTermina, SinEmpezar, Ahora
      <4> QED
        BY <2>1, <2>2, <3>2, <4>1, <4>2, <4>3 DEF Marcha, MismoMutex
    <3>3. CASE Suelta("ready") /\ MemQuieta /\ EnBucle("ready")'
      <4>1. /\ Ajeno("ready") /\ mutex_memoria' = Nadie /\ IgualCpu /\ IgualFs
                 /\ IgualMem
        BY <3>3 DEF Suelta
      <4>2. DesalojoSinMutex'
        BY <2>1, <3>1, <4>1, SinMutexIgual
      <4>3. MemQuieta' /\ MemoriaTermina'
        BY <1>b, <3>3, <4>1, MemIgual
      <4> QED
        BY <2>1, <3>3, <4>1, <4>2, <4>3 DEF Marcha, ReadySinMutex
    <3> QED
      BY <1>6, <3>1, <3>2, <3>3, ReadyConPasa
  <2>3. CASE mutex_memoria # "ready"
    <3>1. /\ ReadySinMutex
          /\ \/ mutex_memoria = Nadie /\ MemQuieta /\ DesalojoSinMutex
             \/ mutex_memoria = "desalojo" /\ DesalojoConMutex /\ CpuQuieta
                  /\ FsQuieto
      BY <1>a, <2>3 DEF Marcha
    <3>2. /\ Ajeno("ready") /\ IgualCpu /\ IgualFs /\ IgualMem
          /\ \/ MismoMutex /\ ReadySinMutex'
             \/ /\ mutex_memoria = Nadie /\ mutex_memoria' = "ready"
                /\ MemQuieta => ReadyConMutex'
      BY <1>6, <3>1, ReadySinPasa
    <3>3. /\ MemoriaTermina'
          /\ MemQuieta => MemQuieta'
          /\ CpuQuieta => CpuQuieta'
          /\ FsQuieto => FsQuieto'
      BY <1>b, <3>2, MemIgual, CpuIgual, FsIgual
    <3>4. /\ DesalojoSinMutex => DesalojoSinMutex'
          /\ DesalojoConMutex => DesalojoConMutex'
      BY <2>1, <3>2, SinMutexIgual, ConMutexIgual
    <3> QED
      BY <1>a, <2>1, <3>1, <3>2, <3>3, <3>4 DEF Marcha, MismoMutex
  <2> QED
    BY <2>2, <2>3
<1>7. CASE h = "desalojo"
  <2>1. ASSUME Ajeno("desalojo")
        PROVE  /\ Tipos' /\ IgualCF /\ PedidosFs'
                    /\ En("kernel", Inicio.kernel, 9)'
               /\ por'["ready"] = por["ready"]
    BY <1>b, <2>1, PedidosFsIgual DEF Ajeno, En
  <2>2. CASE mutex_memoria = "desalojo"
    <3>1. DesalojoConMutex /\ ReadySinMutex /\ CpuQuieta /\ FsQuieto
      BY <1>a, <2>2 DEF Marcha
    <3>2. CASE Retiene
      <4>1. Ajeno("desalojo") /\ MismoMutex /\ IgualCpu /\ IgualFs
              /\ DesalojoConMutex'
        BY <3>2 DEF Retiene, Sigue1
      <4>2. ReadySinMutex' /\ CpuQuieta' /\ FsQuieto'
        BY <2>1, <3>1, <4>1, ReadyIgual, CpuIgual, FsIgual
      <4>3. MemoriaTermina'
        BY <1>b, <3>2 DEF Retiene, Sigue1, MemoriaTermina, SinEmpezar, Ahora
      <4> QED
        BY <2>1, <2>2, <4>1, <4>2, <4>3 DEF Marcha, MismoMutex
    <3>3. CASE Libera
      <4>1. /\ Ajeno("desalojo") /\ mutex_memoria' = Nadie /\ IgualCpu
                 /\ IgualFs
            /\ IgualMem /\ MemQuieta /\ EnPaz'
        BY <3>3 DEF Libera, Suelta
      <4>2. ReadySinMutex' /\ CpuQuieta' /\ FsQuieto' /\ MemQuieta'
              /\ MemoriaTermina'
        BY <1>b, <2>1, <3>1, <4>1, ReadyIgual, CpuIgual, FsIgual, MemIgual
      <4> QED
        BY <2>1, <4>1, <4>2 DEF Marcha, DesalojoSinMutex
    <3> QED
      BY <1>7, <3>1, <3>2, <3>3, ConMutexPasa
  <2>3. CASE mutex_memoria # "desalojo"
    <3>1. /\ DesalojoSinMutex
          /\ \/ mutex_memoria = Nadie /\ MemQuieta /\ ReadySinMutex
             \/ mutex_memoria = "ready" /\ ReadyConMutex
      BY <1>a, <2>3 DEF Marcha
    <3>2. Ajeno("desalojo") /\ IgualMem
      BY <1>7, <3>1, SinMutexPasa DEF Libre, Toma
    <3>3. /\ MemoriaTermina'
          /\ MemQuieta => MemQuieta'
          /\ ReadySinMutex => ReadySinMutex'
          /\ ReadyConMutex => ReadyConMutex'
      BY <1>b, <2>1, <3>2, MemIgual, ReadyIgual
    <3>4. CASE Libre
      <4>1. MismoMutex /\ DesalojoSinMutex'
        BY <3>4 DEF Libre
      <4> QED
        BY <1>a, <2>1, <3>1, <3>2, <3>3, <4>1 DEF Marcha, MismoMutex
    <3>5. CASE Toma
      <4>1. /\ mutex_memoria = Nadie /\ mutex_memoria' = "desalojo"
                 /\ CpuQuieta'
            /\ FsQuieto' /\ (MemQuieta => DesalojoConMutex')
        BY <3>5 DEF Toma
      <4> QED
        BY <1>a, <2>1, <3>1, <3>2, <3>3, <4>1 DEF Marcha
    <3> QED
      BY <1>7, <3>1, <3>4, <3>5, SinMutexPasa
  <2> QED
    BY <2>2, <2>3
<1> QED
  BY <1>1, <1>2, <1>3, <1>4, <1>5, <1>6, <1>7, HilosSon
-----------------------------------------------------------------------------
(* The calls that connect the modules *)

\* What the modules do to get to know each other: a module starts,
LEMMA PasoLanzado ==
    ASSUME Tipos, NEW h \in Hilos, NEW y, Toca(h, solo("lanzado"), y), Avanza(h)
    PROVE  /\ Tipos' /\ UNCHANGED Resto4 /\ canal' = canal /\ HiloPasa(h, y)
           /\ {"cpu", "fs"} \subseteq escuchan
<1>1. Ahora(h) = solo("lanzado") /\ (SigueCon(h, <<>>) => HiloPasa(h, y))
  BY DEF Toca
<1>2. Ahora(h).paso = "lanzado"
  BY <1>1 DEF solo
<1>3. Launch(h)
  BY <1>2, QueLlama
<1>4. HiloPasa(h, y) /\ canal' = canal /\ UNCHANGED Resto4
  BY <1>1, <1>3 DEF Launch, Resto4
<1> QED
  BY <1>3, <1>4, TiposDe DEF Launch

\* ... listens,
LEMMA PasoEscucha ==
    ASSUME Tipos, NEW h \in Hilos, NEW y, Toca(h, solo("listen"), y), Avanza(h)
    PROVE  /\ Tipos' /\ canal' = canal /\ HiloPasa(h, y)
           /\ cola' = cola /\ mutex_memoria' = mutex_memoria
           /\ escuchan' = escuchan \cup {h}
<1>1. Ahora(h) = solo("listen") /\ (SigueCon(h, <<>>) => HiloPasa(h, y))
  BY DEF Toca
<1>2. Ahora(h).paso = "listen"
  BY <1>1 DEF solo
<1>3. Listen(h)
  BY <1>2, QueLlama
<1>4. /\ HiloPasa(h, y) /\ canal' = canal /\ cola' = cola
           /\ mutex_memoria' = mutex_memoria
      /\ inicializar' = inicializar /\ escuchan' = escuchan \cup {h}
  BY <1>1, <1>3 DEF Listen
<1> QED
  BY <1>4 DEF Tipos, HiloPasa

\* ... connects, and greets,
LEMMA PasoConecta ==
    ASSUME Tipos, NEW h \in Hilos, NEW y, NEW de \in Modulos, NEW a \in Modulos,
           <<de, a>> \in Canales, Hay(de, a, <<>>),
           Toca(h, conecta(de, a), y), Avanza(h)
    PROVE  /\ Tipos' /\ HiloPasa(h, y) /\ CanalPasa(<<de, a>>, <<Dato(1)>>)
           /\ a \in escuchan /\ cola'[a] = Append(cola[a], de)
           /\ \A m \in Modulos \ {a} : cola'[m] = cola[m]
           /\ escuchan' = escuchan /\ mutex_memoria' = mutex_memoria
<1>1. Ahora(h) = conecta(de, a) /\ (SigueCon(h, <<>>) => HiloPasa(h, y))
  BY DEF Toca
<1>2. Ahora(h).paso = "connect" /\ Ahora(h).canal = <<de, a>>
  BY <1>1 DEF conecta
<1>3. Connect(h)
  BY <1>2, QueLlama
<1>4. Ahora(h).canal[1] = de /\ Ahora(h).canal[2] = a
  BY <1>2
<1>5. /\ cola' = [cola EXCEPT ![a] = Append(cola[a], de)]
      /\ canal' = [canal EXCEPT ![<<de, a>>] = Append(canal[<<de, a>>],
           Dato(1))]
      /\ a \in escuchan /\ HiloPasa(h, y) /\ escuchan' = escuchan
      /\ mutex_memoria' = mutex_memoria /\ inicializar' = inicializar
  BY <1>1, <1>2, <1>3, <1>4 DEF Connect
<1>6. Append(canal[<<de, a>>], Dato(1)) = <<Dato(1)>>
  BY DEF Hay
<1>7. <<Dato(1)>> \in Seq(Palabras)
  BY DatosTipos
<1>8. CanalPasa(<<de, a>>, <<Dato(1)>>)
  BY <1>5, <1>6, <1>7, CanalDe
<1>9. cola[a] \in Seq(Modulos) /\ Append(cola[a], de) \in Seq(Modulos)
  BY DEF Tipos
<1>10. /\ cola' \in [Modulos -> Seq(Modulos)] /\ cola'[a] = Append(cola[a], de)
       /\ \A m \in Modulos \ {a} : cola'[m] = cola[m]
  BY <1>5, <1>9 DEF Tipos
<1> QED
  BY <1>5, <1>8, <1>10 DEF Tipos, HiloPasa, CanalPasa

\* ... and accepts the first of its queue.
LEMMA PasoAcepta ==
    ASSUME Tipos, NEW h \in Hilos, h \in Modulos, NEW q, NEW c,
           NEW t \in Seq(Llamadas),
           cola[h] # <<>> => Head(cola[h]) = c,
           t = Recibir(c, h) \o Responder(h, c)
               \o IF h = "memoria" THEN Segun(c, h, "conexion") ELSE <<>>,
           TocaCon(h, solo("accept"), q), Avanza(h)
    PROVE  /\ Tipos' /\ canal' = canal /\ HiloPasa(h, t \o q) /\ cola[h] # <<>>
           /\ cola'[h] = Tail(cola[h])
                /\ \A m \in Modulos \ {h} : cola'[m] = cola[m]
           /\ escuchan' = escuchan /\ mutex_memoria' = mutex_memoria
<1>1. Ahora(h) = solo("accept") /\ (SigueCon(h, t) => HiloPasa(h, t \o q))
  BY DEF TocaCon
<1>2. Ahora(h).paso = "accept"
  BY <1>1 DEF solo
<1>3. esperar_cliente(h)
  BY <1>2, QueLlama
<1>4. /\ cola[h] # <<>> /\ cola' = [cola EXCEPT ![h] = Tail(cola[h])]
           /\ canal' = canal
      /\ escuchan' = escuchan /\ mutex_memoria' = mutex_memoria
      /\ inicializar' = inicializar
  BY <1>3 DEF esperar_cliente
<1>5. SigueCon(h, t)
  BY <1>3, <1>4 DEF esperar_cliente
<1>6. cola[h] \in Seq(Modulos) /\ Tail(cola[h]) \in Seq(Modulos)
  BY <1>4, HeadTailProperties DEF Tipos
<1>7. /\ cola' \in [Modulos -> Seq(Modulos)] /\ cola'[h] = Tail(cola[h])
      /\ \A m \in Modulos \ {h} : cola'[m] = cola[m]
  BY <1>4, <1>6 DEF Tipos
<1> QED
  BY <1>1, <1>4, <1>5, <1>7 DEF Tipos, HiloPasa

\* Nobody is accepted from an empty queue,
LEMMA NoAcepta ==
    ASSUME NEW h, NEW q, TocaCon(h, solo("accept"), q), cola[h] = <<>>
    PROVE  ~Avanza(h)
<1>1. Ahora(h).paso = "accept"
  BY DEF TocaCon, solo
<1> QED
  BY <1>1, QueLlama DEF esperar_cliente

\* ... and nobody connects to who does not listen.
LEMMA NoConecta ==
    ASSUME NEW h, NEW y, NEW de, NEW a, Toca(h, conecta(de, a), y),
           a \notin escuchan
    PROVE  ~Avanza(h)
<1>1. Ahora(h).paso = "connect" /\ Ahora(h).canal = <<de, a>>
  BY DEF Toca, conecta
<1> QED
  BY <1>1, QueLlama DEF Connect

\* A switch waits for a word.
LEMMA NoHayCon ==
    ASSUME NEW h, NEW q, NEW de, NEW a, NEW como, Hay(de, a, <<>>),
           TocaCon(h, mira(de, a, como), q)
    PROVE  ~Avanza(h)
<1>1. Ahora(h).paso = "switch" /\ Ahora(h).canal = <<de, a>>
  BY DEF mira, TocaCon
<1> QED
  BY <1>1, QueLlama DEF Switch, Hay

\* A thread at call k of s goes to call k + 1.
LEMMA EnMedio ==
    ASSUME Tipos, NEW h \in Hilos, NEW s \in Seq(Llamadas),
           NEW k \in 0..Len(s) - 1,
           NEW j, j = k + 1, j # Len(s), En(h, s, k)
    PROVE  Toca(h, s[j], Quedan(s, j)) /\ TocaCon(h, s[j], Quedan(s, j))
<1> DEFINE q == Quedan(s, j)
<1>1. Paso(s, k, j, s[j])
  BY DEF Paso
<1>2. Toca(h, s[j], q)
  BY <1>1, Ahi
<1>3. Ahora(h) = s[j] /\ Tail(por[h]) = q
  BY Posicion
<1>4. q \in Seq(Llamadas) /\ q # <<>>
  <2>1. j \in 0..Len(s) - 1
    OBVIOUS
  <2> QED
    BY <2>1, LoQueQueda
<1> HIDE DEF q
<1>5. ASSUME NEW t \in Seq(Llamadas), SigueCon(h, t)
      PROVE  HiloPasa(h, t \o q)
  <2>1. t \o q \in Seq(Llamadas) /\ t \o q # <<>>
    BY <1>4
  <2>2. por' = [por EXCEPT ![h] = t \o q]
    BY <1>3, <1>5, <2>1 DEF SigueCon
  <2> QED
    BY <2>1, <2>2 DEF Tipos, HiloPasa
<1>6. TocaCon(h, s[j], q)
  BY <1>3, <1>4, <1>5 DEF TocaCon
<1> QED
  BY <1>2, <1>6 DEF q

-----------------------------------------------------------------------------
(* What each module does when it starts *)

Servidores == {"cpu", "fs"}

\* The calls of s and t are those of s, and then those of t.
LEMMA Primeras ==
    ASSUME NEW S, NEW s \in Seq(S), NEW t \in Seq(S)
    PROVE  /\ s \o t \in Seq(S) /\ Len(s \o t) = Len(s) + Len(t)
           /\ \A i \in 1..Len(s) : (s \o t)[i] = s[i]
OBVIOUS

\* What the CPU and the FileSystem do until they know Memoria and listen,
LEMMA InicioClienteLlama ==
    ASSUME NEW c \in Servidores
    PROVE  LET s == Inicio[c] IN
           /\ s \in Seq(Llamadas) /\ Len(s) \in 6..8
           /\ s[1] = conecta(c, "memoria") /\ s[2] = recibe("memoria", c)
           /\ s[3] = envia(c, "memoria", Soy[c], <<>>)
           /\ s[4] = solo("listen") /\ s[5] = solo("accept")
           /\ Quedan(s, 5) = Bucle[c]
<1> DEFINE c1 == conecta(c, "memoria")
           c2 == recibe("memoria", c)
           c3 == envia(c, "memoria", Soy[c], <<>>)
           c4 == solo("listen")
           c5 == solo("accept")
           t == Bucle[c]
<1>1. Soy[c] \in Int /\ c \in Modulos /\ "memoria" \in Modulos
  BY Codigos DEF Soy, Servidores, Modulos
<1>2. c1 \in Llamadas /\ c2 \in Llamadas /\ c3 \in Llamadas /\ c4 \in Llamadas
        /\ c5 \in Llamadas
  BY <1>1, LlamadaTipos, SueltaTipos, DatosTipos
     DEF Sueltas, Miradas, Elecciones
<1>3. t \in Seq(Llamadas) /\ Len(t) \in 1..3
  BY AtenderKernelLlama, FsLlama DEF Servidores, Bucle
<1>4. Inicio[c] = (<<c1>> \o <<c2>>) \o <<c3>> \o <<c4>> \o <<c5>> \o t
  <2>1. Inicio[c] = crear_conexion(c, "memoria")
          \o EnviarOperacion(c, "memoria", Soy[c])
                    \o Escuchar \o Aceptar \o Bucle[c]
    <3>1. CASE c = "cpu"
      BY <3>1, HilosSon DEF Inicio, Soy
    <3>2. CASE c = "fs"
      BY <3>2, HilosSon DEF Inicio, Soy
    <3> QED
      BY <3>1, <3>2 DEF Servidores
  <2>2. /\ crear_conexion(c, "memoria") = <<c1>> \o <<c2>>
        /\ EnviarOperacion(c, "memoria", Soy[c]) = <<c3>>
        /\ Escuchar = <<c4>> /\ Aceptar = <<c5>>
    BY DEF Escuchar, Aceptar, crear_conexion, Conectar, Recibir,
       EnviarOperacion, EnviarPaquete, envia, recibe, conecta, solo
  <2> QED
    BY <2>1, <2>2
<1> HIDE DEF c1, c2, c3, c4, c5, t
<1>5. LET u == (<<c1>> \o <<c2>>) \o <<c3>> \o <<c4>> \o <<c5>> IN
      /\ u \in Seq(Llamadas) /\ Len(u) = 5
      /\ u[1] = c1 /\ u[2] = c2 /\ u[3] = c3 /\ u[4] = c4 /\ u[5] = c5
  BY <1>2
<1> DEFINE u == (<<c1>> \o <<c2>>) \o <<c3>> \o <<c4>> \o <<c5>>
<1>6. /\ u \in Seq(Llamadas) /\ Len(u) = 5
      /\ u[1] = c1 /\ u[2] = c2 /\ u[3] = c3 /\ u[4] = c4 /\ u[5] = c5
  BY <1>5
<1>7. Inicio[c] = u \o t
  BY <1>4
<1> HIDE DEF u
<1>8. /\ u \o t \in Seq(Llamadas) /\ Len(u \o t) = 5 + Len(t)
      /\ (u \o t)[1] = c1 /\ (u \o t)[2] = c2 /\ (u \o t)[3] = c3
      /\ (u \o t)[4] = c4 /\ (u \o t)[5] = c5
  <2>1. /\ u \o t \in Seq(Llamadas) /\ Len(u \o t) = Len(u) + Len(t)
        /\ \A i \in 1..Len(u) : (u \o t)[i] = u[i]
    BY <1>3, <1>6, Primeras
  <2>2. \A i \in 1..5 : (u \o t)[i] = u[i]
    BY <1>6, <2>1
  <2> QED
    BY <1>6, <2>1, <2>2
<1>9. Quedan(u \o t, 5) = t
  <2>1. 0 \in 0..Len(t) /\ Len(u) + 0 = 5
    BY <1>3, <1>6
  <2>2. Quedan(u \o t, Len(u) + 0) = Quedan(t, 0)
    BY <1>3, <1>6, <2>1, QuedaLaSegunda
  <2> QED
    BY <1>3, <2>1, <2>2, QuedaTodoONada
<1>10. \A n \in 1..3 : 5 + n \in 6..8
  OBVIOUS
<1>11. Len(u \o t) \in 6..8
  BY <1>3, <1>8, <1>10
<1> QED
  BY <1>7, <1>8, <1>9, <1>11 DEF c1, c2, c3, c4, c5, t

\* ... step by step.
LEMMA InicioClienteToca ==
    ASSUME Tipos, NEW c \in Servidores
    PROVE  /\ En(c, Inicio[c], 0) => Toca(c, conecta(c, "memoria"),
                Quedan(Inicio[c], 1))
           /\ En(c, Inicio[c], 1) => Toca(c, recibe("memoria", c),
                Quedan(Inicio[c], 2))
           /\ En(c, Inicio[c], 2) =>
                 Toca(c, envia(c, "memoria", Soy[c], <<>>),
                   Quedan(Inicio[c], 3))
           /\ En(c, Inicio[c], 3) => Toca(c, solo("listen"),
                Quedan(Inicio[c], 4))
           /\ En(c, Inicio[c], 4) => TocaCon(c, solo("accept"), Bucle[c])
<1> DEFINE s == Inicio[c]
<1>1. c \in Hilos
  BY HilosSon DEF Servidores
<1>2. /\ s \in Seq(Llamadas) /\ Len(s) \in 6..8
      /\ s[1] = conecta(c, "memoria") /\ s[2] = recibe("memoria", c)
      /\ s[3] = envia(c, "memoria", Soy[c], <<>>)
      /\ s[4] = solo("listen") /\ s[5] = solo("accept")
      /\ Quedan(s, 5) = Bucle[c]
  BY InicioClienteLlama
<1> HIDE DEF s
<1>7. \A n \in 6..8 :
         /\ 0 \in 0..n - 1 /\ 1 \in 0..n - 1 /\ 2 \in 0..n - 1
         /\ 3 \in 0..n - 1 /\ 4 \in 0..n - 1
         /\ 1 = 0 + 1 /\ 2 = 1 + 1 /\ 3 = 2 + 1 /\ 4 = 3 + 1 /\ 5 = 4 + 1
         /\ 1 # n /\ 2 # n /\ 3 # n /\ 4 # n /\ 5 # n
  OBVIOUS
<1>3. /\ 0 \in 0..Len(s) - 1 /\ 1 \in 0..Len(s) - 1 /\ 2 \in 0..Len(s) - 1
      /\ 3 \in 0..Len(s) - 1 /\ 4 \in 0..Len(s) - 1
      /\ 1 = 0 + 1 /\ 2 = 1 + 1 /\ 3 = 2 + 1 /\ 4 = 3 + 1 /\ 5 = 4 + 1
      /\ 1 # Len(s) /\ 2 # Len(s) /\ 3 # Len(s) /\ 4 # Len(s) /\ 5 # Len(s)
  BY <1>2, <1>7
<1>4. ASSUME NEW k \in 0..Len(s) - 1, NEW j, j = k + 1, j # Len(s), En(c, s, k)
      PROVE  Toca(c, s[j], Quedan(s, j)) /\ TocaCon(c, s[j], Quedan(s, j))
  BY <1>1, <1>2, <1>4, EnMedio
<1>5. /\ En(c, s, 0) => Toca(c, s[1], Quedan(s, 1))
      /\ En(c, s, 1) => Toca(c, s[2], Quedan(s, 2))
      /\ En(c, s, 2) => Toca(c, s[3], Quedan(s, 3))
  BY <1>3, <1>4
<1>6. /\ En(c, s, 3) => Toca(c, s[4], Quedan(s, 4))
      /\ En(c, s, 4) => TocaCon(c, s[5], Quedan(s, 5))
  BY <1>3, <1>4
<1> QED
  BY <1>2, <1>5, <1>6 DEF s

\* Memoria listens, and accepts three clients.
LEMMA InicioMemoriaToca ==
    ASSUME Tipos
    PROVE  /\ Acepta(0) => Toca("memoria", solo("listen"),
                Quedan(Inicio.memoria, 1))
           /\ \A i \in 1..3 : Acepta(i)
                => TocaCon("memoria", solo("accept"), Luego(i))
<1> DEFINE s == Inicio.memoria
<1>1. /\ s \in Seq(Llamadas) /\ Len(s) = 5
      /\ s[1] = solo("listen") /\ s[2] = solo("accept") /\ s[3] = solo("accept")
      /\ s[4] = solo("accept") /\ "memoria" \in Hilos
  BY InicioMemoriaLlama, HilosSon
<1>2. \A i : /\ Acepta(i) = En("memoria", s, i)
             /\ Luego(i) = Quedan(s, i + 1)
  BY DEF Acepta, Luego
<1> HIDE DEF s
<1>3. ASSUME NEW k \in 0..3, NEW j, j = k + 1, En("memoria", s, k)
      PROVE  Toca("memoria", s[j], Quedan(s, j))
               /\ TocaCon("memoria", s[j], Quedan(s, j))
  <2>1. k \in 0..Len(s) - 1 /\ j # Len(s)
    BY <1>1, <1>3
  <2> QED
    BY <1>1, <1>3, <2>1, EnMedio
<1>4. 0 \in 0..3 /\ 1 = 0 + 1
  OBVIOUS
<1>5. Acepta(0) => Toca("memoria", s[1], Quedan(s, 1))
  BY <1>2, <1>3, <1>4
<1>6. ASSUME NEW i \in 1..3, Acepta(i)
      PROVE  TocaCon("memoria", solo("accept"), Luego(i))
  <2>1. i \in 0..3 /\ s[i + 1] = solo("accept")
    BY <1>1
  <2>2. TocaCon("memoria", s[i + 1], Quedan(s, i + 1))
    BY <1>2, <1>3, <1>6, <2>1
  <2> QED
    BY <1>2, <2>1, <2>2
<1> QED
  BY <1>1, <1>5, <1>6 DEF s
-----------------------------------------------------------------------------
(* Memoria and its clients: what each step leaves alone *)

Otros == {"ready", "desalojo", "pedidos_kernel"}
Fijo ==
    /\ Tipos' /\ IgualKC /\ IgualKF /\ IgualCF /\ MismoMutex
    /\ cola'["cpu"] = cola["cpu"] /\ cola'["fs"] = cola["fs"]
    /\ \A g \in Otros : por'[g] = por[g]
IgualCliente(c) ==
    /\ por'[c] = por[c] /\ por'[PedidosDe[c]] = por[PedidosDe[c]]
    /\ De(c)' = De(c) /\ A(c)' = A(c)
    /\ c \in escuchan' <=> c \in escuchan
IgualLlamador ==
    /\ por'["kernel"] = por["kernel"] /\ IgualKM
    /\ Servidores \cap escuchan \subseteq escuchan'
IgualCola == cola'["memoria"] = cola["memoria"]

\* A step of Memoria, or of its client c.
Deja(c) == Fijo /\ IgualLlamador /\ \A d \in Servidores \ {c} : IgualCliente(d)
\* The rest of the state changes for c at most.
AlLado(c) ==
    /\ Tipos' /\ MismoMutex /\ cola'["cpu"] = cola["cpu"]
         /\ cola'["fs"] = cola["fs"]
    /\ escuchan \subseteq escuchan' /\ escuchan' \subseteq escuchan
         \cup {c, "memoria"}

\* No word moves.
LEMMA SoloElCanal ==
    ASSUME canal' = canal
    PROVE  /\ IgualKC /\ IgualKF /\ IgualKM /\ IgualCM /\ IgualFM /\ IgualCF
           /\ \A c \in Servidores : De(c)' = De(c) /\ A(c)' = A(c)
BY DEF IgualKC, IgualKF, IgualKM, IgualCM, IgualFM, IgualCF,
   kc, ck, kf, fk, km, mk, cm, mc, fm, mf, cf, fc, De, A

\* The thread and the connections of each client.
LEMMA PedidosSon ==
    /\ PedidosDe["cpu"] = "pedidos_cpu" /\ PedidosDe["fs"] = "pedidos_fs"
    /\ De("cpu") = cm /\ A("cpu") = mc /\ De("fs") = fm /\ A("fs") = mf
    /\ Soy["cpu"] = Op.AUX_SOY_CPU /\ Soy["fs"] = Op.AUX_SOY_FILE_SYSTEM
BY DEF PedidosDe, De, A, cm, mc, fm, mf, Soy

\* A step for a client leaves the other, and the kernel, alone.
LEMMA DejaTodo ==
    ASSUME NEW c \in Servidores, NEW h \in {"memoria", c, PedidosDe[c]}, NEW y,
           HiloPasa(h, y), AlLado(c)
    PROVE  /\ por'[h] = y
           /\ \A g \in {"memoria", c, PedidosDe[c]} \ {h} : por'[g] = por[g]
           /\ \A w : CanalPasa(<<c, "memoria">>, w)
                => Deja(c) /\ De(c)' = w /\ A(c)' = A(c)
           /\ \A w : CanalPasa(<<"memoria", c>>, w)
                => Deja(c) /\ De(c)' = De(c) /\ A(c)' = w
           /\ canal' = canal => Deja(c) /\ De(c)' = De(c) /\ A(c)' = A(c)
<1>1. por'[h] = y /\ \A g \in Hilos \ {h} : por'[g] = por[g]
  BY DEF HiloPasa
<1>2. CASE c = "cpu"
  <2>1. h \in {"memoria", "cpu", "pedidos_cpu"}
    BY <1>2, PedidosSon
  <2>2. /\ \A g \in Otros : por'[g] = por[g]
        /\ por'["kernel"] = por["kernel"] /\ por'["fs"] = por["fs"]
        /\ por'["pedidos_fs"] = por["pedidos_fs"]
        /\ \A g \in {"memoria", c, PedidosDe[c]} \ {h} : por'[g] = por[g]
    BY <1>1, <1>2, <2>1, HilosSon, PedidosSon DEF Otros
  <2>3. ("fs" \in escuchan' <=> "fs" \in escuchan)
          /\ Servidores \cap escuchan \subseteq escuchan'
    BY <1>2 DEF AlLado
  <2>4. IgualKC /\ IgualKF /\ IgualCF /\ IgualKM /\ IgualFM => Deja(c)
    <3>1. Servidores \ {c} = {"fs"}
      BY <1>2 DEF Servidores
    <3>2. IgualFM => IgualCliente("fs")
      BY <2>2, <2>3, PedidosSon DEF IgualCliente, IgualFM, fm, mf, De, A
    <3> QED
      BY <2>2, <2>3, <3>1, <3>2 DEF Deja, Fijo, IgualLlamador, AlLado
  <2>5. \A w : CanalPasa(<<"cpu", "memoria">>, w)
          => Deja(c) /\ cm' = w /\ mc' = mc
    BY <2>4, CanalesDe
  <2>6. \A w : CanalPasa(<<"memoria", "cpu">>, w)
          => Deja(c) /\ mc' = w /\ cm' = cm
    BY <2>4, CanalesDe
  <2>7. canal' = canal => Deja(c) /\ De(c)' = De(c) /\ A(c)' = A(c)
    BY <2>4, SoloElCanal
  <2>8. De(c)' = cm' /\ A(c)' = mc' /\ De(c) = cm /\ A(c) = mc
    BY <1>2 DEF De, A, cm, mc
  <2> QED
    BY <1>1, <1>2, <2>2, <2>5, <2>6, <2>7, <2>8
<1>3. CASE c = "fs"
  <2>1. h \in {"memoria", "fs", "pedidos_fs"}
    BY <1>3, PedidosSon
  <2>2. /\ \A g \in Otros : por'[g] = por[g]
        /\ por'["kernel"] = por["kernel"] /\ por'["cpu"] = por["cpu"]
        /\ por'["pedidos_cpu"] = por["pedidos_cpu"]
        /\ \A g \in {"memoria", c, PedidosDe[c]} \ {h} : por'[g] = por[g]
    BY <1>1, <1>3, <2>1, HilosSon, PedidosSon DEF Otros
  <2>3. ("cpu" \in escuchan' <=> "cpu" \in escuchan)
          /\ Servidores \cap escuchan \subseteq escuchan'
    BY <1>3 DEF AlLado
  <2>4. IgualKC /\ IgualKF /\ IgualCF /\ IgualKM /\ IgualCM => Deja(c)
    <3>1. Servidores \ {c} = {"cpu"}
      BY <1>3 DEF Servidores
    <3>2. IgualCM => IgualCliente("cpu")
      BY <2>2, <2>3, PedidosSon DEF IgualCliente, IgualCM, cm, mc, De, A
    <3> QED
      BY <2>2, <2>3, <3>1, <3>2 DEF Deja, Fijo, IgualLlamador, AlLado
  <2>5. \A w : CanalPasa(<<"fs", "memoria">>, w)
          => Deja(c) /\ fm' = w /\ mf' = mf
    BY <2>4, CanalesDe
  <2>6. \A w : CanalPasa(<<"memoria", "fs">>, w)
          => Deja(c) /\ mf' = w /\ fm' = fm
    BY <2>4, CanalesDe
  <2>7. canal' = canal => Deja(c) /\ De(c)' = De(c) /\ A(c)' = A(c)
    BY <2>4, SoloElCanal
  <2>8. De(c)' = fm' /\ A(c)' = mf' /\ De(c) = fm /\ A(c) = mf
    BY <1>3 DEF De, A, fm, mf
  <2> QED
    BY <1>1, <1>3, <2>2, <2>5, <2>6, <2>7, <2>8
<1> QED
  BY <1>2, <1>3 DEF Servidores

\* The same, of a call that sends or receives.
LEMMA DejaVa ==
    ASSUME NEW c \in Servidores, NEW h \in {"memoria", c, PedidosDe[c]}, NEW y,
           NEW w
    PROVE  /\ Va(h, y, <<c, "memoria">>, w) =>
                 /\ Deja(c) /\ IgualCola /\ escuchan' = escuchan
                 /\ por'[h] = y /\ De(c)' = w /\ A(c)' = A(c)
                 /\ \A g \in {"memoria", c, PedidosDe[c]} \ {h} :
                      por'[g] = por[g]
           /\ Va(h, y, <<"memoria", c>>, w) =>
                 /\ Deja(c) /\ IgualCola /\ escuchan' = escuchan
                 /\ por'[h] = y /\ De(c)' = De(c) /\ A(c)' = w
                 /\ \A g \in {"memoria", c, PedidosDe[c]} \ {h} :
                      por'[g] = por[g]
<1>1. ASSUME NEW e, Va(h, y, e, w)
      PROVE  /\ AlLado(c) /\ HiloPasa(h, y) /\ IgualCola /\ escuchan' = escuchan
             /\ CanalPasa(e, w)
  BY <1>1 DEF Va, AlLado, MismoMutex, Resto4, IgualCola
<1> QED
  BY <1>1, DejaTodo

\* The threads and the connections of a client exist.
LEMMA LosHilos ==
    ASSUME NEW c \in Servidores
    PROVE  /\ c \in Hilos /\ PedidosDe[c] \in Hilos /\ "memoria" \in Hilos
           /\ c \in Modulos /\ "memoria" \in Modulos /\ c \in Clientela
           /\ <<c, "memoria">> \in Canales /\ <<"memoria", c>> \in Canales
           /\ c # "memoria" /\ c # PedidosDe[c] /\ PedidosDe[c] # "memoria"
           /\ Soy[c] \in Int
BY HilosSon, CanalesSon, PedidosSon, Codigos DEF Servidores, Modulos, Clientela

\* One lemma for each thread that may have done it.
LEMMA DejaCliente ==
    ASSUME NEW c \in Servidores, NEW y, NEW w
    PROVE  /\ Va(c, y, <<c, "memoria">>, w) =>
                 /\ Deja(c) /\ IgualCola /\ escuchan' = escuchan
                 /\ por'[c] = y /\ De(c)' = w /\ A(c)' = A(c)
                 /\ por'["memoria"] = por["memoria"]
                 /\ por'[PedidosDe[c]] = por[PedidosDe[c]]
           /\ Va(c, y, <<"memoria", c>>, w) =>
                 /\ Deja(c) /\ IgualCola /\ escuchan' = escuchan
                 /\ por'[c] = y /\ De(c)' = De(c) /\ A(c)' = w
                 /\ por'["memoria"] = por["memoria"]
                 /\ por'[PedidosDe[c]] = por[PedidosDe[c]]
<1>1. c \in {"memoria", c, PedidosDe[c]} /\ c # "memoria" /\ c # PedidosDe[c]
  BY LosHilos
<1> QED
  BY <1>1, DejaVa, ZenonT(40)

\* The same when it is Memoria that reads or writes,
LEMMA DejaMemoria ==
    ASSUME NEW c \in Servidores, NEW y, NEW w
    PROVE  /\ Va("memoria", y, <<c, "memoria">>, w) =>
                 /\ Deja(c) /\ IgualCola /\ escuchan' = escuchan
                 /\ por'["memoria"] = y /\ De(c)' = w /\ A(c)' = A(c)
                 /\ por'[c] = por[c] /\ por'[PedidosDe[c]] = por[PedidosDe[c]]
           /\ Va("memoria", y, <<"memoria", c>>, w) =>
                 /\ Deja(c) /\ IgualCola /\ escuchan' = escuchan
                 /\ por'["memoria"] = y /\ De(c)' = De(c) /\ A(c)' = w
                 /\ por'[c] = por[c] /\ por'[PedidosDe[c]] = por[PedidosDe[c]]
<1>1. "memoria" \in {"memoria", c, PedidosDe[c]} /\ c # "memoria"
        /\ "memoria" # PedidosDe[c]
  BY LosHilos
<1> QED
  BY <1>1, DejaVa, ZenonT(40)

\* ... its thread for the client
LEMMA DejaPedidos ==
    ASSUME NEW c \in Servidores, NEW y, NEW w, NEW h, h = PedidosDe[c],
           Va(h, y, <<c, "memoria">>, w)
    PROVE  /\ Deja(c) /\ IgualCola /\ escuchan' = escuchan
           /\ por'[h] = y /\ De(c)' = w /\ A(c)' = A(c)
           /\ por'[c] = por[c] /\ por'["memoria"] = por["memoria"]
<1>1. h \in {"memoria", c, PedidosDe[c]} /\ h # "memoria" /\ h # c
  BY LosHilos
<1> QED
  BY <1>1, DejaVa

\* ... or that of the FileSystem.
LEMMA DejaPedidosFs ==
    ASSUME NEW y, NEW w, Va("pedidos_fs", y, <<"fs", "memoria">>, w)
    PROVE  /\ Deja("fs") /\ IgualCola /\ escuchan' = escuchan
           /\ por'["pedidos_fs"] = y /\ De("fs")' = w /\ A("fs")' = A("fs")
           /\ por'["fs"] = por["fs"] /\ por'["memoria"] = por["memoria"]
<1>1. "pedidos_fs" = PedidosDe["fs"] /\ "fs" \in Servidores
  BY PedidosSon DEF Servidores
<1> QED
  BY <1>1, DejaPedidos
-----------------------------------------------------------------------------
(* A client of Memoria *)

\* What a step of another one does not change.
LEMMA ClienteIgual ==
    ASSUME NEW c \in Servidores, IgualCliente(c)
    PROVE  /\ Fuera(c) => Fuera(c)'
           /\ EnCola(c) => EnCola(c)'
           /\ Presentado(c) => Presentado(c)'
           /\ Servido(c) => Servido(c)'
           /\ por'["memoria"] = por["memoria"] =>
                 \A i : Sirve(c, i) => Sirve(c, i)'
<1>1. \A s, k : En(c, s, k) <=> En(c, s, k)'
  BY DEF IgualCliente, En
<1>2. SinEmpezar(PedidosDe[c]) <=> SinEmpezar(PedidosDe[c])'
  BY DEF IgualCliente, SinEmpezar
<1>3. De(c)' = De(c) /\ A(c)' = A(c) /\ (c \in escuchan' <=> c \in escuchan)
  BY DEF IgualCliente
<1>4. Fuera(c) => Fuera(c)'
  BY <1>1, <1>2, <1>3 DEF Fuera
<1>5. EnCola(c) => EnCola(c)'
  BY <1>1, <1>2, <1>3 DEF EnCola
<1>6. Presentado(c) => Presentado(c)'
  BY <1>1, <1>3 DEF Presentado
<1>7. Servido(c) => Servido(c)'
  <2>1. /\ c = "cpu" => (EnBucle("pedidos_cpu") <=> EnBucle("pedidos_cpu")')
        /\ c = "fs" => (EnBucle("pedidos_fs") <=> EnBucle("pedidos_fs")')
        /\ \A s, k : c = "fs" => (En("pedidos_fs", s, k) <=> En("pedidos_fs", s,
             k)')
    BY PedidosSon DEF IgualCliente, EnBucle, En
  <2> QED
    BY <1>3, <1>6, <2>1 DEF Servido
<1>8. ASSUME por'["memoria"] = por["memoria"], NEW i, Sirve(c, i)
      PROVE  Sirve(c, i)'
  <2>1. /\ \A j : Saluda(c, i, j) <=> Saluda(c, i, j)'
        /\ \A j : Atiende(c, i, j) <=> Atiende(c, i, j)'
    BY <1>8 DEF Saluda, Atiende, En
  <2> QED
    BY <1>1, <1>2, <1>3, <1>6, <1>8, <2>1 DEF Sirve
<1> QED
  BY <1>4, <1>5, <1>6, <1>7, <1>8

\* It connects to Memoria.
LEMMA FueraPasa ==
    ASSUME Tipos, NEW c \in Servidores, Fuera(c), NEW h \in {c, PedidosDe[c]},
           Avanza(h)
    PROVE  /\ Deja(c) /\ EnCola(c)' /\ por'["memoria"] = por["memoria"]
           /\ "memoria" \in escuchan
           /\ cola'["memoria"] = Append(cola["memoria"], c)
<1>1. h = c
  BY NoEmpezo DEF Fuera
<1>2. Toca(c, conecta(c, "memoria"), Quedan(Inicio[c], 1))
        /\ Hay(c, "memoria", <<>>)
  BY InicioClienteToca DEF Fuera, Hay, De
<1>3. /\ Tipos' /\ HiloPasa(c, Quedan(Inicio[c], 1))
      /\ CanalPasa(<<c, "memoria">>, <<Dato(1)>>)
      /\ "memoria" \in escuchan /\ cola'["memoria"] = Append(cola["memoria"], c)
      /\ \A m \in Modulos \ {"memoria"} : cola'[m] = cola[m]
      /\ escuchan' = escuchan /\ mutex_memoria' = mutex_memoria
  <2>1. /\ c \in Hilos /\ c \in Modulos /\ "memoria" \in Modulos
        /\ <<c, "memoria">> \in Canales /\ Avanza(c)
    BY <1>1, LosHilos
  <2> QED
    BY <1>2, <2>1, PasoConecta
<1>4. AlLado(c)
  BY <1>3 DEF AlLado, MismoMutex, Modulos
<1>6. /\ Deja(c) /\ por'[c] = Quedan(Inicio[c], 1)
      /\ De(c)' = <<Dato(1)>> /\ A(c)' = A(c)
      /\ por'["memoria"] = por["memoria"]
           /\ por'[PedidosDe[c]] = por[PedidosDe[c]]
  BY <1>3, <1>4, DejaTodo, LosHilos
<1>7. EnCola(c)'
  BY <1>3, <1>6 DEF Fuera, EnCola, En, SinEmpezar
<1> QED
  BY <1>3, <1>6, <1>7

\* A client that is in the queue waits.
LEMMA EnColaEspera ==
    ASSUME Tipos, NEW c \in Servidores, EnCola(c), NEW h \in {c, PedidosDe[c]}
    PROVE  ~Avanza(h)
<1>1. ~Avanza(PedidosDe[c])
  BY NoEmpezo DEF EnCola
<1>2. Toca(c, recibe("memoria", c), Quedan(Inicio[c], 2))
        /\ Hay("memoria", c, <<>>)
  BY InicioClienteToca DEF EnCola, Hay, A
<1> QED
  BY <1>1, <1>2, NoHay

\* It opens its own server.
LEMMA PresentadoPasa ==
    ASSUME Tipos, NEW c \in Servidores, Presentado(c), cola[c] = <<>>, Avanza(c)
    PROVE  /\ Deja(c) /\ IgualCola /\ Presentado(c)' /\ De(c)' = De(c)
                /\ A(c)' = A(c)
           /\ por'["memoria"] = por["memoria"]
           /\ por'[PedidosDe[c]] = por[PedidosDe[c]]
<1>1. CASE En(c, Inicio[c], 3) /\ c \notin escuchan
  <2>1. Toca(c, solo("listen"), Quedan(Inicio[c], 4))
    BY <1>1, InicioClienteToca
  <2>2. /\ Tipos' /\ canal' = canal /\ HiloPasa(c, Quedan(Inicio[c], 4))
        /\ cola' = cola /\ mutex_memoria' = mutex_memoria
             /\ escuchan' = escuchan \cup {c}
    BY <2>1, LosHilos, PasoEscucha
  <2>3. AlLado(c)
    BY <2>2 DEF AlLado, MismoMutex
  <2>4. /\ Deja(c) /\ por'[c] = Quedan(Inicio[c], 4) /\ De(c)' = De(c)
             /\ A(c)' = A(c)
        /\ por'["memoria"] = por["memoria"]
             /\ por'[PedidosDe[c]] = por[PedidosDe[c]]
    BY <2>2, <2>3, DejaTodo, LosHilos
  <2>5. Presentado(c)' /\ IgualCola
    BY <2>2, <2>4 DEF Presentado, En, IgualCola
  <2> QED
    BY <2>4, <2>5
<1>2. CASE En(c, Inicio[c], 4)
  BY <1>2, InicioClienteToca, NoAcepta
<1> QED
  BY <1>1, <1>2 DEF Presentado

\* Once Memoria has a thread for it.
LEMMA ServidoPasa ==
    ASSUME Tipos, NEW c \in Servidores, Servido(c), cola[c] = <<>>,
           NEW h \in {c, PedidosDe[c]}, Avanza(h)
    PROVE  Deja(c) /\ IgualCola /\ Servido(c)'
             /\ por'["memoria"] = por["memoria"]
<1>1. CASE h = c
  <2>1. /\ Deja(c) /\ IgualCola /\ Presentado(c)' /\ De(c)' = De(c)
             /\ A(c)' = A(c)
        /\ por'["memoria"] = por["memoria"]
        /\ por'[PedidosDe[c]] = por[PedidosDe[c]]
    BY <1>1, PresentadoPasa DEF Servido
  <2>2. /\ c = "cpu" => por'["pedidos_cpu"] = por["pedidos_cpu"]
        /\ c = "fs" => por'["pedidos_fs"] = por["pedidos_fs"]
    BY <2>1, PedidosSon
  <2>3. Servido(c)'
    BY <2>1, <2>2 DEF Servido, EnBucle, En
  <2> QED
    BY <2>1, <2>3
<1>2. CASE h = PedidosDe[c]
  <2>1. CASE c = "cpu"
    BY <1>2, <2>1, PedidosCpuEspera, PedidosSon DEF Servido
  <2>2. CASE c = "fs"
    <3>1. EnBucle("pedidos_fs") /\ fm = Resto(<<>>) /\ mf = <<>>
      BY <1>2, <2>2, PedidosFsEspera, PedidosSon DEF Servido
    <3>2. Toca("pedidos_fs", recibe("fs", "memoria"),
            Quedan(Bucle.pedidos_fs, 1))
      BY <3>1, PedidosFsToca
    <3>3. Va("pedidos_fs", Quedan(Bucle.pedidos_fs, 1), <<"fs", "memoria">>,
            <<>>)
      BY <1>2, <2>2, <3>1, <3>2, PasoRecibeResto, CanalesSon, DatosTipos,
         PedidosSon
         DEF Hay, fm
    <3>4. /\ Deja(c) /\ IgualCola /\ escuchan' = escuchan
          /\ por'[PedidosDe[c]] = Quedan(Bucle.pedidos_fs, 1) /\ De(c)' = <<>>
               /\ A(c)' = A(c)
          /\ por'["memoria"] = por["memoria"] /\ por'[c] = por[c]
      BY <2>2, <3>3, DejaPedidosFs, PedidosSon
    <3>5. Presentado(c)'
      BY <3>4 DEF Servido, Presentado, En
    <3>6. En("pedidos_fs", Bucle.pedidos_fs, 1)'
      BY <2>2, <3>4, PedidosSon DEF En
    <3> QED
      BY <2>2, <3>4, <3>5, <3>6 DEF Servido
  <2> QED
    BY <2>1, <2>2 DEF Servidores
<1> QED
  BY <1>1, <1>2

\* While Memoria greets it.
LEMMA SirvePasa ==
    ASSUME Tipos, NEW c \in Servidores, NEW i, Sirve(c, i), cola[c] = <<>>,
           NEW h \in {c, PedidosDe[c]}, Avanza(h)
    PROVE  Deja(c) /\ IgualCola /\ Sirve(c, i)'
             /\ por'["memoria"] = por["memoria"]
<1>1. h = c /\ SinEmpezar(PedidosDe[c])
  BY NoEmpezo DEF Sirve
<1>2. por'["memoria"] = por["memoria"] =>
         /\ \A j : Saluda(c, i, j) <=> Saluda(c, i, j)'
         /\ \A j : Atiende(c, i, j) <=> Atiende(c, i, j)'
  BY DEF Saluda, Atiende, En
<1>3. por'[PedidosDe[c]] = por[PedidosDe[c]] => SinEmpezar(PedidosDe[c])'
  BY <1>1 DEF SinEmpezar
<1>4. CASE En(c, Inicio[c], 1) /\ A(c) = <<>>
  <2>1. Toca(c, recibe("memoria", c), Quedan(Inicio[c], 2))
          /\ Hay("memoria", c, <<>>)
    BY <1>4, InicioClienteToca DEF Hay, A
  <2> QED
    BY <1>1, <2>1, NoHay
<1>5. CASE /\ En(c, Inicio[c], 1) /\ c \notin escuchan
           /\ Saluda(c, i, 2) /\ De(c) = <<>> /\ A(c) = <<Dato(0)>>
  <2>1. Toca(c, recibe("memoria", c), Quedan(Inicio[c], 2))
    BY <1>5, InicioClienteToca
  <2>2. Va(c, Quedan(Inicio[c], 2), <<"memoria", c>>, <<>>)
    <3>1. Hay("memoria", c, <<Dato(0)>>) /\ Avanza(c)
            /\ <<"memoria", c>> \in Canales
      BY <1>1, <1>5, LosHilos DEF Hay, A
    <3> QED
      BY <2>1, <3>1, PasoRecibeDato
  <2>3. /\ Deja(c) /\ IgualCola /\ escuchan' = escuchan
        /\ por'[c] = Quedan(Inicio[c], 2) /\ De(c)' = De(c) /\ A(c)' = <<>>
        /\ por'["memoria"] = por["memoria"]
             /\ por'[PedidosDe[c]] = por[PedidosDe[c]]
    BY <2>2, DejaCliente
  <2> QED
    BY <1>2, <1>3, <1>5, <2>3 DEF Sirve, En
<1>6. CASE /\ En(c, Inicio[c], 2) /\ c \notin escuchan
           /\ Saluda(c, i, 2) /\ De(c) = <<>> /\ A(c) = <<>>
  <2>1. Toca(c, envia(c, "memoria", Soy[c], <<>>), Quedan(Inicio[c], 3))
    BY <1>6, InicioClienteToca
  <2>2. Va(c, Quedan(Inicio[c], 3), <<c, "memoria">>, Paquete(Soy[c], <<>>))
    BY <1>1, <1>6, <2>1, PasoEnviaSolo, LosHilos, DatosTipos DEF Hay, De
  <2>3. /\ Deja(c) /\ IgualCola /\ escuchan' = escuchan
        /\ por'[c] = Quedan(Inicio[c], 3) /\ De(c)' = Paquete(Soy[c], <<>>)
             /\ A(c)' = A(c)
        /\ por'["memoria"] = por["memoria"]
             /\ por'[PedidosDe[c]] = por[PedidosDe[c]]
    BY <2>2, DejaCliente
  <2>4. Presentado(c)'
    BY <1>6, <2>3 DEF Presentado, En
  <2> QED
    BY <1>2, <1>3, <1>6, <2>3, <2>4 DEF Sirve
<1>7. CASE /\ Presentado(c) /\ A(c) = <<>>
           /\ \/ Saluda(c, i, 2) /\ De(c) = Paquete(Soy[c], <<>>)
              \/ Atiende(c, i, 0) /\ De(c) = Resto(<<>>)
              \/ c = "cpu" /\ Atiende(c, i, 1) /\ De(c) = <<>>
  <2>1. /\ Deja(c) /\ IgualCola /\ Presentado(c)' /\ De(c)' = De(c)
             /\ A(c)' = A(c)
        /\ por'["memoria"] = por["memoria"]
        /\ por'[PedidosDe[c]] = por[PedidosDe[c]]
    BY <1>1, <1>7, PresentadoPasa
  <2> QED
    BY <1>2, <1>3, <1>7, <2>1 DEF Sirve
<1> QED
  BY <1>4, <1>5, <1>6, <1>7 DEF Sirve

-----------------------------------------------------------------------------
(* Memoria, with a client *)

\* It starts a thread for the requests of the client.
LEMMA LanzaPedidos ==
    ASSUME Tipos, NEW c \in Servidores, NEW i \in 1..3,
           Ahora("memoria") = lanza({PedidosDe[c]}),
             Tail(por["memoria"]) = Luego(i),
           Avanza("memoria")
    PROVE  /\ Deja(c) /\ IgualCola /\ escuchan' = escuchan
           /\ por'["memoria"] = Luego(i) /\ De(c)' = De(c) /\ A(c)' = A(c)
           /\ por'[c] = por[c] /\ por'[PedidosDe[c]] = Bucle[PedidosDe[c]]
<1> DEFINE H == {PedidosDe[c]}
           q == Luego(i)
<1>1. H \in SUBSET Hilos /\ "memoria" \notin H /\ "memoria" \in Hilos
  BY LosHilos
<1>2. q \in Seq(Llamadas)
  BY LuegoSon
<1>3. Ahora("memoria") = lanza(H) /\ Tail(por["memoria"]) = q
  OBVIOUS
<1> HIDE DEF q
<1>4. /\ Tipos' /\ UNCHANGED Resto4 /\ canal' = canal /\ por'["memoria"] = q
      /\ \A g \in H : por'[g] = Bucle[g]
      /\ \A g \in Hilos \ (H \cup {"memoria"}) : por'[g] = por[g]
  <2> HIDE DEF H
  <2> QED
    BY <1>1, <1>2, <1>3, PasoLanza
<1>5. /\ por'[PedidosDe[c]] = Bucle[PedidosDe[c]]
      /\ \A g \in Hilos \ {PedidosDe[c], "memoria"} : por'[g] = por[g]
  BY <1>4
<1>6. /\ por'[c] = por[c] /\ por'["kernel"] = por["kernel"]
      /\ \A g \in Otros : por'[g] = por[g]
      /\ \A d \in Servidores \ {c} : por'[d] = por[d]
           /\ por'[PedidosDe[d]] = por[PedidosDe[d]]
  <2>1. CASE c = "cpu"
    BY <1>5, <2>1, HilosSon, PedidosSon DEF Servidores, Otros
  <2>2. CASE c = "fs"
    BY <1>5, <2>2, HilosSon, PedidosSon DEF Servidores, Otros
  <2> QED
    BY <2>1, <2>2 DEF Servidores
<1>7. /\ IgualKC /\ IgualKF /\ IgualKM /\ IgualCF
      /\ \A d \in Servidores : De(d)' = De(d) /\ A(d)' = A(d)
  BY <1>4, SoloElCanal
<1>8. escuchan' = escuchan /\ cola' = cola /\ MismoMutex
  BY <1>4 DEF Resto4, MismoMutex
<1>9. \A d \in Servidores \ {c} : IgualCliente(d)
  BY <1>6, <1>7, <1>8 DEF IgualCliente
<1>10. Deja(c) /\ IgualCola
  BY <1>4, <1>6, <1>7, <1>8, <1>9 DEF Deja, Fijo, IgualLlamador, IgualCola
<1> QED
  BY <1>4, <1>5, <1>6, <1>7, <1>8, <1>10 DEF q

\* It greets the client and attends to it.
LEMMA SirveMemoria ==
    ASSUME Tipos, NEW c \in Servidores, NEW i \in 1..2, NEW j, j = i + 1,
           Sirve(c, i),
           Avanza("memoria")
    PROVE  Deja(c) /\ IgualCola /\ (Sirve(c, i)' \/ (Acepta(j)' /\ Servido(c)'))
<1> DEFINE s == Saludo(c)
           t == atender_conexiones(Soy[c])
           q == Luego(i)
<1>1. /\ c \in Clientela /\ i \in 1..3 /\ "memoria" \in Hilos
      /\ <<c, "memoria">> \in Canales /\ <<"memoria", c>> \in Canales
           /\ Soy[c] \in Int
      /\ SinEmpezar(PedidosDe[c])
  BY LosHilos DEF Sirve
<1>2. /\ t \in Seq(Llamadas) /\ q \in Seq(Llamadas) /\ t \o q \in Seq(Llamadas)
      /\ Quedan(t \o q, 0) = t \o q
  <2>1. t \in Seq(Llamadas)
    BY ConexionCpuLlama, ConexionFsLlama DEF Servidores
  <2>2. q \in Seq(Llamadas)
    BY <1>1, LuegoSon
  <2>3. t \o q \in Seq(Llamadas)
    BY <2>1, <2>2
  <2> QED
    BY <2>1, <2>2, <2>3, QuedaTodoONada
<1>3. /\ \A k : Saluda(c, i, k)' <=> por'["memoria"] = Quedan(s \o q, k)
      /\ \A k : Atiende(c, i, k)' <=> por'["memoria"] = Quedan(t \o q, k)
      /\ Acepta(j)' <=> por'["memoria"] = q
  BY DEF Saluda, Atiende, Acepta, En, Luego
<1>4. /\ \A k : por'[c] = por[c] => (En(c, Inicio[c], k)
           => En(c, Inicio[c], k)')
      /\ por'[PedidosDe[c]] = por[PedidosDe[c]] => SinEmpezar(PedidosDe[c])'
      /\ por'[c] = por[c] /\ escuchan' = escuchan /\ Presentado(c)
           => Presentado(c)'
  BY <1>1 DEF En, SinEmpezar, Presentado
<1>5. Sigue("conexion", Soy[c]) = t
  BY DEF Sigue
<1>6. /\ Saluda(c, i, 0) => Toca("memoria", recibe(c, "memoria"),
           Quedan(s \o q, 1))
      /\ Saluda(c, i, 1) => Toca("memoria", responde("memoria", c),
           Quedan(s \o q, 2))
      /\ Saluda(c, i, 2) => TocaCon("memoria", mira(c, "memoria", "conexion"),
           q)
  BY <1>1, SaludaToca
<1> HIDE DEF s, t, q
<1>7. CASE /\ En(c, Inicio[c], 1) /\ c \notin escuchan
           /\ Saluda(c, i, 0) /\ De(c) = <<Dato(1)>> /\ A(c) = <<>>
  <2> DEFINE y == Quedan(s \o q, 1)
  <2>1. /\ Toca("memoria", recibe(c, "memoria"), y)
             /\ Hay(c, "memoria", <<Dato(1)>>)
    BY <1>6, <1>7 DEF Hay, De
  <2> HIDE DEF y
  <2>2. Va("memoria", y, <<c, "memoria">>, <<>>)
    BY <1>1, <2>1, PasoRecibeDato
  <2>3. /\ Deja(c) /\ IgualCola /\ escuchan' = escuchan
        /\ por'["memoria"] = y /\ De(c)' = <<>> /\ A(c)' = A(c)
        /\ por'[c] = por[c] /\ por'[PedidosDe[c]] = por[PedidosDe[c]]
    BY <2>2, DejaMemoria
  <2>4. Saluda(c, i, 1)'
    BY <1>3, <2>3 DEF y
  <2> QED
    BY <1>4, <1>7, <2>3, <2>4 DEF Sirve
<1>8. CASE /\ En(c, Inicio[c], 1) /\ c \notin escuchan
           /\ Saluda(c, i, 1) /\ De(c) = <<>> /\ A(c) = <<>>
  <2> DEFINE y == Quedan(s \o q, 2)
  <2>1. /\ Toca("memoria", responde("memoria", c), y) /\ Hay("memoria", c, <<>>)
    BY <1>6, <1>8 DEF Hay, A
  <2> HIDE DEF y
  <2>2. Va("memoria", y, <<"memoria", c>>, <<>> \o <<Dato(0)>>)
    BY <1>1, <2>1, PasoResponde
  <2>5. <<>> \o <<Dato(0)>> = <<Dato(0)>>
    BY DatosTipos, ConcatEmptySeq
  <2>3. /\ Deja(c) /\ IgualCola /\ escuchan' = escuchan
        /\ por'["memoria"] = y /\ De(c)' = De(c) /\ A(c)' = <<Dato(0)>>
        /\ por'[c] = por[c] /\ por'[PedidosDe[c]] = por[PedidosDe[c]]
    BY <2>2, <2>5, DejaMemoria
  <2>4. Saluda(c, i, 2)'
    BY <1>3, <2>3 DEF y
  <2> QED
    BY <1>4, <1>8, <2>3, <2>4 DEF Sirve
<1>9. CASE Saluda(c, i, 2) /\ De(c) = <<>>
  <2>1. /\ TocaCon("memoria", mira(c, "memoria", "conexion"), q)
             /\ Hay(c, "memoria", <<>>)
    BY <1>6, <1>9 DEF Hay, De
  <2> QED
    BY <2>1, NoHayCon
<1>10. CASE /\ Presentado(c) /\ A(c) = <<>>
            /\ Saluda(c, i, 2) /\ De(c) = Paquete(Soy[c], <<>>)
  <2> DEFINE w == Paquete(Soy[c], <<>>)
  <2>1. TocaCon("memoria", mira(c, "memoria", "conexion"), q)
          /\ Hay(c, "memoria", w)
    BY <1>6, <1>10 DEF Hay, De
  <2>2. w # <<>> /\ Head(w) = Palabra("op", Soy[c]) /\ Tail(w) = Resto(<<>>)
    BY <1>1, PaqueteSolo, DatosTipos
  <2>3. Head(w).vale = Soy[c]
    BY <2>2 DEF Palabra
  <2> HIDE DEF w
  <2>4. Va("memoria", t \o q, <<c, "memoria">>, Tail(w))
    BY <1>1, <1>2, <1>5, <2>1, <2>2, <2>3, PasoMiraCon
  <2>5. /\ Deja(c) /\ IgualCola /\ escuchan' = escuchan
        /\ por'["memoria"] = t \o q /\ De(c)' = Resto(<<>>) /\ A(c)' = A(c)
        /\ por'[c] = por[c] /\ por'[PedidosDe[c]] = por[PedidosDe[c]]
    BY <2>2, <2>4, DejaMemoria
  <2>6. Atiende(c, i, 0)'
    BY <1>2, <1>3, <2>5
  <2> QED
    BY <1>4, <1>10, <2>5, <2>6 DEF Sirve
<1>11. CASE c = "cpu" /\ Presentado(c) /\ A(c) = <<>> /\ Atiende(c, i, 0)
              /\ De(c) = Resto(<<>>)
  <2> DEFINE y == Quedan(t \o q, 1)
  <2>1. Toca("memoria", recibe(c, "memoria"), y)
          /\ Hay(c, "memoria", Resto(<<>>))
    BY <1>1, <1>11, AtiendeToca, PedidosSon DEF Hay, De, t, q, Soy
  <2> HIDE DEF y
  <2>2. Va("memoria", y, <<c, "memoria">>, <<>>)
    BY <1>1, <2>1, PasoRecibeResto, DatosTipos
  <2>3. /\ Deja(c) /\ IgualCola /\ escuchan' = escuchan
        /\ por'["memoria"] = y /\ De(c)' = <<>> /\ A(c)' = A(c)
        /\ por'[c] = por[c] /\ por'[PedidosDe[c]] = por[PedidosDe[c]]
    BY <2>2, DejaMemoria
  <2>4. Atiende(c, i, 1)'
    BY <1>3, <2>3 DEF y
  <2> QED
    BY <1>4, <1>11, <2>3, <2>4 DEF Sirve
<1>12. ASSUME Ahora("memoria") = lanza({PedidosDe[c]}),
              Tail(por["memoria"]) = q,
              Presentado(c), A(c) = <<>>,
              (c = "cpu" /\ De(c) = <<>>) \/ (c = "fs" /\ De(c) = Resto(<<>>))
       PROVE  Deja(c) /\ IgualCola /\ Acepta(j)' /\ Servido(c)'
  <2>1. /\ Deja(c) /\ IgualCola /\ escuchan' = escuchan
        /\ por'["memoria"] = q /\ De(c)' = De(c) /\ A(c)' = A(c)
        /\ por'[c] = por[c] /\ por'[PedidosDe[c]] = Bucle[PedidosDe[c]]
    BY <1>1, <1>12, LanzaPedidos DEF q
  <2>2. EnBucle(PedidosDe[c])'
    BY <2>1 DEF EnBucle
  <2> QED
    BY <1>3, <1>4, <1>12, <2>1, <2>2, PedidosSon DEF Servido
<1>13. CASE c = "fs" /\ Presentado(c) /\ A(c) = <<>> /\ Atiende(c, i, 0)
              /\ De(c) = Resto(<<>>)
  <2>1. Ahora("memoria") = lanza({PedidosDe[c]}) /\ Tail(por["memoria"]) = q
    BY <1>1, <1>13, AtiendeToca, PedidosSon DEF q
  <2> QED
    BY <1>12, <1>13, <2>1
<1>14. CASE c = "cpu" /\ Presentado(c) /\ A(c) = <<>> /\ Atiende(c, i, 1)
              /\ De(c) = <<>>
  <2>1. Ahora("memoria") = lanza({PedidosDe[c]}) /\ Tail(por["memoria"]) = q
    BY <1>1, <1>14, AtiendeToca, PedidosSon DEF q
  <2> QED
    BY <1>12, <1>14, <2>1
<1> QED
  BY <1>7, <1>8, <1>9, <1>10, <1>11, <1>13, <1>14 DEF Sirve, Servidores
-----------------------------------------------------------------------------
(* The kernel, while Memoria has not answered it *)

\* A step of the kernel, or of Memoria for it.
DejaClientes == Fijo /\ IgualCliente("cpu") /\ IgualCliente("fs")

\* A step for the kernel leaves the clients alone.
LEMMA DejaKernel ==
    ASSUME NEW h \in {"kernel", "memoria"}, NEW y, HiloPasa(h, y), Tipos',
           MismoMutex,
           escuchan \subseteq escuchan', escuchan' \subseteq escuchan
             \cup {"memoria"},
           cola'["cpu"] = cola["cpu"], cola'["fs"] = cola["fs"]
    PROVE  /\ por'[h] = y
           /\ \A g \in {"kernel", "memoria"} \ {h} : por'[g] = por[g]
           /\ \A w : CanalPasa(<<"kernel", "memoria">>, w)
                => DejaClientes /\ km' = w /\ mk' = mk
           /\ \A w : CanalPasa(<<"memoria", "kernel">>, w)
                => DejaClientes /\ km' = km /\ mk' = w
           /\ canal' = canal => DejaClientes /\ IgualKM
<1>1. por'[h] = y /\ \A g \in Hilos \ {h} : por'[g] = por[g]
  BY DEF HiloPasa
<1>2. /\ \A g \in Otros : por'[g] = por[g]
      /\ \A g \in {"kernel", "memoria"} \ {h} : por'[g] = por[g]
      /\ por'["cpu"] = por["cpu"] /\ por'["pedidos_cpu"] = por["pedidos_cpu"]
      /\ por'["fs"] = por["fs"] /\ por'["pedidos_fs"] = por["pedidos_fs"]
  BY <1>1, HilosSon DEF Otros
<1>3. ("cpu" \in escuchan' <=> "cpu" \in escuchan)
        /\ ("fs" \in escuchan' <=> "fs" \in escuchan)
  OBVIOUS
<1>4. IgualKC /\ IgualKF /\ IgualCF /\ IgualCM /\ IgualFM => DejaClientes
  <2>1. IgualCM => IgualCliente("cpu")
    BY <1>2, <1>3, PedidosSon DEF IgualCliente, IgualCM, cm, mc, De, A
  <2>2. IgualFM => IgualCliente("fs")
    BY <1>2, <1>3, PedidosSon DEF IgualCliente, IgualFM, fm, mf, De, A
  <2> QED
    BY <1>2, <2>1, <2>2 DEF DejaClientes, Fijo
<1>5. \A w : CanalPasa(<<"kernel", "memoria">>, w)
        => DejaClientes /\ km' = w /\ mk' = mk
  BY <1>4, CanalesDe
<1>6. \A w : CanalPasa(<<"memoria", "kernel">>, w)
        => DejaClientes /\ km' = km /\ mk' = w
  BY <1>4, CanalesDe
<1>7. canal' = canal => DejaClientes /\ IgualKM
  BY <1>4, SoloElCanal
<1> QED
  BY <1>1, <1>2, <1>5, <1>6, <1>7

\* The same, of a call that sends or receives.
LEMMA DejaKernelVa ==
    ASSUME NEW h \in {"kernel", "memoria"}, NEW y, NEW w
    PROVE  /\ Va(h, y, <<"kernel", "memoria">>, w) =>
                 /\ DejaClientes /\ IgualCola /\ escuchan' = escuchan
                 /\ por'[h] = y /\ km' = w /\ mk' = mk
                 /\ \A g \in {"kernel", "memoria"} \ {h} : por'[g] = por[g]
           /\ Va(h, y, <<"memoria", "kernel">>, w) =>
                 /\ DejaClientes /\ IgualCola /\ escuchan' = escuchan
                 /\ por'[h] = y /\ km' = km /\ mk' = w
                 /\ \A g \in {"kernel", "memoria"} \ {h} : por'[g] = por[g]
<1>1. ASSUME NEW e, Va(h, y, e, w)
      PROVE  /\ Tipos' /\ MismoMutex /\ HiloPasa(h, y) /\ IgualCola
                  /\ escuchan' = escuchan
             /\ cola' = cola /\ CanalPasa(e, w)
  BY <1>1 DEF Va, MismoMutex, Resto4, IgualCola
<1> QED
  BY <1>1, DejaKernel

\* What the steps of the others do not change.
LEMMA LlamadorIgual ==
    ASSUME IgualLlamador
    PROVE  /\ SinKernel => SinKernel'
           /\ KernelEnCola => KernelEnCola'
           /\ IgualCola /\ Tercero => Tercero'
           /\ IgualCola /\ por'["memoria"] = por["memoria"] /\ SirveKernel
                => SirveKernel'
<1>1. \A k : En("kernel", Inicio.kernel, k) <=> En("kernel", Inicio.kernel, k)'
  BY DEF IgualLlamador, En
<1>2. {"cpu", "fs"} \subseteq escuchan => {"cpu", "fs"} \subseteq escuchan'
  BY DEF IgualLlamador, Servidores
<1>3. km' = km /\ mk' = mk
  BY DEF IgualLlamador, IgualKM
<1>4. SinKernel => SinKernel'
  BY <1>1, <1>2, <1>3 DEF SinKernel
<1>5. KernelEnCola => KernelEnCola'
  BY <1>1, <1>2, <1>3 DEF KernelEnCola
<1>6. ASSUME por'["memoria"] = por["memoria"]
      PROVE  \A j : Saluda("kernel", 3, j) <=> Saluda("kernel", 3, j)'
  BY <1>6 DEF Saluda, En
<1>7. IgualCola /\ por'["memoria"] = por["memoria"] /\ SirveKernel
        => SirveKernel'
  BY <1>1, <1>2, <1>3, <1>6 DEF SirveKernel, IgualCola
<1> QED
  BY <1>4, <1>5, <1>7 DEF Tercero, IgualCola

\* It is not launched before CPU and FileSystem listen.
LEMMA NoLlama ==
    ASSUME Tipos, SinKernel, NEW c \in Servidores, c \notin escuchan
    PROVE  ~Avanza("kernel")
<1>1. ~({"cpu", "fs"} \subseteq escuchan)
  BY DEF Servidores
<1>2. En("kernel", Inicio.kernel, 0)
  BY <1>1 DEF SinKernel
<1>3. Toca("kernel", solo("lanzado"), Quedan(Inicio.kernel, 1))
        /\ "kernel" \in Hilos
  BY <1>2, InicioKernelToca, HilosSon
<1> QED
  BY <1>1, <1>3, PasoLanzado

\* It connects to Memoria, and waits for its turn.
LEMMA TerceroPasa ==
    ASSUME Tipos, Tercero, Avanza("kernel")
    PROVE  DejaClientes /\ Tercero' /\ por'["memoria"] = por["memoria"]
<1>0. "kernel" \in Hilos /\ "kernel" \in {"kernel", "memoria"}
        /\ "memoria" # "kernel"
  BY HilosSon
<1>1. CASE SinKernel /\ cola["memoria"] = <<>> /\ En("kernel", Inicio.kernel, 0)
  <2>1. Toca("kernel", solo("lanzado"), Quedan(Inicio.kernel, 1))
    BY <1>1, InicioKernelToca
  <2>2. /\ Tipos' /\ UNCHANGED Resto4 /\ canal' = canal
        /\ HiloPasa("kernel", Quedan(Inicio.kernel, 1))
             /\ {"cpu", "fs"} \subseteq escuchan
    BY <1>0, <2>1, PasoLanzado
  <2>3. MismoMutex /\ escuchan' = escuchan /\ cola' = cola
    BY <2>2 DEF MismoMutex, Resto4
  <2>4. /\ DejaClientes /\ IgualKM /\ por'["kernel"] = Quedan(Inicio.kernel, 1)
        /\ por'["memoria"] = por["memoria"]
    BY <1>0, <2>2, <2>3, DejaKernel
  <2>5. SinKernel'
    BY <1>1, <2>2, <2>3, <2>4 DEF SinKernel, IgualKM, En
  <2> QED
    BY <1>1, <2>3, <2>4, <2>5 DEF Tercero
<1>2. CASE /\ SinKernel /\ cola["memoria"] = <<>>
                /\ En("kernel", Inicio.kernel, 1)
           /\ {"cpu", "fs"} \subseteq escuchan
  <2>1. Toca("kernel", conecta("kernel", "memoria"), Quedan(Inicio.kernel, 2))
    BY <1>2, InicioKernelToca
  <2>2. /\ "kernel" \in Modulos /\ "memoria" \in Modulos
             /\ <<"kernel", "memoria">> \in Canales
        /\ Hay("kernel", "memoria", <<>>)
    BY <1>2, CanalesSon DEF Modulos, Hay, SinKernel, km
  <2>3. /\ Tipos' /\ HiloPasa("kernel", Quedan(Inicio.kernel, 2))
        /\ CanalPasa(<<"kernel", "memoria">>, <<Dato(1)>>)
        /\ cola'["memoria"] = Append(cola["memoria"], "kernel")
        /\ \A m \in Modulos \ {"memoria"} : cola'[m] = cola[m]
        /\ escuchan' = escuchan /\ mutex_memoria' = mutex_memoria
    BY <1>0, <2>1, <2>2, PasoConecta
  <2>4. MismoMutex /\ cola'["cpu"] = cola["cpu"] /\ cola'["fs"] = cola["fs"]
    BY <2>3 DEF MismoMutex, Modulos
  <2>5. /\ DejaClientes /\ por'["kernel"] = Quedan(Inicio.kernel, 2)
        /\ km' = <<Dato(1)>> /\ mk' = mk /\ por'["memoria"] = por["memoria"]
    BY <1>0, <2>3, <2>4, DejaKernel
  <2>7. KernelEnCola'
    BY <1>2, <2>3, <2>5 DEF KernelEnCola, SinKernel, En
  <2>8. cola'["memoria"] = <<"kernel">>
    BY <1>2, <2>3
  <2> QED
    BY <2>5, <2>7, <2>8 DEF Tercero
<1>3. CASE KernelEnCola
  <2>1. Toca("kernel", recibe("memoria", "kernel"), Quedan(Inicio.kernel, 3))
        /\ Hay("memoria", "kernel", <<>>)
    BY <1>3, InicioKernelToca DEF KernelEnCola, Hay, mk
  <2> QED
    BY <2>1, NoHay
<1> QED
  BY <1>1, <1>2, <1>3 DEF Tercero, SinKernel

\* Memoria greets it.
LEMMA SirveKernelPasa ==
    ASSUME Tipos, SirveKernel, SinEmpezar("pedidos_kernel"),
           NEW h \in {"kernel", "memoria"}, Avanza(h)
    PROVE  /\ DejaClientes /\ escuchan' = escuchan
           /\ \/ SirveKernel'
              \/ /\ En("kernel", Inicio.kernel, 4)' /\ KmListo(<<>>)'
                      /\ mk' = <<>>
<1> DEFINE s == Saludo("kernel")
           q == Luego(3)
<1>1. /\ "kernel" \in Clientela /\ 3 \in 1..3 /\ "memoria" # "kernel"
      /\ <<"kernel", "memoria">> \in Canales
           /\ <<"memoria", "kernel">> \in Canales
  BY CanalesSon DEF Clientela
<1>2. /\ \A k : Saluda("kernel", 3, k)' <=> por'["memoria"] = Quedan(s \o q, k)
      /\ por'["memoria"] = por["memoria"] =>
            \A k : Saluda("kernel", 3, k) => Saluda("kernel", 3, k)'
      /\ \A k : por'["kernel"] = por["kernel"] =>
            (En("kernel", Inicio.kernel, k) => En("kernel", Inicio.kernel, k)')
      /\ \A k : por'["kernel"] = Quedan(Inicio.kernel, k)
           => En("kernel", Inicio.kernel, k)'
  BY DEF Saluda, En, Luego
<1>3. /\ Saluda("kernel", 3, 0) => Toca("memoria", recibe("kernel", "memoria"),
           Quedan(s \o q, 1))
      /\ Saluda("kernel", 3, 1) => Toca("memoria",
           responde("memoria", "kernel"), Quedan(s \o q, 2))
      /\ Saluda("kernel", 3, 2) => TocaCon("memoria",
           mira("kernel", "memoria", "conexion"), q)
  BY <1>1, SaludaToca
<1> HIDE DEF s, q
<1>4. cola["memoria"] = <<>> /\ {"cpu", "fs"} \subseteq escuchan
  BY DEF SirveKernel
<1>5. CASE h = "kernel" /\ En("kernel", Inicio.kernel, 2) /\ mk = <<>>
  <2>1. Toca("kernel", recibe("memoria", "kernel"), Quedan(Inicio.kernel, 3))
        /\ Hay("memoria", "kernel", <<>>)
    BY <1>5, InicioKernelToca DEF Hay, mk
  <2> QED
    BY <1>5, <2>1, NoHay
<1>6. CASE /\ h = "kernel" /\ En("kernel", Inicio.kernel, 2)
           /\ Saluda("kernel", 3, 2) /\ km = <<>> /\ mk = <<Dato(0)>>
  <2> DEFINE y == Quedan(Inicio.kernel, 3)
  <2>1. Toca("kernel", recibe("memoria", "kernel"), y)
          /\ Hay("memoria", "kernel", <<Dato(0)>>)
    BY <1>6, InicioKernelToca DEF Hay, mk
  <2> HIDE DEF y
  <2>2. Va("kernel", y, <<"memoria", "kernel">>, <<>>)
    BY <1>1, <1>6, <2>1, PasoRecibeDato
  <2>3. /\ DejaClientes /\ IgualCola /\ escuchan' = escuchan
        /\ por'["kernel"] = y /\ km' = km /\ mk' = <<>>
             /\ por'["memoria"] = por["memoria"]
    BY <1>1, <2>2, DejaKernelVa
  <2> QED
    BY <1>2, <1>4, <1>6, <2>3 DEF SirveKernel, IgualCola, y
<1>7. CASE /\ h = "kernel" /\ En("kernel", Inicio.kernel, 3)
           /\ Saluda("kernel", 3, 2) /\ km = <<>> /\ mk = <<>>
  <2> DEFINE y == Quedan(Inicio.kernel, 4)
             w == Paquete(Op.AUX_SOY_KERNEL, <<>>)
  <2>1. /\ Toca("kernel", envia("kernel", "memoria", Op.AUX_SOY_KERNEL, <<>>),
             y)
        /\ Hay("kernel", "memoria", <<>>)
    BY <1>7, InicioKernelToca DEF Hay, km
  <2> HIDE DEF y
  <2>2. Va("kernel", y, <<"kernel", "memoria">>, w)
    BY <1>1, <1>7, <2>1, PasoEnviaSolo, DatosTipos, Codigos
  <2>4. w \o <<>> = w
    BY PaqueteTipo, ConcatEmptySeq, DatosTipos, Codigos
  <2>5. por'["pedidos_kernel"] = por["pedidos_kernel"]
          => SinEmpezar("pedidos_kernel")'
    BY DEF SinEmpezar
  <2>7. ASSUME SinEmpezar("pedidos_kernel")', Saluda("kernel", 3, 2)', km' = w
        PROVE  KmListo(<<>>)'
    BY <2>4, <2>7 DEF KmListo
  <2> HIDE DEF w
  <2>3. /\ DejaClientes /\ IgualCola /\ escuchan' = escuchan
        /\ por'["kernel"] = y /\ km' = w /\ mk' = mk
             /\ por'["memoria"] = por["memoria"]
    BY <1>1, <2>2, DejaKernelVa
  <2>6. por'["pedidos_kernel"] = por["pedidos_kernel"]
    BY <2>3 DEF DejaClientes, Fijo, Otros
  <2> QED
    BY <1>2, <1>7, <2>3, <2>5, <2>6, <2>7 DEF y
<1>8. CASE /\ h = "memoria" /\ En("kernel", Inicio.kernel, 2)
           /\ Saluda("kernel", 3, 0) /\ km = <<Dato(1)>> /\ mk = <<>>
  <2> DEFINE y == Quedan(s \o q, 1)
  <2>1. Toca("memoria", recibe("kernel", "memoria"), y)
          /\ Hay("kernel", "memoria", <<Dato(1)>>)
    BY <1>3, <1>8 DEF Hay, km
  <2> HIDE DEF y
  <2>2. Va("memoria", y, <<"kernel", "memoria">>, <<>>)
    BY <1>1, <1>8, <2>1, PasoRecibeDato
  <2>3. /\ DejaClientes /\ IgualCola /\ escuchan' = escuchan
        /\ por'["memoria"] = y /\ km' = <<>> /\ mk' = mk
             /\ por'["kernel"] = por["kernel"]
    BY <1>1, <2>2, DejaKernelVa
  <2>4. Saluda("kernel", 3, 1)'
    BY <1>2, <2>3 DEF y
  <2> QED
    BY <1>2, <1>4, <1>8, <2>3, <2>4 DEF SirveKernel, IgualCola
<1>9. CASE /\ h = "memoria" /\ En("kernel", Inicio.kernel, 2)
           /\ Saluda("kernel", 3, 1) /\ km = <<>> /\ mk = <<>>
  <2> DEFINE y == Quedan(s \o q, 2)
  <2>1. Toca("memoria", responde("memoria", "kernel"), y)
          /\ Hay("memoria", "kernel", <<>>)
    BY <1>3, <1>9 DEF Hay, mk
  <2> HIDE DEF y
  <2>2. Va("memoria", y, <<"memoria", "kernel">>, <<>> \o <<Dato(0)>>)
    BY <1>1, <1>9, <2>1, PasoResponde
  <2>5. <<>> \o <<Dato(0)>> = <<Dato(0)>>
    BY DatosTipos, ConcatEmptySeq
  <2>3. /\ DejaClientes /\ IgualCola /\ escuchan' = escuchan
        /\ por'["memoria"] = y /\ km' = km /\ mk' = <<Dato(0)>>
             /\ por'["kernel"] = por["kernel"]
    BY <1>1, <2>2, <2>5, DejaKernelVa
  <2>4. Saluda("kernel", 3, 2)'
    BY <1>2, <2>3 DEF y
  <2> QED
    BY <1>2, <1>4, <1>9, <2>3, <2>4 DEF SirveKernel, IgualCola
<1>10. CASE h = "memoria" /\ Saluda("kernel", 3, 2) /\ km = <<>>
  <2>1. /\ TocaCon("memoria", mira("kernel", "memoria", "conexion"), q)
        /\ Hay("kernel", "memoria", <<>>)
    BY <1>3, <1>10 DEF Hay, km
  <2> QED
    BY <1>10, <2>1, NoHayCon
<1> QED
  BY <1>5, <1>6, <1>7, <1>8, <1>9, <1>10 DEF SirveKernel
-----------------------------------------------------------------------------
(* Memoria and the modules that connect to it *)

\* The two clients but for the kernel, in the order in which they enter.
Par(a, b) == a \in Servidores /\ b \in Servidores /\ a # b

\* The two clients are the CPU and the FileSystem.
LEMMA ParSon ==
    ASSUME NEW a, NEW b, Par(a, b)
    PROVE  /\ a \in Servidores /\ b \in Servidores /\ Par(b, a)
           /\ Deja(a) => Fijo /\ IgualLlamador /\ IgualCliente(b)
           /\ Deja(b) => Fijo /\ IgualLlamador /\ IgualCliente(a)
           /\ DejaClientes => Fijo /\ IgualCliente(a) /\ IgualCliente(b)
           /\ \A h \in Hilos : \/ h \in {"kernel", "memoria"} \/ h \in Otros
                              \/ h \in {a, PedidosDe[a]}
                                   \/ h \in {b, PedidosDe[b]}
<1>1. (a = "cpu" /\ b = "fs") \/ (a = "fs" /\ b = "cpu")
  BY DEF Par, Servidores
<1>2. /\ Deja(a) => Fijo /\ IgualLlamador /\ IgualCliente(b)
      /\ Deja(b) => Fijo /\ IgualLlamador /\ IgualCliente(a)
  BY DEF Par, Deja
<1>3. DejaClientes => Fijo /\ IgualCliente(a) /\ IgualCliente(b)
  BY <1>1 DEF DejaClientes
<1>4. \A h \in Hilos : \/ h \in {"kernel", "memoria"} \/ h \in Otros
                      \/ h \in {a, PedidosDe[a]} \/ h \in {b, PedidosDe[b]}
  BY <1>1, HilosSon, PedidosSon DEF Otros
<1> QED
  BY <1>2, <1>3, <1>4 DEF Par

\* Queues with one module or two.
LEMMA ColaDeDos ==
    ASSUME NEW S, NEW a \in S, NEW b \in S, NEW s \in Seq(S)
    PROVE  /\ s = <<a>> => Tail(s) = <<>> /\ Append(s, b) = <<a, b>>
           /\ s = <<a, b>> => Tail(s) = <<b>>
<1>1. ASSUME s = <<a>>
      PROVE  Append(s, b) = <<a, b>>
  <2> DEFINE t == Append(s, b)
  <2>1. t \in Seq(S) /\ Len(t) = 2 /\ t[1] = a /\ t[2] = b
    BY <1>1
  <2> HIDE DEF t
  <2>2. t = <<a, b>>
    BY <2>1
  <2> QED
    BY <2>2 DEF t
<1>2. Tail(<<a>>) = <<>> /\ Tail(<<a, b>>) = <<b>>
  OBVIOUS
<1> QED
  BY <1>1, <1>2

\* Its main thread, between two clients.
LEMMA AbreMemoria ==
    ASSUME Tipos, Acepta(0), Avanza("memoria")
    PROVE  DejaClientes /\ IgualLlamador /\ IgualCola /\ Acepta(1)'
<1> DEFINE y == Quedan(Inicio.memoria, 1)
<1>1. Toca("memoria", solo("listen"), y) /\ "memoria" \in Hilos
  BY InicioMemoriaToca, HilosSon
<1>2. y = por'["memoria"] => Acepta(1)'
  BY DEF Acepta, En
<1> HIDE DEF y
<1>3. /\ Tipos' /\ canal' = canal /\ HiloPasa("memoria", y)
      /\ cola' = cola /\ mutex_memoria' = mutex_memoria
      /\ escuchan' = escuchan \cup {"memoria"}
  BY <1>1, PasoEscucha
<1>4. MismoMutex /\ IgualCola
  BY <1>3 DEF MismoMutex, IgualCola
<1>5. /\ DejaClientes /\ IgualKM /\ por'["memoria"] = y
           /\ por'["kernel"] = por["kernel"]
  BY <1>3, <1>4, DejaKernel
<1> QED
  BY <1>2, <1>3, <1>4, <1>5 DEF IgualLlamador

\* Memoria accepts a client.
LEMMA AtiendeA ==
    ASSUME Tipos, NEW i \in 1..3, Acepta(i), NEW c \in Clientela,
           cola["memoria"] # <<>> => Head(cola["memoria"]) = c,
             Avanza("memoria")
    PROVE  /\ DejaClientes /\ IgualLlamador /\ cola["memoria"] # <<>>
           /\ cola'["memoria"] = Tail(cola["memoria"]) /\ Saluda(c, i, 0)'
<1> DEFINE t == Saludo(c)
           q == Luego(i)
<1>1. /\ t \in Seq(Llamadas) /\ q \in Seq(Llamadas) /\ t \o q \in Seq(Llamadas)
      /\ Quedan(t \o q, 0) = t \o q
  <2>1. t \in Seq(Llamadas)
    BY SaludoLlama DEF Clientela, Modulos
  <2>2. q \in Seq(Llamadas)
    BY LuegoSon
  <2>3. t \o q \in Seq(Llamadas)
    BY <2>1, <2>2
  <2> QED
    BY <2>1, <2>2, <2>3, QuedaTodoONada
<1>2. t = Recibir(c, "memoria") \o Responder("memoria", c)
          \o IF "memoria" = "memoria" THEN Segun(c, "memoria",
            "conexion") ELSE <<>>
  BY DEF Saludo
<1>3. TocaCon("memoria", solo("accept"), q) /\ "memoria" \in Hilos
        /\ "memoria" \in Modulos
  BY InicioMemoriaToca, HilosSon DEF Modulos
<1>4. Saluda(c, i, 0)' <=> por'["memoria"] = Quedan(t \o q, 0)
  BY DEF Saluda, En, Luego
<1> HIDE DEF t, q
<1>5. /\ Tipos' /\ canal' = canal /\ HiloPasa("memoria", t \o q)
           /\ cola["memoria"] # <<>>
      /\ cola'["memoria"] = Tail(cola["memoria"])
      /\ \A m \in Modulos \ {"memoria"} : cola'[m] = cola[m]
      /\ escuchan' = escuchan /\ mutex_memoria' = mutex_memoria
  BY <1>1, <1>2, <1>3, PasoAcepta
<1>6. MismoMutex /\ cola'["cpu"] = cola["cpu"] /\ cola'["fs"] = cola["fs"]
  BY <1>5 DEF MismoMutex, Modulos
<1>7. /\ DejaClientes /\ IgualKM /\ por'["memoria"] = t \o q
           /\ por'["kernel"] = por["kernel"]
  BY <1>5, <1>6, DejaKernel
<1> QED
  BY <1>1, <1>4, <1>5, <1>7 DEF IgualLlamador

\* It is the CPU or the FileSystem,
LEMMA EntraUno ==
    ASSUME NEW c \in Servidores, NEW i, EnCola(c), IgualCliente(c),
           Saluda(c, i, 0)'
    PROVE  Sirve(c, i)'
BY DEF EnCola, IgualCliente, Sirve, En, SinEmpezar

\* ... or the kernel.
LEMMA EntraElKernel ==
    ASSUME KernelEnCola, IgualLlamador, cola'["memoria"] = <<>>,
           Saluda("kernel", 3, 0)'
    PROVE  SirveKernel'
BY DEF KernelEnCola, IgualLlamador, IgualKM, SirveKernel, En, Servidores

\* A client connects,
LEMMA PideEntrarPasa ==
    ASSUME Tipos, NEW c \in Servidores, PideEntrar(c),
           NEW h \in {c, PedidosDe[c]}, Avanza(h)
    PROVE  Deja(c) /\ PideEntrar(c)' /\ por'["memoria"] = por["memoria"]
<1>1. Fuera(c) /\ cola["memoria"] = <<>>
  BY EnColaEspera DEF PideEntrar
<1>2. /\ Deja(c) /\ EnCola(c)' /\ por'["memoria"] = por["memoria"]
      /\ cola'["memoria"] = Append(cola["memoria"], c)
  BY <1>1, FueraPasa
<1>3. cola'["memoria"] = <<c>>
  BY <1>1, <1>2
<1> QED
  BY <1>2, <1>3 DEF PideEntrar

\* ... or stays where it is.
LEMMA PideEntrarIgual ==
    ASSUME NEW c \in Servidores, PideEntrar(c), IgualCliente(c), IgualCola
    PROVE  PideEntrar(c)'
BY ClienteIgual DEF PideEntrar, IgualCola

\* Memoria waits for its next client.
LEMMA AceptaIgual ==
    ASSUME por'["memoria"] = por["memoria"]
    PROVE  \A i : Acepta(i) => Acepta(i)'
BY DEF Acepta, En

\* The kernel has been greeted.
Alcanza ==
    /\ Servido("cpu") /\ Servido("fs") /\ {"cpu", "fs"} \subseteq escuchan
    /\ En("kernel", Inicio.kernel, 4) /\ KmListo(<<>>) /\ mk = <<>>
SiguenEntrando(a, b) == Fijo /\ (Clientes(a, b)' \/ Clientes(b, a)' \/ Alcanza')

\* The cases of Clientes, one by one: Memoria is about to listen,
LEMMA Entran1 ==
    ASSUME Tipos, NEW a, NEW b, Par(a, b), NEW h, Avanza(h),
           h \in {"kernel", "memoria"} \/ h \in {a, PedidosDe[a]}
             \/ h \in {b, PedidosDe[b]},
           Acepta(0), SinKernel, Fuera(a), Fuera(b), cola["memoria"] = <<>>,
           "memoria" \notin escuchan
    PROVE  SiguenEntrando(a, b)
<1>1. a \in Servidores /\ b \in Servidores /\ a \notin escuchan
  BY ParSon DEF Fuera
<1>2. CASE h = "kernel"
  BY <1>1, <1>2, NoLlama
<1>3. CASE h = "memoria"
  <2>1. DejaClientes /\ IgualLlamador /\ IgualCola /\ Acepta(1)'
    BY <1>3, AbreMemoria
  <2>2. Fijo /\ Fuera(a)' /\ Fuera(b)'
    BY <1>1, <2>1, ParSon, ClienteIgual
  <2>3. SinKernel' /\ cola'["memoria"] = <<>>
    BY <2>1, LlamadorIgual DEF IgualCola
  <2> QED
    BY <2>1, <2>2, <2>3 DEF SiguenEntrando, Clientes
<1>4. CASE h \in {a, PedidosDe[a]}
  BY <1>1, <1>4, FueraPasa
<1>5. CASE h \in {b, PedidosDe[b]}
  BY <1>1, <1>5, FueraPasa
<1> QED
  BY <1>2, <1>3, <1>4, <1>5

\* ... has no client yet,
LEMMA Entran2 ==
    ASSUME Tipos, NEW a, NEW b, Par(a, b), NEW h, Avanza(h),
           h \in {"kernel", "memoria"} \/ h \in {a, PedidosDe[a]}
             \/ h \in {b, PedidosDe[b]},
           Acepta(1), SinKernel,
           \/ Fuera(a) /\ Fuera(b) /\ cola["memoria"] = <<>>
           \/ EnCola(a) /\ Fuera(b) /\ cola["memoria"] = <<a>>
           \/ EnCola(a) /\ EnCola(b) /\ cola["memoria"] = <<a, b>>
    PROVE  SiguenEntrando(a, b)
<1>1. a \in Servidores /\ b \in Servidores /\ b \notin escuchan
        /\ a \in Clientela
  BY ParSon, LosHilos DEF Fuera, EnCola
<1>6. cola["memoria"] \in Seq(Modulos) /\ a \in Modulos /\ b \in Modulos
  BY <1>1, LosHilos DEF Tipos
<1>2. CASE h = "kernel"
  BY <1>1, <1>2, NoLlama
<1>3. CASE h = "memoria"
  <2>1. cola["memoria"] # <<>> => Head(cola["memoria"]) = a
    OBVIOUS
  <2>2. /\ DejaClientes /\ IgualLlamador /\ cola["memoria"] # <<>>
        /\ cola'["memoria"] = Tail(cola["memoria"]) /\ Saluda(a, 1, 0)'
    <3>1. 1 \in 1..3
      OBVIOUS
    <3> QED
      BY <1>1, <1>3, <2>1, <3>1, AtiendeA
  <2>3. Fijo /\ IgualCliente(a) /\ IgualCliente(b)
    BY <2>2, ParSon
  <2>4. Sirve(a, 1)' /\ SinKernel'
    BY <1>1, <2>2, <2>3, EntraUno, LlamadorIgual
  <2>5. /\ Fuera(b) => Fuera(b)'
        /\ EnCola(b) => EnCola(b)'
    BY <1>1, <2>3, ClienteIgual
  <2>6. /\ cola["memoria"] = <<a>> => cola'["memoria"] = <<>>
        /\ cola["memoria"] = <<a, b>> => cola'["memoria"] = <<b>>
    BY <1>1, <1>6, <2>2, ColaDeDos
  <2>7. PideEntrar(b)'
    BY <2>2, <2>5, <2>6 DEF PideEntrar
  <2> QED
    BY <2>3, <2>4, <2>7 DEF SiguenEntrando, Clientes
<1>4. CASE h \in {a, PedidosDe[a]}
  <2>1. Fuera(a) /\ Fuera(b) /\ cola["memoria"] = <<>>
    BY <1>1, <1>4, EnColaEspera
  <2>2. /\ Deja(a) /\ EnCola(a)' /\ por'["memoria"] = por["memoria"]
        /\ cola'["memoria"] = Append(cola["memoria"], a)
    BY <1>1, <1>4, <2>1, FueraPasa
  <2>3. Fijo /\ IgualLlamador /\ Fuera(b)'
    BY <1>1, <2>1, <2>2, ParSon, ClienteIgual
  <2>4. Acepta(1)' /\ SinKernel'
    BY <2>2, <2>3, AceptaIgual, LlamadorIgual
  <2>5. cola'["memoria"] = <<a>>
    BY <2>1, <2>2
  <2> QED
    BY <2>2, <2>3, <2>4, <2>5 DEF SiguenEntrando, Clientes
<1>5. CASE h \in {b, PedidosDe[b]}
  <2>1. Fuera(b)
    BY <1>1, <1>5, EnColaEspera
  <2>2. /\ Deja(b) /\ EnCola(b)' /\ por'["memoria"] = por["memoria"]
        /\ cola'["memoria"] = Append(cola["memoria"], b)
    BY <1>1, <1>5, <2>1, FueraPasa
  <2>3. Fijo /\ IgualLlamador /\ IgualCliente(a)
    BY <2>2, ParSon
  <2>4. Acepta(1)' /\ SinKernel'
    BY <2>2, <2>3, AceptaIgual, LlamadorIgual
  <2>5. CASE Fuera(a) /\ cola["memoria"] = <<>>
    <3>1. Fuera(a)' /\ cola'["memoria"] = <<b>>
      BY <1>1, <2>2, <2>3, <2>5, ClienteIgual
    <3> QED
      BY <2>2, <2>3, <2>4, <3>1 DEF SiguenEntrando, Clientes
  <2>6. CASE EnCola(a) /\ cola["memoria"] = <<a>>
    <3>1. EnCola(a)'
      BY <1>1, <2>3, <2>6, ClienteIgual
    <3>2. cola'["memoria"] = <<a, b>>
      BY <1>1, <1>6, <2>2, <2>6, ColaDeDos
    <3> QED
      BY <2>2, <2>3, <2>4, <3>1, <3>2 DEF SiguenEntrando, Clientes
  <2>7. ~EnCola(b)
    BY <1>1, <1>5, EnColaEspera
  <2> QED
    BY <2>5, <2>6, <2>7
<1> QED
  BY <1>2, <1>3, <1>4, <1>5

\* ... serves the first,
LEMMA Entran3 ==
    ASSUME Tipos, NEW a, NEW b, Par(a, b), NEW h, Avanza(h), cola[a] = <<>>,
           h \in {"kernel", "memoria"} \/ h \in {a, PedidosDe[a]}
             \/ h \in {b, PedidosDe[b]},
           Sirve(a, 1), SinKernel, PideEntrar(b)
    PROVE  SiguenEntrando(a, b)
<1>1. a \in Servidores /\ b \in Servidores /\ b \notin escuchan
  BY ParSon DEF Fuera, EnCola, PideEntrar
<1>2. CASE h = "kernel"
  BY <1>1, <1>2, NoLlama
<1>3. CASE h = "memoria"
  <2>1. 1 \in 1..2 /\ 2 = 1 + 1
    OBVIOUS
  <2>2. Deja(a) /\ IgualCola /\ (Sirve(a, 1)' \/ (Acepta(2)' /\ Servido(a)'))
    BY <1>1, <1>3, <2>1, SirveMemoria
  <2>3. Fijo /\ IgualLlamador /\ IgualCliente(b)
    BY <2>2, ParSon
  <2>4. SinKernel' /\ PideEntrar(b)'
    BY <1>1, <2>2, <2>3, LlamadorIgual, PideEntrarIgual
  <2> QED
    BY <2>2, <2>3, <2>4 DEF SiguenEntrando, Clientes
<1>4. CASE h \in {a, PedidosDe[a]}
  <2>1. Deja(a) /\ IgualCola /\ Sirve(a, 1)'
    BY <1>1, <1>4, SirvePasa
  <2>2. Fijo /\ IgualLlamador /\ IgualCliente(b)
    BY <2>1, ParSon
  <2>3. SinKernel' /\ PideEntrar(b)'
    BY <1>1, <2>1, <2>2, LlamadorIgual, PideEntrarIgual
  <2> QED
    BY <2>1, <2>2, <2>3 DEF SiguenEntrando, Clientes
<1>5. CASE h \in {b, PedidosDe[b]}
  <2>1. Deja(b) /\ PideEntrar(b)' /\ por'["memoria"] = por["memoria"]
    BY <1>1, <1>5, PideEntrarPasa
  <2>2. Fijo /\ IgualLlamador /\ IgualCliente(a)
    BY <2>1, ParSon
  <2>3. SinKernel' /\ Sirve(a, 1)'
    BY <1>1, <2>1, <2>2, LlamadorIgual, ClienteIgual
  <2> QED
    BY <2>1, <2>2, <2>3 DEF SiguenEntrando, Clientes
<1> QED
  BY <1>2, <1>3, <1>4, <1>5

\* ... waits for the second,
LEMMA Entran4 ==
    ASSUME Tipos, NEW a, NEW b, Par(a, b), NEW h, Avanza(h), cola[a] = <<>>,
           h \in {"kernel", "memoria"} \/ h \in {a, PedidosDe[a]}
             \/ h \in {b, PedidosDe[b]},
           Acepta(2), Servido(a), SinKernel, PideEntrar(b)
    PROVE  SiguenEntrando(a, b)
<1>1. a \in Servidores /\ b \in Servidores /\ b \notin escuchan
        /\ b \in Clientela
  BY ParSon, LosHilos DEF Fuera, EnCola, PideEntrar
<1>2. CASE h = "kernel"
  BY <1>1, <1>2, NoLlama
<1>3. CASE h = "memoria"
  <2>1. cola["memoria"] # <<>> => Head(cola["memoria"]) = b
    BY DEF PideEntrar
  <2>2. /\ DejaClientes /\ IgualLlamador /\ cola["memoria"] # <<>>
        /\ cola'["memoria"] = Tail(cola["memoria"]) /\ Saluda(b, 2, 0)'
    <3>1. 2 \in 1..3
      OBVIOUS
    <3> QED
      BY <1>1, <1>3, <2>1, <3>1, AtiendeA
  <2>3. EnCola(b) /\ cola["memoria"] = <<b>>
    BY <2>2 DEF PideEntrar
  <2>4. Fijo /\ IgualCliente(a) /\ IgualCliente(b)
    BY <2>2, ParSon
  <2>5. Sirve(b, 2)' /\ SinKernel' /\ Servido(a)'
    BY <1>1, <2>2, <2>3, <2>4, EntraUno, LlamadorIgual, ClienteIgual
  <2>6. cola'["memoria"] = <<>>
    BY <2>2, <2>3
  <2> QED
    BY <2>4, <2>5, <2>6 DEF SiguenEntrando, Clientes, Tercero
<1>4. CASE h \in {a, PedidosDe[a]}
  <2>1. Deja(a) /\ IgualCola /\ Servido(a)' /\ por'["memoria"] = por["memoria"]
    BY <1>1, <1>4, ServidoPasa
  <2>2. Fijo /\ IgualLlamador /\ IgualCliente(b)
    BY <2>1, ParSon
  <2>3. SinKernel' /\ PideEntrar(b)' /\ Acepta(2)'
    BY <1>1, <2>1, <2>2, LlamadorIgual, PideEntrarIgual, AceptaIgual
  <2> QED
    BY <2>1, <2>2, <2>3 DEF SiguenEntrando, Clientes
<1>5. CASE h \in {b, PedidosDe[b]}
  <2>1. Deja(b) /\ PideEntrar(b)' /\ por'["memoria"] = por["memoria"]
    BY <1>1, <1>5, PideEntrarPasa
  <2>2. Fijo /\ IgualLlamador /\ IgualCliente(a)
    BY <2>1, ParSon
  <2>3. SinKernel' /\ Servido(a)' /\ Acepta(2)'
    BY <1>1, <2>1, <2>2, LlamadorIgual, ClienteIgual, AceptaIgual
  <2> QED
    BY <2>1, <2>2, <2>3 DEF SiguenEntrando, Clientes
<1> QED
  BY <1>2, <1>3, <1>4, <1>5

\* ... serves it,
LEMMA Entran5 ==
    ASSUME Tipos, NEW a, NEW b, Par(a, b), NEW h, Avanza(h), cola[a] = <<>>,
           cola[b] = <<>>,
           h \in {"kernel", "memoria"} \/ h \in {a, PedidosDe[a]}
             \/ h \in {b, PedidosDe[b]},
           Servido(a), Sirve(b, 2), Tercero
    PROVE  SiguenEntrando(a, b)
<1>1. a \in Servidores /\ b \in Servidores
  BY ParSon
<1>2. CASE h = "kernel"
  <2>1. DejaClientes /\ Tercero' /\ por'["memoria"] = por["memoria"]
    BY <1>2, TerceroPasa
  <2>2. Fijo /\ IgualCliente(a) /\ IgualCliente(b)
    BY <2>1, ParSon
  <2>3. Servido(a)' /\ Sirve(b, 2)'
    BY <1>1, <2>1, <2>2, ClienteIgual
  <2> QED
    BY <2>1, <2>2, <2>3 DEF SiguenEntrando, Clientes
<1>3. CASE h = "memoria"
  <2>1. 2 \in 1..2 /\ 3 = 2 + 1
    OBVIOUS
  <2>2. Deja(b) /\ IgualCola /\ (Sirve(b, 2)' \/ (Acepta(3)' /\ Servido(b)'))
    BY <1>1, <1>3, <2>1, SirveMemoria
  <2>3. Fijo /\ IgualLlamador /\ IgualCliente(a)
    BY <2>2, ParSon
  <2>4. Tercero' /\ Servido(a)'
    BY <1>1, <2>2, <2>3, LlamadorIgual, ClienteIgual
  <2> QED
    BY <2>2, <2>3, <2>4 DEF SiguenEntrando, Clientes
<1>4. CASE h \in {a, PedidosDe[a]}
  <2>1. Deja(a) /\ IgualCola /\ Servido(a)' /\ por'["memoria"] = por["memoria"]
    BY <1>1, <1>4, ServidoPasa
  <2>2. Fijo /\ IgualLlamador /\ IgualCliente(b)
    BY <2>1, ParSon
  <2>3. Tercero' /\ Sirve(b, 2)'
    BY <1>1, <2>1, <2>2, LlamadorIgual, ClienteIgual
  <2> QED
    BY <2>1, <2>2, <2>3 DEF SiguenEntrando, Clientes
<1>5. CASE h \in {b, PedidosDe[b]}
  <2>1. Deja(b) /\ IgualCola /\ Sirve(b, 2)'
    BY <1>1, <1>5, SirvePasa
  <2>2. Fijo /\ IgualLlamador /\ IgualCliente(a)
    BY <2>1, ParSon
  <2>3. Tercero' /\ Servido(a)'
    BY <1>1, <2>1, <2>2, LlamadorIgual, ClienteIgual
  <2> QED
    BY <2>1, <2>2, <2>3 DEF SiguenEntrando, Clientes
<1> QED
  BY <1>2, <1>3, <1>4, <1>5

\* (the two clients, once they are served)
LEMMA DosServidosPasan ==
    ASSUME Tipos, NEW a, NEW b, Par(a, b), NEW h, Avanza(h), cola[a] = <<>>,
           Servido(a), Servido(b), h \in {a, PedidosDe[a]}
    PROVE  /\ Fijo /\ IgualLlamador /\ IgualCola /\ Servido(a)' /\ Servido(b)'
           /\ por'["memoria"] = por["memoria"]
<1>1. a \in Servidores /\ b \in Servidores
  BY ParSon
<1>2. Deja(a) /\ IgualCola /\ Servido(a)' /\ por'["memoria"] = por["memoria"]
  BY <1>1, ServidoPasa
<1>3. Fijo /\ IgualLlamador /\ IgualCliente(b)
  BY <1>2, ParSon
<1> QED
  BY <1>1, <1>2, <1>3, ClienteIgual

\* ... waits for the kernel
LEMMA Entran6 ==
    ASSUME Tipos, NEW a, NEW b, Par(a, b), NEW h, Avanza(h), cola[a] = <<>>,
           cola[b] = <<>>,
           h \in {"kernel", "memoria"} \/ h \in {a, PedidosDe[a]}
             \/ h \in {b, PedidosDe[b]},
           Acepta(3), Servido(a), Servido(b), Tercero
    PROVE  SiguenEntrando(a, b)
<1>1. a \in Servidores /\ b \in Servidores /\ Par(b, a)
  BY ParSon
<1>2. CASE h = "kernel"
  <2>1. DejaClientes /\ Tercero' /\ por'["memoria"] = por["memoria"]
    BY <1>2, TerceroPasa
  <2>2. Fijo /\ IgualCliente(a) /\ IgualCliente(b)
    BY <2>1, ParSon
  <2>3. Servido(a)' /\ Servido(b)' /\ Acepta(3)'
    BY <1>1, <2>1, <2>2, ClienteIgual, AceptaIgual
  <2> QED
    BY <2>1, <2>2, <2>3 DEF SiguenEntrando, Clientes
<1>3. CASE h = "memoria"
  <2>1. cola["memoria"] # <<>> => Head(cola["memoria"]) = "kernel"
    BY DEF Tercero
  <2>2. /\ DejaClientes /\ IgualLlamador /\ cola["memoria"] # <<>>
        /\ cola'["memoria"] = Tail(cola["memoria"]) /\ Saluda("kernel", 3, 0)'
    <3>1. 3 \in 1..3 /\ "kernel" \in Clientela
      BY DEF Clientela
    <3> QED
      BY <1>3, <2>1, <3>1, AtiendeA
  <2>3. KernelEnCola /\ cola["memoria"] = <<"kernel">>
    BY <2>2 DEF Tercero
  <2>4. Fijo /\ IgualCliente(a) /\ IgualCliente(b)
    BY <2>2, ParSon
  <2>5. cola'["memoria"] = <<>>
    BY <2>2, <2>3
  <2>6. SirveKernel' /\ Servido(a)' /\ Servido(b)'
    BY <1>1, <2>2, <2>3, <2>4, <2>5, EntraElKernel, ClienteIgual
  <2> QED
    BY <2>4, <2>6 DEF SiguenEntrando, Clientes
<1>4. CASE h \in {a, PedidosDe[a]} \/ h \in {b, PedidosDe[b]}
  <2>1. /\ Fijo /\ IgualLlamador /\ IgualCola /\ Servido(a)' /\ Servido(b)'
        /\ por'["memoria"] = por["memoria"]
    BY <1>1, <1>4, DosServidosPasan
  <2>2. Acepta(3)' /\ Tercero'
    BY <2>1, AceptaIgual, LlamadorIgual
  <2> QED
    BY <2>1, <2>2 DEF SiguenEntrando, Clientes
<1> QED
  BY <1>2, <1>3, <1>4

\* ... and serves it.
LEMMA Entran7 ==
    ASSUME Tipos, NEW a, NEW b, Par(a, b), NEW h, Avanza(h), cola[a] = <<>>,
           cola[b] = <<>>,
           h \in {"kernel", "memoria"} \/ h \in {a, PedidosDe[a]}
             \/ h \in {b, PedidosDe[b]},
           SinEmpezar("pedidos_kernel"), Servido(a), Servido(b), SirveKernel
    PROVE  SiguenEntrando(a, b)
<1>1. a \in Servidores /\ b \in Servidores /\ Par(b, a)
  BY ParSon
<1>2. CASE h \in {"kernel", "memoria"}
  <2>1. /\ DejaClientes /\ escuchan' = escuchan
        /\ \/ SirveKernel'
           \/ En("kernel", Inicio.kernel, 4)' /\ KmListo(<<>>)' /\ mk' = <<>>
    BY <1>2, SirveKernelPasa
  <2>2. Fijo /\ IgualCliente(a) /\ IgualCliente(b)
    BY <2>1, ParSon
  <2>3. Servido(a)' /\ Servido(b)'
    BY <1>1, <2>2, ClienteIgual
  <2>4. Servido("cpu")' /\ Servido("fs")'
    BY <2>3 DEF Par, Servidores
  <2>5. {"cpu", "fs"} \subseteq escuchan'
    BY <2>1 DEF SirveKernel
  <2>6. CASE SirveKernel'
    BY <2>2, <2>3, <2>6 DEF SiguenEntrando, Clientes
  <2>7. CASE En("kernel", Inicio.kernel, 4)' /\ KmListo(<<>>)' /\ mk' = <<>>
    BY <2>2, <2>4, <2>5, <2>7 DEF SiguenEntrando, Alcanza
  <2> QED
    BY <2>1, <2>6, <2>7
<1>3. CASE h \in {a, PedidosDe[a]} \/ h \in {b, PedidosDe[b]}
  <2>1. /\ Fijo /\ IgualLlamador /\ IgualCola /\ Servido(a)' /\ Servido(b)'
        /\ por'["memoria"] = por["memoria"]
    BY <1>1, <1>3, DosServidosPasan
  <2>2. SirveKernel'
    BY <2>1, LlamadorIgual
  <2> QED
    BY <2>1, <2>2 DEF SiguenEntrando, Clientes
<1> QED
  BY <1>2, <1>3

\* Every step is one of those.
LEMMA ClientesPasan ==
    ASSUME Tipos, NEW a, NEW b, Par(a, b), Clientes(a, b), NEW h \in Hilos,
           Avanza(h),
           cola["cpu"] = <<>>, cola["fs"] = <<>>, \A g \in Otros : SinEmpezar(g)
    PROVE  SiguenEntrando(a, b)
<1>1. cola[a] = <<>> /\ cola[b] = <<>>
  BY DEF Par, Servidores
<1>2. h \in {"kernel", "memoria"} \/ h \in {a, PedidosDe[a]}
        \/ h \in {b, PedidosDe[b]}
  BY ParSon, NoEmpezo
<1>3. SinEmpezar("pedidos_kernel")
  BY DEF Otros
<1>4. CASE /\ Acepta(0) /\ SinKernel
           /\ Fuera(a) /\ Fuera(b) /\ cola["memoria"] = <<>>
                /\ "memoria" \notin escuchan
  BY <1>2, <1>4, Entran1
<1>5. CASE /\ Acepta(1) /\ SinKernel
           /\ \/ Fuera(a) /\ Fuera(b) /\ cola["memoria"] = <<>>
              \/ EnCola(a) /\ Fuera(b) /\ cola["memoria"] = <<a>>
              \/ EnCola(a) /\ EnCola(b) /\ cola["memoria"] = <<a, b>>
  BY <1>2, <1>5, Entran2
<1>6. CASE Sirve(a, 1) /\ SinKernel /\ PideEntrar(b)
  BY <1>1, <1>2, <1>6, Entran3
<1>7. CASE Acepta(2) /\ Servido(a) /\ SinKernel /\ PideEntrar(b)
  BY <1>1, <1>2, <1>7, Entran4
<1>8. CASE Servido(a) /\ Sirve(b, 2) /\ Tercero
  BY <1>1, <1>2, <1>8, Entran5
<1>9. CASE Acepta(3) /\ Servido(a) /\ Servido(b) /\ Tercero
  BY <1>1, <1>2, <1>9, Entran6
<1>10. CASE Servido(a) /\ Servido(b) /\ SirveKernel
  BY <1>1, <1>2, <1>3, <1>10, Entran7
<1> QED
  BY <1>4, <1>5, <1>6, <1>7, <1>8, <1>9, <1>10 DEF Clientes
-----------------------------------------------------------------------------
(* The kernel connects to the CPU and to the FileSystem: the steps *)

\* The connections between the kernel and each of the two.
LEMMA DelKernelSon ==
    /\ DelKernel("cpu") = kc /\ AlKernel("cpu") = ck
    /\ DelKernel("fs") = kf /\ AlKernel("fs") = fk
    /\ DelKernel("cpu")' = kc' /\ AlKernel("cpu")' = ck'
    /\ DelKernel("fs")' = kf' /\ AlKernel("fs")' = fk'
BY DEF DelKernel, AlKernel, kc, ck, kf, fk

\* A step of the kernel, or of c, on the connection of both.
DejaOtro(c) ==
    /\ Tipos' /\ MismoMutex /\ IgualCF /\ IgualKM /\ IgualCM /\ IgualFM
    /\ \A g \in Hilos \ {"kernel", "cpu", "fs"} : por'[g] = por[g]
    /\ \A d \in Servidores \ {c} :
          /\ por'[d] = por[d] /\ cola'[d] = cola[d]
          /\ DelKernel(d)' = DelKernel(d) /\ AlKernel(d)' = AlKernel(d)

\* A step for one of them leaves the other alone.
LEMMA DejaLaConexion ==
    ASSUME NEW c \in Servidores, NEW h \in {"kernel", c}, NEW y, HiloPasa(h, y),
           Tipos',
           MismoMutex, \A d \in Servidores \ {c} : cola'[d] = cola[d]
    PROVE  /\ por'[h] = y /\ \A g \in {"kernel", c} \ {h} : por'[g] = por[g]
           /\ \A w : CanalPasa(<<"kernel", c>>, w) =>
                 DejaOtro(c) /\ DelKernel(c)' = w /\ AlKernel(c)' = AlKernel(c)
           /\ \A w : CanalPasa(<<c, "kernel">>, w) =>
                 DejaOtro(c) /\ DelKernel(c)' = DelKernel(c) /\ AlKernel(c)' = w
           /\ canal' = canal =>
                 DejaOtro(c) /\ DelKernel(c)' = DelKernel(c)
                   /\ AlKernel(c)' = AlKernel(c)
<1>1. por'[h] = y /\ \A g \in Hilos \ {h} : por'[g] = por[g]
  BY DEF HiloPasa
<1>2. CASE c = "cpu"
  <2>1. /\ \A g \in Hilos \ {"kernel", "cpu", "fs"} : por'[g] = por[g]
        /\ por'["fs"] = por["fs"] /\ \A g \in {"kernel", c} \ {h} :
             por'[g] = por[g]
    BY <1>1, <1>2, HilosSon
  <2>2. cola'["fs"] = cola["fs"] /\ Servidores \ {c} = {"fs"}
    BY <1>2 DEF Servidores
  <2>3. IgualKF /\ IgualCF /\ IgualKM /\ IgualCM /\ IgualFM => DejaOtro(c)
    BY <2>1, <2>2, DelKernelSon DEF DejaOtro, IgualKF
  <2>4. \A w : CanalPasa(<<"kernel", "cpu">>, w)
          => DejaOtro(c) /\ kc' = w /\ ck' = ck
    BY <2>3, CanalesDe
  <2>5. \A w : CanalPasa(<<"cpu", "kernel">>, w)
          => DejaOtro(c) /\ kc' = kc /\ ck' = w
    BY <2>3, CanalesDe
  <2>6. canal' = canal => DejaOtro(c) /\ kc' = kc /\ ck' = ck
    BY <2>3, SoloElCanal DEF IgualKC
  <2> QED
    BY <1>1, <1>2, <2>1, <2>4, <2>5, <2>6, DelKernelSon
<1>3. CASE c = "fs"
  <2>1. /\ \A g \in Hilos \ {"kernel", "cpu", "fs"} : por'[g] = por[g]
        /\ por'["cpu"] = por["cpu"] /\ \A g \in {"kernel", c} \ {h} :
             por'[g] = por[g]
    BY <1>1, <1>3, HilosSon
  <2>2. cola'["cpu"] = cola["cpu"] /\ Servidores \ {c} = {"cpu"}
    BY <1>3 DEF Servidores
  <2>3. IgualKC /\ IgualCF /\ IgualKM /\ IgualCM /\ IgualFM => DejaOtro(c)
    BY <2>1, <2>2, DelKernelSon DEF DejaOtro, IgualKC
  <2>4. \A w : CanalPasa(<<"kernel", "fs">>, w)
          => DejaOtro(c) /\ kf' = w /\ fk' = fk
    BY <2>3, CanalesDe
  <2>5. \A w : CanalPasa(<<"fs", "kernel">>, w)
          => DejaOtro(c) /\ kf' = kf /\ fk' = w
    BY <2>3, CanalesDe
  <2>6. canal' = canal => DejaOtro(c) /\ kf' = kf /\ fk' = fk
    BY <2>3, SoloElCanal DEF IgualKF
  <2> QED
    BY <1>1, <1>3, <2>1, <2>4, <2>5, <2>6, DelKernelSon
<1> QED
  BY <1>2, <1>3 DEF Servidores

\* The same, of a call that sends or receives.
LEMMA DejaLaConexionVa ==
    ASSUME NEW c \in Servidores, NEW h \in {"kernel", c}, NEW y, NEW w
    PROVE  /\ Va(h, y, <<"kernel", c>>, w) =>
                 /\ DejaOtro(c) /\ cola' = cola /\ por'[h] = y
                 /\ DelKernel(c)' = w /\ AlKernel(c)' = AlKernel(c)
                 /\ \A g \in {"kernel", c} \ {h} : por'[g] = por[g]
           /\ Va(h, y, <<c, "kernel">>, w) =>
                 /\ DejaOtro(c) /\ cola' = cola /\ por'[h] = y
                 /\ DelKernel(c)' = DelKernel(c) /\ AlKernel(c)' = w
                 /\ \A g \in {"kernel", c} \ {h} : por'[g] = por[g]
<1>1. ASSUME NEW e, Va(h, y, e, w)
      PROVE  /\ Tipos' /\ MismoMutex /\ HiloPasa(h, y) /\ cola' = cola
             /\ \A d \in Servidores \ {c} : cola'[d] = cola[d]
             /\ CanalPasa(e, w)
  BY <1>1 DEF Va, MismoMutex, Resto4
<1> QED
  BY <1>1, DejaLaConexion

\* The threads and the connections exist.
LEMMA LaConexion ==
    ASSUME NEW c \in Servidores
    PROVE  /\ "kernel" \in Hilos /\ c \in Hilos /\ "kernel" \in Modulos
                /\ c \in Modulos
           /\ <<"kernel", c>> \in Canales /\ <<c, "kernel">> \in Canales
           /\ "kernel" \in {"kernel", c} /\ c \in {"kernel", c} /\ c # "kernel"
           /\ c # "memoria"
BY HilosSon, CanalesSon DEF Servidores, Modulos

\* What the module answers to connect: the word of the client and a zero.
LEMMA SaludoDeToca ==
    ASSUME Tipos, NEW c \in Servidores
    PROVE  /\ En(c, SaludoDe(c), 0) => Toca(c, recibe("kernel", c),
                Quedan(SaludoDe(c), 1))
           /\ En(c, SaludoDe(c), 1) => Toca(c, responde(c, "kernel"), Bucle[c])
           /\ En(c, Inicio[c], 4) /\ Avanza(c)
                /\ (cola[c] # <<>> => Head(cola[c]) = "kernel") =>
                 /\ Tipos' /\ canal' = canal
                      /\ HiloPasa(c, Quedan(SaludoDe(c), 0))
                 /\ \A m \in Modulos \ {c} : cola'[m] = cola[m]
                 /\ mutex_memoria' = mutex_memoria /\ cola[c] # <<>>
<1> DEFINE c1 == recibe("kernel", c)
           c2 == responde(c, "kernel")
           u == <<c1>> \o <<c2>>
           q == Bucle[c]
<1>1. c1 \in Llamadas /\ c2 \in Llamadas
  BY LaConexion, LlamadaTipos
<1>2. q \in Seq(Llamadas) /\ q # <<>>
  BY LaConexion, BucleTipos
<1>3. u = Recibir("kernel", c) \o Responder(c, "kernel") /\ SaludoDe(c) = u \o q
  BY DEF Recibir, Responder, recibe, responde, SaludoDe
<1> HIDE DEF c1, c2
<1>4. u \in Seq(Llamadas) /\ Len(u) = 2 /\ u[1] = c1 /\ u[2] = c2
  BY <1>1, Dos
<1> HIDE DEF u, q
<1>5. /\ 0 \in 0..Len(u) - 1 /\ 1 = 0 + 1 /\ 1 \in 0..Len(u) - 1 /\ 2 = 1 + 1
           /\ 2 = Len(u)
  BY <1>4
<1>6. u \o q \in Seq(Llamadas) /\ Quedan(u \o q, 0) = u \o q
  <2>1. u \o q \in Seq(Llamadas)
    BY <1>2, <1>4
  <2> QED
    BY <2>1, QuedaTodoONada
<1>7. Quedan(u \o q, 2) = q
  BY <1>2, <1>4, <1>5, PasoDe
<1>8. En(c, u \o q, 0) => Toca(c, c1, Quedan(u \o q, 1))
  BY <1>2, <1>4, <1>5, LaConexion, AntesDe
<1>9. En(c, u \o q, 1) => Toca(c, c2, q)
  <2>1. En(c, u \o q, 1) => Toca(c, u[2], Quedan(u \o q, 2))
    BY <1>2, <1>4, <1>5, LaConexion, AntesDe
  <2> QED
    BY <1>4, <1>7, <2>1
<1>10. ASSUME En(c, Inicio[c], 4), Avanza(c), cola[c] # <<>>
              => Head(cola[c]) = "kernel"
       PROVE  /\ Tipos' /\ canal' = canal /\ HiloPasa(c, Quedan(u \o q, 0))
              /\ \A m \in Modulos \ {c} : cola'[m] = cola[m]
              /\ mutex_memoria' = mutex_memoria /\ cola[c] # <<>>
  <2>1. TocaCon(c, solo("accept"), q)
    BY <1>10, InicioClienteToca DEF q
  <2>2. u = Recibir("kernel", c) \o Responder(c, "kernel")
            \o IF c = "memoria" THEN Segun("kernel", c, "conexion") ELSE <<>>
    <3>1. u \o <<>> = u
      BY <1>4, ConcatEmptySeq
    <3> QED
      BY <1>3, <3>1, LaConexion
  <2>3. /\ Tipos' /\ canal' = canal /\ HiloPasa(c, u \o q) /\ cola[c] # <<>>
        /\ \A m \in Modulos \ {c} : cola'[m] = cola[m]
        /\ mutex_memoria' = mutex_memoria
    BY <1>4, <1>10, <2>1, <2>2, LaConexion, PasoAcepta
  <2> QED
    BY <1>6, <2>3
<1>11. En(c, SaludoDe(c), 0) => Toca(c, recibe("kernel", c),
         Quedan(SaludoDe(c), 1))
  BY <1>3, <1>8 DEF c1
<1>12. En(c, SaludoDe(c), 1) => Toca(c, responde(c, "kernel"), Bucle[c])
  BY <1>3, <1>9 DEF c2, q
<1>13. HiloPasa(c, Quedan(u \o q, 0)) <=> HiloPasa(c, Quedan(SaludoDe(c), 0))
  BY <1>3
<1> QED
  BY <1>10, <1>11, <1>12, <1>13

\* A server that nobody calls waits,
LEMMA EsperaEspera ==
    ASSUME Tipos, NEW c \in Servidores, Espera(c)
    PROVE  ~Avanza(c)
BY InicioClienteToca, NoAcepta DEF Espera

\* ... and so does one with no request.
LEMMA QuietoEspera ==
    ASSUME Tipos, NEW c \in Servidores, EnBucle(c), DelKernel(c) = <<>>
    PROVE  ~Avanza(c)
<1>1. CASE c = "cpu"
  BY <1>1, CpuEspera, DelKernelSon
<1>2. CASE c = "fs"
  BY <1>2, FsEspera, DelKernelSon
<1> QED
  BY <1>1, <1>2 DEF Servidores

\* The kernel connects to one of them,
LEMMA ConectaA ==
    ASSUME Tipos, NEW c \in Servidores, NEW y, Espera(c),
           Toca("kernel", conecta("kernel", c), y), Avanza("kernel")
    PROVE  DejaOtro(c) /\ por'["kernel"] = y /\ Saludando(c)'
<1>1. Hay("kernel", c, <<>>) /\ cola[c] = <<>> /\ AlKernel(c) = <<>>
        /\ En(c, Inicio[c], 4)
  BY DEF Espera, Hay, DelKernel
<1>2. /\ Tipos' /\ HiloPasa("kernel", y)
           /\ CanalPasa(<<"kernel", c>>, <<Dato(1)>>)
      /\ cola'[c] = Append(cola[c], "kernel")
      /\ \A m \in Modulos \ {c} : cola'[m] = cola[m]
      /\ mutex_memoria' = mutex_memoria
  BY <1>1, LaConexion, PasoConecta
<1>3. MismoMutex /\ \A d \in Servidores \ {c} : cola'[d] = cola[d]
  BY <1>2 DEF MismoMutex, Servidores, Modulos
<1>4. /\ DejaOtro(c) /\ por'["kernel"] = y /\ por'[c] = por[c]
      /\ DelKernel(c)' = <<Dato(1)>> /\ AlKernel(c)' = AlKernel(c)
  BY <1>2, <1>3, LaConexion, DejaLaConexion
<1>5. cola'[c] = <<"kernel">>
  BY <1>1, <1>2
<1> QED
  BY <1>1, <1>4, <1>5 DEF Saludando, En

\* ... and reads its answer.
LEMMA RecibeDe ==
    ASSUME Tipos, NEW c \in Servidores, NEW y, Saludando(c),
           Toca("kernel", recibe(c, "kernel"), y), Avanza("kernel")
    PROVE  DejaOtro(c) /\ por'["kernel"] = y /\ Quieto(c)'
<1>1. AlKernel(c) # <<>>
  BY NoHay DEF Hay, AlKernel
<1>2. EnBucle(c) /\ DelKernel(c) = <<>> /\ Hay(c, "kernel", <<Dato(0)>>)
  BY <1>1 DEF Saludando, Hay, AlKernel
<1>a. <<c, "kernel">> \in Canales
  BY LaConexion
<1>3. Va("kernel", y, <<c, "kernel">>, <<>>)
  <2>1. Hay(c, "kernel", <<Dato(0)>>)
    BY <1>2
  <2> QED
    BY <2>1, <1>a, PasoRecibeUno
<1>4. /\ DejaOtro(c) /\ por'["kernel"] = y /\ por'[c] = por[c]
      /\ DelKernel(c)' = DelKernel(c) /\ AlKernel(c)' = <<>>
  BY <1>3, LaConexion, DejaLaConexionVa
<1> QED
  BY <1>2, <1>4 DEF Quieto, EnBucle

\* The server greets it back.
LEMMA SaludandoPasa ==
    ASSUME Tipos, NEW c \in Servidores, Saludando(c), Avanza(c)
    PROVE  DejaOtro(c) /\ por'["kernel"] = por["kernel"] /\ Saludando(c)'
<1> DEFINE s == SaludoDe(c)
<1>0. /\ por'[c] = Quedan(s, 0) => En(c, s, 0)'
      /\ por'[c] = Quedan(s, 1) => En(c, s, 1)'
      /\ por'[c] = Bucle[c] => EnBucle(c)'
  BY DEF En, EnBucle
<1> HIDE DEF s
<1>1. CASE /\ En(c, Inicio[c], 4) /\ cola[c] = <<"kernel">>
           /\ DelKernel(c) = <<Dato(1)>> /\ AlKernel(c) = <<>>
  <2>1. /\ Tipos' /\ canal' = canal /\ HiloPasa(c, Quedan(s, 0))
        /\ \A m \in Modulos \ {c} : cola'[m] = cola[m]
        /\ mutex_memoria' = mutex_memoria
    BY <1>1, SaludoDeToca DEF s
  <2>2. MismoMutex /\ \A d \in Servidores \ {c} : cola'[d] = cola[d]
    BY <2>1 DEF MismoMutex, Servidores, Modulos
  <2>3. /\ DejaOtro(c) /\ por'["kernel"] = por["kernel"]
             /\ por'[c] = Quedan(s, 0)
        /\ DelKernel(c)' = DelKernel(c) /\ AlKernel(c)' = AlKernel(c)
    BY <2>1, <2>2, LaConexion, DejaLaConexion
  <2>4. En(c, s, 0)' /\ DelKernel(c)' = <<Dato(1)>> /\ AlKernel(c)' = <<>>
    BY <1>0, <1>1, <2>3
  <2> QED
    BY <2>3, <2>4 DEF Saludando, s
<1>2. CASE En(c, s, 0) /\ DelKernel(c) = <<Dato(1)>> /\ AlKernel(c) = <<>>
  <2> DEFINE y == Quedan(s, 1)
  <2>1. Toca(c, recibe("kernel", c), y) /\ Hay("kernel", c, <<Dato(1)>>)
    BY <1>2, SaludoDeToca DEF s, Hay, DelKernel
  <2> HIDE DEF y
  <2>a. <<"kernel", c>> \in Canales
    BY LaConexion
  <2>2. Va(c, y, <<"kernel", c>>, <<>>)
    BY <2>1, <2>a, PasoRecibeUno
  <2>3. /\ DejaOtro(c) /\ por'["kernel"] = por["kernel"] /\ por'[c] = y
        /\ DelKernel(c)' = <<>> /\ AlKernel(c)' = AlKernel(c)
    BY <2>2, LaConexion, DejaLaConexionVa
  <2>4. En(c, s, 1)' /\ DelKernel(c)' = <<>> /\ AlKernel(c)' = <<>>
    BY <1>0, <1>2, <2>3 DEF y
  <2> QED
    BY <2>3, <2>4 DEF Saludando, s
<1>3. CASE En(c, s, 1) /\ DelKernel(c) = <<>> /\ AlKernel(c) = <<>>
  <2>1. Toca(c, responde(c, "kernel"), Bucle[c]) /\ Hay(c, "kernel", <<>>)
    BY <1>3, SaludoDeToca DEF s, Hay, AlKernel
  <2>2. Va(c, Bucle[c], <<c, "kernel">>, <<>> \o <<Dato(0)>>)
    BY <2>1, LaConexion, PasoResponde
  <2>3. <<>> \o <<Dato(0)>> = <<Dato(0)>>
    BY DatosTipos, ConcatEmptySeq
  <2>4. /\ DejaOtro(c) /\ por'["kernel"] = por["kernel"] /\ por'[c] = Bucle[c]
        /\ DelKernel(c)' = DelKernel(c) /\ AlKernel(c)' = <<Dato(0)>>
    BY <2>2, <2>3, LaConexion, DejaLaConexionVa
  <2>5. EnBucle(c)' /\ DelKernel(c)' = <<>> /\ AlKernel(c)' = <<Dato(0)>>
    BY <1>0, <1>3, <2>4
  <2> QED
    BY <2>4, <2>5 DEF Saludando
<1>4. CASE EnBucle(c) /\ DelKernel(c) = <<>>
  BY <1>4, QuietoEspera
<1> QED
  BY <1>1, <1>2, <1>3, <1>4 DEF Saludando, s
-----------------------------------------------------------------------------
(* Every step keeps the invariant *)

\* Threads that do not move.
LEMMA OtrosIguales ==
    ASSUME \A g \in Otros : por'[g] = por[g]
    PROVE  \A g \in Otros : SinEmpezar(g) => SinEmpezar(g)'
BY DEF SinEmpezar

\* What Conexiones says of the clients is what Servido does.
LEMMA ServidoEs ==
    /\ Servido("cpu")' => /\ PedidosCpuQuieto'
                          /\ "cpu" \in escuchan' => En("cpu", Inicio["cpu"], 4)'
    /\ Servido("fs")' => /\ PedidosFs'
                         /\ "fs" \in escuchan' => En("fs", Inicio["fs"], 4)'
<1>1. De("cpu")' = cm' /\ A("cpu")' = mc' /\ De("fs")' = fm' /\ A("fs")' = mf'
  BY DEF De, A, cm, mc, fm, mf
<1>2. Servido("cpu")' => PedidosCpuQuieto'
  BY <1>1 DEF Servido, PedidosCpuQuieto
<1>3. Servido("fs")' => PedidosFs'
  BY <1>1 DEF Servido, PedidosFs
<1>4. \A c \in Servidores : Presentado(c)' /\ c \in escuchan'
        => En(c, Inicio[c], 4)'
  BY DEF Presentado
<1> QED
  BY <1>2, <1>3, <1>4 DEF Servido, Servidores

\* A step before the kernel knows Memoria.
LEMMA ArranquePasa ==
    ASSUME Tipos, Arranque, NEW h \in Hilos, Avanza(h)
    PROVE  Tipos' /\ IgualCF /\ (Arranque' \/ Conexiones')
<1>1. \A g \in Otros : SinEmpezar(g)
  BY DEF Arranque, NadieMas, Otros
<1>2. Par("cpu", "fs") /\ Par("fs", "cpu")
  BY DEF Par, Servidores
<1>3. SiguenEntrando("cpu", "fs") \/ SiguenEntrando("fs", "cpu")
  BY <1>1, <1>2, ClientesPasan DEF Arranque
<1>4. Fijo /\ (Clientes("cpu", "fs")' \/ Clientes("fs", "cpu")' \/ Alcanza')
  BY <1>3 DEF SiguenEntrando
<1>5. \A g \in Otros : SinEmpezar(g)'
  BY <1>1, <1>4, OtrosIguales DEF Fijo
<1>6. NadieMas' /\ SinEmpezar("pedidos_kernel")'
  BY <1>4, <1>5 DEF Arranque, NadieMas, Otros, Fijo, MismoMutex
<1>7. /\ kc' = <<>> /\ ck' = <<>> /\ kf' = <<>> /\ fk' = <<>>
      /\ cola'["cpu"] = <<>> /\ cola'["fs"] = <<>>
  BY <1>4 DEF Arranque, Fijo, IgualKC, IgualKF
<1>8. CASE Clientes("cpu", "fs")' \/ Clientes("fs", "cpu")'
  BY <1>4, <1>6, <1>7, <1>8 DEF Arranque, Fijo
<1>9. CASE Alcanza'
  <2>1. /\ PedidosCpuQuieto' /\ PedidosFs'
        /\ En("cpu", Inicio["cpu"], 4)' /\ En("fs", Inicio["fs"], 4)'
    BY <1>9, ServidoEs DEF Alcanza
  <2>2. Espera("cpu")' /\ Espera("fs")'
    BY <1>7, <2>1, DelKernelSon DEF Espera
  <2>3. Conexiones'
    BY <1>6, <1>9, <2>1, <2>2 DEF Alcanza, Conexiones
  <2> QED
    BY <1>4, <2>3 DEF Fijo
<1> QED
  BY <1>4, <1>8, <1>9

\* What a step on the connection of the kernel and c leaves alone.
LEMMA DejaOtroDeja ==
    ASSUME NEW c \in Servidores, DejaOtro(c)
    PROVE  /\ Tipos' /\ IgualCF
           /\ NadieMas => NadieMas'
           /\ KmListo(<<>>) => KmListo(<<>>)'
           /\ mk = <<>> => mk' = <<>>
           /\ PedidosCpuQuieto => PedidosCpuQuieto'
           /\ PedidosFs => PedidosFs'
           /\ \A d \in Servidores \ {c} :
                 (Espera(d) => Espera(d)') /\ (Quieto(d) => Quieto(d)')
<1>1. /\ por'["ready"] = por["ready"] /\ por'["desalojo"] = por["desalojo"]
      /\ por'["memoria"] = por["memoria"]
           /\ por'["pedidos_kernel"] = por["pedidos_kernel"]
      /\ por'["pedidos_cpu"] = por["pedidos_cpu"]
           /\ por'["pedidos_fs"] = por["pedidos_fs"]
  BY HilosSon DEF DejaOtro
<1>2. IgualMem /\ IgualPedidosFs
  BY <1>1 DEF DejaOtro, IgualMem, IgualPedidosFs
<1>3. NadieMas => NadieMas'
  BY <1>1 DEF DejaOtro, NadieMas, SinEmpezar, MismoMutex
<1>4. PedidosCpuQuieto => PedidosCpuQuieto'
  BY <1>1 DEF DejaOtro, IgualCM, PedidosCpuQuieto, EnBucle
<1>5. ASSUME NEW d \in Servidores \ {c}
      PROVE  (Espera(d) => Espera(d)') /\ (Quieto(d) => Quieto(d)')
  <2>1. /\ por'[d] = por[d] /\ cola'[d] = cola[d]
        /\ DelKernel(d)' = DelKernel(d) /\ AlKernel(d)' = AlKernel(d)
    BY DEF DejaOtro
  <2> QED
    BY <2>1 DEF Espera, Quieto, En, EnBucle
<1>6. Tipos' /\ IgualCF /\ (mk = <<>> => mk' = <<>>)
  BY DEF DejaOtro, IgualKM
<1> QED
  BY <1>2, <1>3, <1>4, <1>5, <1>6, MemIgual, PedidosFsIgual

\* What a step of Memoria leaves alone.
LosTres ==
    /\ MismoMutex /\ KernelIgual
    /\ por'["cpu"] = por["cpu"] /\ por'["fs"] = por["fs"]
    /\ IgualKC /\ IgualKF /\ cola'["cpu"] = cola["cpu"]
         /\ cola'["fs"] = cola["fs"]
\* A step of Memoria leaves the kernel and the two servers as they are.
LEMMA LosTresSiguen ==
    ASSUME LosTres
    PROVE  /\ NadieMas => NadieMas'
           /\ \A c \in Servidores : /\ Espera(c) => Espera(c)'
                                    /\ Saludando(c) => Saludando(c)'
                                    /\ Quieto(c) => Quieto(c)'
           /\ \A k : En("kernel", Inicio.kernel, k)
                => En("kernel", Inicio.kernel, k)'
<1>1. NadieMas => NadieMas'
  BY DEF LosTres, NadieMas, SinEmpezar, MismoMutex, KernelIgual
<1>2. \A k : En("kernel", Inicio.kernel, k) => En("kernel", Inicio.kernel, k)'
  BY DEF LosTres, KernelIgual, En
<1>3. ASSUME NEW c \in Servidores
      PROVE  /\ Espera(c) => Espera(c)'
             /\ Saludando(c) => Saludando(c)'
             /\ Quieto(c) => Quieto(c)'
  <2>1. /\ por'[c] = por[c] /\ cola'[c] = cola[c]
        /\ DelKernel(c)' = DelKernel(c) /\ AlKernel(c)' = AlKernel(c)
    BY DelKernelSon DEF LosTres, Servidores, IgualKC, IgualKF
  <2>2. \A s, k : En(c, s, k) => En(c, s, k)'
    BY <2>1 DEF En
  <2>3. EnBucle(c) => EnBucle(c)'
    BY <2>1 DEF EnBucle
  <2> QED
    BY <2>1, <2>2, <2>3 DEF Espera, Saludando, Quieto
<1> QED
  BY <1>1, <1>2, <1>3

\* A step of Memoria, while the kernel connects.
LEMMA ConexionesMemoria ==
    ASSUME Tipos, Conexiones,
           NEW h \in {"memoria", "pedidos_kernel", "pedidos_cpu", "pedidos_fs"},
             Avanza(h)
    PROVE  Tipos' /\ IgualCF /\ Conexiones'
<1>0. /\ NadieMas /\ KmListo(<<>>) /\ mk = <<>> /\ PedidosCpuQuieto /\ PedidosFs
      /\ "cpu" \in Servidores /\ "fs" \in Servidores
  BY DEF Conexiones, Servidores
<1>1. MemoriaTermina
  BY <1>0 DEF KmListo, MemoriaTermina
<1>2. ASSUME LosTres, KmListo(<<>>)', mk' = <<>>, PedidosCpuQuieto', PedidosFs'
      PROVE  Conexiones'
  BY <1>0, <1>2, LosTresSiguen DEF Conexiones
<1>3. CASE h = "memoria" \/ h = "pedidos_kernel"
  <2>1. SoloMem /\ MemQuieta'
    BY <1>0, <1>1, <1>3, MemQuietaPasa DEF MemQuieta
  <2>2. /\ Tipos' /\ IgualCF /\ MismoMutex /\ KernelIgual
        /\ IgualCpu /\ IgualFs /\ IgualPedidosFs
    BY <2>1, SoloSon
  <2>3. PedidosCpuQuieto' /\ PedidosFs'
    BY <1>0, <2>2, CpuIgual, PedidosFsIgual
  <2>4. LosTres
    BY <2>1, <2>2 DEF LosTres, IgualCpu, IgualFs, SoloMem, Resto4
  <2> QED
    BY <1>2, <2>1, <2>2, <2>3, <2>4 DEF MemQuieta
<1>4. CASE h = "pedidos_fs"
  <2>1. SoloPedidosFs /\ PedidosFs'
    BY <1>0, <1>4, PedidosFsSigue
  <2>2. /\ Tipos' /\ IgualCF /\ MismoMutex /\ KernelIgual
        /\ IgualCpu /\ IgualFs /\ IgualMem
    BY <2>1, SoloSon
  <2>3. PedidosCpuQuieto' /\ KmListo(<<>>)' /\ mk' = <<>>
    BY <1>0, <2>2, CpuIgual, MemIgual DEF IgualMem, IgualKM
  <2>4. LosTres
    BY <2>1, <2>2 DEF LosTres, IgualCpu, IgualFs, SoloPedidosFs, Resto4
  <2> QED
    BY <1>2, <2>1, <2>2, <2>3, <2>4
<1>5. CASE h = "pedidos_cpu"
  BY <1>0, <1>5, PedidosCpuEspera DEF PedidosCpuQuieto
<1> QED
  BY <1>3, <1>4, <1>5

\* CPU or FileSystem accepts the kernel.
LEMMA ConexionesServidores ==
    ASSUME Tipos, Conexiones, NEW h \in Servidores, Avanza(h)
    PROVE  Tipos' /\ IgualCF /\ Conexiones'
<1>0. /\ NadieMas /\ KmListo(<<>>) /\ mk = <<>> /\ PedidosCpuQuieto /\ PedidosFs
  BY DEF Conexiones
<1>1. ~Espera(h) /\ ~Quieto(h)
  BY EsperaEspera, QuietoEspera DEF Quieto
<1>2. Saludando(h)
  BY <1>1 DEF Conexiones, Servidores
<1>3. DejaOtro(h) /\ por'["kernel"] = por["kernel"] /\ Saludando(h)'
  BY <1>2, SaludandoPasa
<1>4. /\ Tipos' /\ IgualCF /\ NadieMas' /\ KmListo(<<>>)' /\ mk' = <<>>
      /\ PedidosCpuQuieto' /\ PedidosFs'
      /\ \A d \in Servidores \ {h} : (Espera(d) => Espera(d)')
           /\ (Quieto(d) => Quieto(d)')
  BY <1>0, <1>3, DejaOtroDeja
<1>5. \A k : En("kernel", Inicio.kernel, k) => En("kernel", Inicio.kernel, k)'
  BY <1>3 DEF En
<1>6. CASE h = "cpu"
  <2>1. En("kernel", Inicio.kernel, 5) /\ Espera("fs")
    BY <1>1, <1>6 DEF Conexiones
  <2>2. Espera("fs")'
    BY <1>4, <1>6, <2>1 DEF Servidores
  <2> QED
    BY <1>3, <1>4, <1>5, <1>6, <2>1, <2>2 DEF Conexiones
<1>7. CASE h = "fs"
  <2>1. En("kernel", Inicio.kernel, 7) /\ Quieto("cpu")
    BY <1>1, <1>7 DEF Conexiones
  <2>2. Quieto("cpu")'
    BY <1>4, <1>7, <2>1 DEF Servidores
  <2> QED
    BY <1>3, <1>4, <1>5, <1>7, <2>1, <2>2 DEF Conexiones
<1> QED
  BY <1>6, <1>7 DEF Servidores

\* The kernel connects, and launches its threads.
LEMMA ConexionesKernel ==
    ASSUME Tipos, Conexiones, Avanza("kernel")
    PROVE  Tipos' /\ IgualCF /\ (Conexiones' \/ Marcha')
<1>0. /\ NadieMas /\ KmListo(<<>>) /\ mk = <<>> /\ PedidosCpuQuieto /\ PedidosFs
      /\ "cpu" \in Servidores /\ "fs" \in Servidores
      /\ Servidores \ {"cpu"} = {"fs"} /\ Servidores \ {"fs"} = {"cpu"}
  BY DEF Conexiones, Servidores
<1>1. \A k : por'["kernel"] = Quedan(Inicio.kernel, k)
        => En("kernel", Inicio.kernel, k)'
  BY DEF En
<1>2. ASSUME NEW c \in Servidores, DejaOtro(c)
      PROVE  /\ Tipos' /\ IgualCF /\ NadieMas' /\ KmListo(<<>>)' /\ mk' = <<>>
             /\ PedidosCpuQuieto' /\ PedidosFs'
             /\ \A d \in Servidores \ {c} : (Espera(d) => Espera(d)')
                  /\ (Quieto(d) => Quieto(d)')
  BY <1>0, <1>2, DejaOtroDeja
<1>3. CASE En("kernel", Inicio.kernel, 4) /\ Espera("cpu") /\ Espera("fs")
  <2> DEFINE y == Quedan(Inicio.kernel, 5)
  <2>1. Toca("kernel", conecta("kernel", "cpu"), y)
    BY <1>3, InicioKernelToca
  <2> HIDE DEF y
  <2>2. DejaOtro("cpu") /\ por'["kernel"] = y /\ Saludando("cpu")'
    BY <1>0, <1>3, <2>1, ConectaA
  <2>3. /\ Tipos' /\ IgualCF /\ NadieMas' /\ KmListo(<<>>)' /\ mk' = <<>>
        /\ PedidosCpuQuieto' /\ PedidosFs' /\ Espera("fs")'
    BY <1>0, <1>2, <1>3, <2>2
  <2>4. En("kernel", Inicio.kernel, 5)'
    BY <1>1, <2>2 DEF y
  <2> QED
    BY <2>2, <2>3, <2>4 DEF Conexiones
<1>4. CASE En("kernel", Inicio.kernel, 5) /\ Saludando("cpu") /\ Espera("fs")
  <2> DEFINE y == Quedan(Inicio.kernel, 6)
  <2>1. Toca("kernel", recibe("cpu", "kernel"), y)
    BY <1>4, InicioKernelToca
  <2> HIDE DEF y
  <2>2. DejaOtro("cpu") /\ por'["kernel"] = y /\ Quieto("cpu")'
    BY <1>0, <1>4, <2>1, RecibeDe
  <2>3. /\ Tipos' /\ IgualCF /\ NadieMas' /\ KmListo(<<>>)' /\ mk' = <<>>
        /\ PedidosCpuQuieto' /\ PedidosFs' /\ Espera("fs")'
    BY <1>0, <1>2, <1>4, <2>2
  <2>4. En("kernel", Inicio.kernel, 6)'
    BY <1>1, <2>2 DEF y
  <2> QED
    BY <2>2, <2>3, <2>4 DEF Conexiones
<1>5. CASE En("kernel", Inicio.kernel, 6) /\ Quieto("cpu") /\ Espera("fs")
  <2> DEFINE y == Quedan(Inicio.kernel, 7)
  <2>1. Toca("kernel", conecta("kernel", "fs"), y)
    BY <1>5, InicioKernelToca
  <2> HIDE DEF y
  <2>2. DejaOtro("fs") /\ por'["kernel"] = y /\ Saludando("fs")'
    BY <1>0, <1>5, <2>1, ConectaA
  <2>3. /\ Tipos' /\ IgualCF /\ NadieMas' /\ KmListo(<<>>)' /\ mk' = <<>>
        /\ PedidosCpuQuieto' /\ PedidosFs' /\ Quieto("cpu")'
    BY <1>0, <1>2, <1>5, <2>2
  <2>4. En("kernel", Inicio.kernel, 7)'
    BY <1>1, <2>2 DEF y
  <2> QED
    BY <2>2, <2>3, <2>4 DEF Conexiones
<1>6. CASE En("kernel", Inicio.kernel, 7) /\ Quieto("cpu") /\ Saludando("fs")
  <2> DEFINE y == Quedan(Inicio.kernel, 8)
  <2>1. Toca("kernel", recibe("fs", "kernel"), y)
    BY <1>6, InicioKernelToca
  <2> HIDE DEF y
  <2>2. DejaOtro("fs") /\ por'["kernel"] = y /\ Quieto("fs")'
    BY <1>0, <1>6, <2>1, RecibeDe
  <2>3. /\ Tipos' /\ IgualCF /\ NadieMas' /\ KmListo(<<>>)' /\ mk' = <<>>
        /\ PedidosCpuQuieto' /\ PedidosFs' /\ Quieto("cpu")'
    BY <1>0, <1>2, <1>6, <2>2
  <2>4. En("kernel", Inicio.kernel, 8)'
    BY <1>1, <2>2 DEF y
  <2> QED
    BY <2>2, <2>3, <2>4 DEF Conexiones
<1>7. CASE En("kernel", Inicio.kernel, 8) /\ Quieto("cpu") /\ Quieto("fs")
  <2> DEFINE y == Quedan(Inicio.kernel, 9)
             H == {"ready", "desalojo"}
  <2>1. Ahora("kernel") = lanza(H) /\ Tail(por["kernel"]) = y
          /\ y \in Seq(Llamadas)
    <3>1. /\ Inicio.kernel \in Seq(Llamadas) /\ Len(Inicio.kernel) = 10
          /\ Inicio.kernel[9] = lanza({"ready", "desalojo"})
               /\ "kernel" \in Hilos
      BY InicioKernelLlama, HilosSon
    <3> DEFINE s == Inicio.kernel
    <3>2. s \in Seq(Llamadas) /\ Len(s) = 10 /\ s[9] = lanza(H)
            /\ En("kernel", s, 8)
      BY <1>7, <3>1
    <3> HIDE DEF s, H
    <3>3. 8 \in 0..Len(s) - 1 /\ 9 \in 0..Len(s) - 1 /\ 8 + 1 = 9
      BY <3>2
    <3>4. Ahora("kernel") = s[8 + 1] /\ Tail(por["kernel"]) = Quedan(s, 8 + 1)
      BY <3>1, <3>2, <3>3, Posicion
    <3>5. Quedan(s, 9) \in Seq(Llamadas)
      BY <3>2, <3>3, LoQueQueda
    <3> QED
      BY <3>2, <3>3, <3>4, <3>5 DEF s
  <2>2. /\ "kernel" \in Hilos /\ H \in SUBSET Hilos /\ "kernel" \notin H
    BY HilosSon
  <2> HIDE DEF y
  <2>3. /\ Tipos' /\ UNCHANGED Resto4 /\ canal' = canal /\ por'["kernel"] = y
        /\ \A g \in H : por'[g] = Bucle[g]
        /\ \A g \in Hilos \ (H \cup {"kernel"}) : por'[g] = por[g]
    <3> HIDE DEF H
    <3> QED
      BY <2>1, <2>2, PasoLanza
  <2>4. /\ EnBucle("ready")' /\ EnBucle("desalojo")' /\ mutex_memoria' = Nadie
    BY <1>0, <2>3 DEF EnBucle, NadieMas, Resto4
  <2>5. /\ por'["cpu"] = por["cpu"] /\ por'["fs"] = por["fs"]
             /\ por'["memoria"] = por["memoria"]
        /\ por'["pedidos_kernel"] = por["pedidos_kernel"]
        /\ por'["pedidos_cpu"] = por["pedidos_cpu"]
             /\ por'["pedidos_fs"] = por["pedidos_fs"]
    BY <2>3, HilosSon
  <2>6. IgualKC /\ IgualKF /\ IgualKM /\ IgualCM /\ IgualFM /\ IgualCF
    BY <2>3, SoloElCanal
  <2>7. IgualCpu /\ IgualFs /\ IgualMem /\ IgualPedidosFs
    BY <2>5, <2>6 DEF IgualCpu, IgualFs, IgualMem, IgualPedidosFs
  <2>8. MemoriaTermina
    BY <1>0 DEF KmListo, MemoriaTermina
  <2>9. FsQuieto /\ CpuQuieta /\ MemQuieta
    BY <1>0, <1>7 DEF FsQuieto, CpuQuieta, MemQuieta
  <2>10. PedidosFs' /\ MemoriaTermina' /\ MemQuieta' /\ CpuQuieta' /\ FsQuieto'
    BY <1>0, <2>7, <2>8, <2>9, CpuIgual, FsIgual, MemIgual, PedidosFsIgual
  <2>11. ReadySinMutex' /\ DesalojoSinMutex'
    BY <2>4, <2>10 DEF ReadySinMutex, DesalojoSinMutex, EnPaz
  <2>12. En("kernel", Inicio.kernel, 9)'
    BY <1>1, <2>3 DEF y
  <2>13. Marcha'
    BY <2>4, <2>10, <2>11, <2>12 DEF Marcha
  <2> QED
    BY <2>3, <2>6, <2>13
<1> QED
  BY <1>3, <1>4, <1>5, <1>6, <1>7 DEF Conexiones

\* A step while the kernel connects.
LEMMA ConexionesPasa ==
    ASSUME Tipos, Conexiones, NEW h \in Hilos, Avanza(h)
    PROVE  Tipos' /\ IgualCF /\ (Conexiones' \/ Marcha')
<1>1. h \notin {"ready", "desalojo"}
  BY NoEmpezo DEF Conexiones, NadieMas
<1>2. CASE h = "kernel"
  BY <1>2, ConexionesKernel
<1>3. CASE h \in Servidores
  BY <1>3, ConexionesServidores
<1>4. CASE h \in {"memoria", "pedidos_kernel", "pedidos_cpu", "pedidos_fs"}
  BY <1>4, ConexionesMemoria
<1> QED
  BY <1>1, <1>2, <1>3, <1>4, HilosSon DEF Servidores
-----------------------------------------------------------------------------
(* What a thread is going to read *)

\* Thread h reads an operation or a size only where there is one.
LeeBien(h) ==
    /\ Ahora(h).paso = "switch" /\ canal[Ahora(h).canal] # <<>>
       => Head(canal[Ahora(h).canal]).es = "op"
    /\ Ahora(h).paso = "recibir_buffer" /\ canal[Ahora(h).canal] # <<>>
       => Head(canal[Ahora(h).canal]).es = "tam"

\* A word of Memoria that h reads is of the answer to its own request.
LeeLoSuyo(h) ==
    ( /\ Ahora(h).paso \in {"recibir_operacion", "switch"}
      /\ Ahora(h).canal = <<"memoria", "kernel">> /\ mk # <<>> )
    => (Head(mk) = Palabra("op", Op.AUX_CREATE_PCB) <=> h = "ready")

\* A call that reads neither is no trouble.
LEMMA LeeBienSolo ==
    ASSUME NEW h
    PROVE  /\ SinEmpezar(h) => LeeBien(h)
           /\ \A y, de, a : Toca(h, recibe(de, a), y) => LeeBien(h)
           /\ \A y, de, a, op, d : Toca(h, envia(de, a, op, d), y) => LeeBien(h)
           /\ \A y, de, a : Toca(h, responde(de, a), y) => LeeBien(h)
           /\ \A y, de, a : Toca(h, conecta(de, a), y) => LeeBien(h)
           /\ \A y, p : p \in Sueltas /\ Toca(h, solo(p), y) => LeeBien(h)
           /\ \A y, hilos : Toca(h, lanza(hilos), y) => LeeBien(h)
           /\ \A que : TocaUltima(h, elige(que)) => LeeBien(h)
           /\ \A q : TocaCon(h, solo("accept"), q) => LeeBien(h)
           /\ \A hilos : Ahora(h) = lanza(hilos) => LeeBien(h)
           /\ Ahora(h) = solo("fin") => LeeBien(h)
<1>1. Ahora(h).paso \notin {"switch", "recibir_buffer"} => LeeBien(h)
  BY DEF LeeBien
<1>2. SinEmpezar(h) => Ahora(h).paso = "fin"
  BY DEF SinEmpezar, Ahora, Fin
<1>3. /\ \A y, x : Toca(h, x, y) => Ahora(h) = x
      /\ \A x : TocaUltima(h, x) => Ahora(h) = x
      /\ \A x, q : TocaCon(h, x, q) => Ahora(h) = x
  BY DEF Toca, TocaUltima, TocaCon
<1>4. /\ \A de, a : recibe(de, a).paso = "recibir_operacion"
      /\ \A de, a, op, d : envia(de, a, op, d).paso = "send"
      /\ \A de, a : responde(de, a).paso = "send"
           /\ conecta(de, a).paso = "connect"
      /\ \A p : solo(p).paso = p
      /\ \A hilos : lanza(hilos).paso = "pthread_create"
      /\ \A que : elige(que).paso = "elegir"
  BY DEF recibe, envia, responde, conecta, solo, lanza, elige
<1>5. \A p \in Sueltas : p \notin {"switch", "recibir_buffer"}
  BY DEF Sueltas
<1>6. \A x : x.paso \notin {"switch", "recibir_buffer"} /\ Ahora(h) = x
        => LeeBien(h)
  BY <1>1
<1>7. /\ \A y, de, a : Toca(h, recibe(de, a), y) => LeeBien(h)
      /\ \A y, de, a, op, d : Toca(h, envia(de, a, op, d), y) => LeeBien(h)
      /\ \A y, de, a : Toca(h, responde(de, a), y) => LeeBien(h)
      /\ \A y, de, a : Toca(h, conecta(de, a), y) => LeeBien(h)
  BY <1>3, <1>4, <1>6
<1>8. /\ \A y, p : p \in Sueltas /\ Toca(h, solo(p), y) => LeeBien(h)
      /\ \A y, hilos : Toca(h, lanza(hilos), y) => LeeBien(h)
      /\ \A que : TocaUltima(h, elige(que)) => LeeBien(h)
  BY <1>3, <1>4, <1>5, <1>6
<1>9. /\ \A q : TocaCon(h, solo("accept"), q) => LeeBien(h)
      /\ \A hilos : Ahora(h) = lanza(hilos) => LeeBien(h)
      /\ Ahora(h) = solo("fin") => LeeBien(h)
  BY <1>3, <1>4, <1>6
<1> QED
  BY <1>1, <1>2, <1>7, <1>8, <1>9

\* A switch before an operation, or with nothing to look at.
LEMMA LeeBienMira ==
    ASSUME NEW h, NEW de, NEW a, NEW como, NEW q, NEW w, Hay(de, a, w),
           w # <<>> => Head(w).es = "op",
           \/ TocaUltima(h, mira(de, a, como))
                \/ TocaCon(h, mira(de, a, como), q)
    PROVE  LeeBien(h)
<1>1. Ahora(h) = mira(de, a, como)
  BY DEF TocaUltima, TocaCon
<1>2. Ahora(h).paso = "switch" /\ Ahora(h).canal = <<de, a>>
  BY <1>1 DEF mira
<1>3. canal[Ahora(h).canal] = w
  BY <1>2 DEF Hay
<1> QED
  BY <1>2, <1>3 DEF LeeBien

\* A thread about to read a buffer finds a size, or nothing.
LEMMA LeeBienBuffer ==
    ASSUME NEW h, NEW y, NEW de, NEW a, NEW w, Hay(de, a, w),
           w # <<>> => Head(w).es = "tam", Toca(h, recibeBuffer(de, a), y)
    PROVE  LeeBien(h)
<1>1. Ahora(h) = recibeBuffer(de, a)
  BY DEF Toca
<1>2. Ahora(h).paso = "recibir_buffer" /\ Ahora(h).canal = <<de, a>>
  BY <1>1 DEF recibeBuffer
<1>3. canal[Ahora(h).canal] = w
  BY <1>2 DEF Hay
<1> QED
  BY <1>2, <1>3 DEF LeeBien

\* The words at the front of a connection.
LEMMA AlFrente ==
    ASSUME NEW d \in Seq(Palabras), NEW r \in Seq(Palabras)
    PROVE  /\ \A op \in Int : /\ Head(Paquete(op, d)) = Palabra("op", op)
                             /\ Head(Paquete(op, d)).es = "op"
                             /\ Head(Paquete(op, d) \o r).es = "op"
           /\ Head(Resto(d)) = Palabra("tam", 4 * Len(d))
           /\ Head(Resto(d)).es = "tam" /\ Head(Resto(d) \o r).es = "tam"
<1>1. \A v : Palabra("op", v).es = "op" /\ Palabra("tam", v).es = "tam"
  BY DEF Palabra
<1>2. \A op \in Int : /\ Head(Paquete(op, d)) = Palabra("op", op)
                     /\ Head(Paquete(op, d) \o r) = Palabra("op", op)
  BY PaqueteSolo, PaqueteDe
<1>3. /\ Head(Resto(d)) = Palabra("tam", 4 * Len(d))
      /\ Head(Resto(d) \o r) = Palabra("tam", 4 * Len(d))
  BY RestoSolo, RestoDe
<1> QED
  BY <1>1, <1>2, <1>3

\* A thread with a packet before it, at a switch,
LEMMA LeeBienPaquete ==
    ASSUME NEW h, NEW de, NEW a, NEW como, NEW op \in Int,
           NEW d \in Seq(Palabras),
           Hay(de, a, Paquete(op, d)), TocaUltima(h, mira(de, a, como))
    PROVE  LeeBien(h)
<1>1. Head(Paquete(op, d)).es = "op"
  BY AlFrente
<1> QED
  BY <1>1, LeeBienMira

\* ... with the rest of one, at a buffer,
LEMMA LeeBienResto ==
    ASSUME NEW h, NEW y, NEW de, NEW a, NEW d \in Seq(Palabras),
           Hay(de, a, Resto(d)), Toca(h, recibeBuffer(de, a), y)
    PROVE  LeeBien(h)
<1>1. Head(Resto(d)).es = "tam"
  BY AlFrente
<1> QED
  BY <1>1, LeeBienBuffer

\* ... or with nothing,
LEMMA LeeBienNada ==
    ASSUME NEW h, NEW y, NEW de, NEW a, NEW como, Hay(de, a, <<>>),
           Toca(h, recibeBuffer(de, a), y) \/ TocaUltima(h, mira(de, a, como))
    PROVE  LeeBien(h)
BY LeeBienMira, LeeBienBuffer

\* ... at a switch with calls after it.
LEMMA LeeBienNadaCon ==
    ASSUME NEW h, NEW q, NEW de, NEW a, NEW como, Hay(de, a, <<>>),
           TocaCon(h, mira(de, a, como), q)
    PROVE  LeeBien(h)
BY LeeBienMira

-----------------------------------------------------------------------------
(* ... when the kernel is connected *)

\* The CPU, its thread in Memoria, and who waits for the PCB.
LEMMA PedidosCpuLee ==
    ASSUME Tipos
    PROVE  /\ EnBucle("pedidos_cpu") /\ cm = <<>> => LeeBien("pedidos_cpu")
           /\ CpuPide(Op.I_MOV_IN, Entero \o Entero \o Entero)
                => LeeBien("pedidos_cpu")
           /\ CpuPide(Op.I_MOV_OUT, Entero \o Entero \o Entero \o Nombre)
              => LeeBien("pedidos_cpu")
<1>1. ASSUME EnBucle("pedidos_cpu"), cm = <<>>
      PROVE  LeeBien("pedidos_cpu")
  <2>1. Hay("cpu", "memoria", <<>>)
    BY <1>1 DEF Hay, cm
  <2> QED
    BY <1>1, <2>1, PedidosCpuToca, LeeBienNada
<1>2. ASSUME NEW op \in Int, NEW d \in Seq(Palabras), EnBucle("pedidos_cpu"),
             cm = Paquete(op, d)
      PROVE  LeeBien("pedidos_cpu")
  <2>1. Hay("cpu", "memoria", Paquete(op, d))
    BY <1>2 DEF Hay, cm
  <2> QED
    BY <1>2, <2>1, PedidosCpuToca, LeeBienPaquete
<1>3. ASSUME NEW y, NEW d \in Seq(Palabras), cm = Resto(d),
             Toca("pedidos_cpu", recibeBuffer("cpu", "memoria"), y)
      PROVE  LeeBien("pedidos_cpu")
  <2>1. Hay("cpu", "memoria", Resto(d))
    BY <1>3 DEF Hay, cm
  <2> QED
    BY <1>3, <2>1, LeeBienResto
<1>4. Op.I_MOV_IN \in Int /\ Op.I_MOV_OUT \in Int
  BY Codigos
<1>5. /\ Entero \o Entero \o Entero \in Seq(Palabras)
      /\ Entero \o Entero \o Entero \o Nombre \in Seq(Palabras)
  BY TresMas
<1>6. CpuPide(Op.I_MOV_IN, Entero \o Entero \o Entero) => LeeBien("pedidos_cpu")
  <2> DEFINE d == Entero \o Entero \o Entero
  <2>1. d \in Seq(Palabras)
    BY <1>5
  <2> HIDE DEF d
  <2>2. ASSUME CpuPide(Op.I_MOV_IN, d)
        PROVE  LeeBien("pedidos_cpu")
    BY <1>2, <1>3, <1>4, <2>1, <2>2, PedidoMovInToca, LeeBienSolo DEF CpuPide
  <2> QED
    BY <2>2 DEF d
<1>7. CpuPide(Op.I_MOV_OUT, Entero \o Entero \o Entero \o Nombre)
      => LeeBien("pedidos_cpu")
  <2> DEFINE d == Entero \o Entero \o Entero \o Nombre
  <2>1. d \in Seq(Palabras)
    BY <1>5
  <2> HIDE DEF d
  <2>2. ASSUME CpuPide(Op.I_MOV_OUT, d)
        PROVE  LeeBien("pedidos_cpu")
    BY <1>2, <1>3, <1>4, <2>1, <2>2, PedidoMovOutToca, LeeBienSolo DEF CpuPide
  <2> QED
    BY <2>2 DEF d
<1> QED
  BY <1>1, <1>6, <1>7

\* The CPU, and Memoria for it,
LEMMA CpuLee ==
    ASSUME Tipos, SinPedidosDelFs, CpuAtiende
    PROVE  LeeBien("cpu") /\ LeeBien("pedidos_cpu")
<1>0. PedidosCpuQuieto => LeeBien("pedidos_cpu")
  BY PedidosCpuLee DEF PedidosCpuQuieto
<1>1. EnBucle("cpu") \/ En("cpu", atender_kernel, 2) => LeeBien("cpu")
  BY AtenderKernelToca, LeeBienSolo
<1>2. ASSUME En("cpu", atender_kernel, 1), kc = Resto(Pcb)
      PROVE  LeeBien("cpu")
  <2>1. Hay("kernel", "cpu", Resto(Pcb))
    BY <1>2 DEF Hay, kc
  <2> QED
    BY <1>2, <2>1, AtenderKernelToca, DatosTipos, LeeBienResto
<1>3. ASSUME En("cpu", MovIn, 2), mc = Resto(Nombre)
      PROVE  LeeBien("cpu")
  <2>1. Hay("memoria", "cpu", Resto(Nombre))
    BY <1>3 DEF Hay, mc
  <2> QED
    BY <1>3, <2>1, MovInToca, DatosTipos, LeeBienResto
<1>4. En("cpu", MovIn, 0) \/ En("cpu", MovIn, 1) \/ En("cpu", MovIn, 3)
        => LeeBien("cpu")
  BY MovInToca, LeeBienSolo
<1>5. /\ En("cpu", MovOut, 0) \/ En("cpu", MovOut, 1) => LeeBien("cpu")
      /\ En("cpu", MovOut, 2) \/ En("cpu", MovOut, 3) => LeeBien("cpu")
  BY MovOutToca, LeeBienSolo
<1>6. ASSUME NEW op \in Desalojos, En("cpu", Devolver(op), 0)
      PROVE  LeeBien("cpu")
  <2>1. op \in Int /\ op \notin {Op.I_F_READ, Op.I_F_WRITE}
    BY DEF SinPedidosDelFs
  <2> QED
    BY <1>6, <2>1, DevolverToca, LeeBienSolo
<1>7. EnBucle("pedidos_cpu") /\ cm = <<>> => LeeBien("pedidos_cpu")
  BY PedidosCpuLee
<1>8. Ejecuta => LeeBien("cpu")
  BY <1>1, <1>3, <1>4, <1>5, <1>6 DEF Ejecuta
<1>9. Ejecuta => LeeBien("pedidos_cpu")
  <2>1. /\ CpuPide(Op.I_MOV_IN, Entero \o Entero \o Entero)
             => LeeBien("pedidos_cpu")
        /\ CpuPide(Op.I_MOV_OUT, Entero \o Entero \o Entero \o Nombre)
           => LeeBien("pedidos_cpu")
    BY PedidosCpuLee
  <2> QED
    BY <1>0, <1>7, <2>1 DEF Ejecuta
<1> QED
  BY <1>0, <1>1, <1>2, <1>8, <1>9 DEF CpuAtiende

\* ... the modules that wait
LEMMA QuietoLee ==
    ASSUME Tipos
    PROVE  /\ EnBucle("cpu") => LeeBien("cpu")
           /\ EnBucle("fs") /\ kf = <<>> => LeeBien("fs")
           /\ PedidosCpuQuieto => LeeBien("pedidos_cpu")
           /\ CpuQuieta => LeeBien("cpu") /\ LeeBien("pedidos_cpu")
           /\ FsQuieto => LeeBien("fs")
           /\ PedidosFs => LeeBien("pedidos_fs")
<1>1. EnBucle("cpu") => LeeBien("cpu")
  BY AtenderKernelToca, LeeBienSolo
<1>2. ASSUME EnBucle("fs"), kf = <<>>
      PROVE  LeeBien("fs")
  <2>1. Hay("kernel", "fs", <<>>)
    BY <1>2 DEF Hay, kf
  <2> QED
    BY <1>2, <2>1, FsToca, LeeBienNada
<1>3. PedidosCpuQuieto => LeeBien("pedidos_cpu")
  BY PedidosCpuLee DEF PedidosCpuQuieto
<1>4. CpuQuieta => LeeBien("cpu") /\ LeeBien("pedidos_cpu")
  BY <1>1, <1>3 DEF CpuQuieta, Quieto
<1>5. FsQuieto => LeeBien("fs")
  BY <1>2, DelKernelSon DEF FsQuieto, Quieto
<1>6. EnBucle("pedidos_fs") => LeeBien("pedidos_fs")
  BY PedidosFsToca, LeeBienSolo
<1>7. ASSUME En("pedidos_fs", Bucle.pedidos_fs, 1), fm = <<>>
      PROVE  LeeBien("pedidos_fs")
  <2>1. Hay("fs", "memoria", <<>>)
    BY <1>7 DEF Hay, fm
  <2> QED
    BY <1>7, <2>1, PedidosFsToca, LeeBienNada
<1> QED
  BY <1>1, <1>2, <1>3, <1>4, <1>5, <1>6, <1>7 DEF PedidosFs

\* ... and the FileSystem read what was sent to them.
LEMMA FsLee ==
    ASSUME Tipos, NEW op \in Pedidos, NEW d \in Seq(Palabras), FsAtiende(op, d)
    PROVE  LeeBien("fs")
<1> DEFINE s == ejecutar_instrucciones_kernel(op)
<1>1. op \in Int /\ op \in {Op.KERNEL_CREAR_ARCHIVO, Op.I_F_OPEN, Op.I_TRUNCATE}
  BY Codigos DEF Pedidos
<1>2. ASSUME EnBucle("fs"), kf = Paquete(op, d)
      PROVE  LeeBien("fs")
  <2>1. Hay("kernel", "fs", Paquete(op, d))
    BY <1>2 DEF Hay, kf
  <2> QED
    BY <1>1, <1>2, <2>1, FsToca, LeeBienPaquete
<1>3. ASSUME En("fs", s, 0), kf = Resto(d)
      PROVE  LeeBien("fs")
  <2>1. Toca("fs", recibeBuffer("kernel", "fs"), Quedan(s, 1))
    BY <1>1, <1>3, FsPedidoToca
  <2>2. Hay("kernel", "fs", Resto(d))
    BY <1>3 DEF Hay, kf
  <2> QED
    BY <2>1, <2>2, LeeBienResto
<1>4. ASSUME En("fs", s, 1)
      PROVE  LeeBien("fs")
  <2>1. TocaUltima("fs", elige("confirmar"))
    BY <1>1, <1>4, FsPedidoToca
  <2> QED
    BY <2>1, LeeBienSolo
<1>5. ASSUME NEW r \in Confirmaciones, En("fs", Confirmar(r), 0)
      PROVE  LeeBien("fs")
  <2>1. r \in Int
    BY Codigos DEF Confirmaciones
  <2> QED
    BY <1>5, <2>1, ConfirmarToca, LeeBienSolo
<1>6. EnBucle("fs") /\ kf = <<>> => LeeBien("fs")
  BY QuietoLee
<1> QED
  BY <1>2, <1>3, <1>4, <1>5, <1>6 DEF FsAtiende

\* Memoria: its main thread, and the one for the kernel.
MemLee == LeeBien("memoria") /\ LeeBien("pedidos_kernel")

\* Memoria reads a request of the kernel from its operation on,
LEMMA KmListoLee ==
    ASSUME Tipos, NEW w \in Seq(Palabras), KmListo(w), w # <<>>
           => Head(w).es = "op"
    PROVE  MemLee
<1>1. ASSUME EnBucle("pedidos_kernel"), km = w,
             Ahora("memoria") = [paso |-> "fin"]
      PROVE  MemLee
  <2>1. Hay("kernel", "memoria", w) /\ Ahora("memoria") = solo("fin")
    BY <1>1 DEF Hay, km, solo
  <2>2. TocaUltima("pedidos_kernel",
          mira("kernel", "memoria", "pedidos_kernel"))
    BY <1>1, PedidosKernelToca
  <2>3. LeeBien("pedidos_kernel")
    BY <2>1, <2>2, LeeBienMira
  <2> QED
    BY <2>1, <2>3, LeeBienSolo DEF MemLee
<1>2. ASSUME SinEmpezar("pedidos_kernel"), Saluda("kernel", 3, 2),
             km = Paquete(Op.AUX_SOY_KERNEL, <<>>) \o w
      PROVE  MemLee
  <2> DEFINE v == Paquete(Op.AUX_SOY_KERNEL, <<>>) \o w
  <2>a. Op.AUX_SOY_KERNEL \in Int /\ <<>> \in Seq(Palabras)
    BY Codigos, DatosTipos
  <2>b. ASSUME NEW op \in Int, NEW d \in Seq(Palabras)
        PROVE  Head(Paquete(op, d) \o w).es = "op"
    BY AlFrente
  <2>1. Head(v).es = "op"
    BY <2>a, <2>b
  <2>2. Hay("kernel", "memoria", v)
    BY <1>2 DEF Hay, km
  <2> HIDE DEF v
  <2>3. "kernel" \in Clientela /\ 3 \in 1..3
    BY DEF Clientela
  <2>4. TocaCon("memoria", mira("kernel", "memoria", "conexion"), Luego(3))
    BY <1>2, <2>3, SaludaToca
  <2>5. LeeBien("memoria")
    BY <2>1, <2>2, <2>4, LeeBienMira
  <2> QED
    BY <1>2, <2>5, LeeBienSolo DEF MemLee
<1>3. ASSUME SinEmpezar("pedidos_kernel"), Atiende("kernel", 3, 0)
             \/ Atiende("kernel", 3, 1)
      PROVE  MemLee
  <2>1. 3 \in 1..3
    OBVIOUS
  <2>2. LeeBien("memoria")
    BY <1>3, <2>1, AtiendeToca, LeeBienSolo
  <2> QED
    BY <1>3, <2>2, LeeBienSolo DEF MemLee
<1> QED
  BY <1>1, <1>2, <1>3 DEF KmListo

\* ... if there is one,
LEMMA KmListoPaqueteLee ==
    ASSUME Tipos
    PROVE  /\ KmListo(<<>>) => MemLee
           /\ \A op \in Int : \A d \in Seq(Palabras) : KmListo(Paquete(op, d))
                => MemLee
           /\ \A op \in Int : \A d, r \in Seq(Palabras) :
                 KmListo(Paquete(op, d) \o r) => MemLee
<1>1. KmListo(<<>>) => MemLee
  BY KmListoLee, DatosTipos
<1>2. ASSUME NEW op \in Int, NEW d \in Seq(Palabras), KmListo(Paquete(op, d))
      PROVE  MemLee
  <2>1. Paquete(op, d) \in Seq(Palabras) /\ Head(Paquete(op, d)).es = "op"
    BY PaqueteTipo, AlFrente
  <2> QED
    BY <1>2, <2>1, KmListoLee
<1>3. ASSUME NEW op \in Int, NEW d \in Seq(Palabras), NEW r \in Seq(Palabras),
             KmListo(Paquete(op, d) \o r)
      PROVE  MemLee
  <2> DEFINE v == Paquete(op, d) \o r
  <2>1. v \in Seq(Palabras) /\ Head(v).es = "op"
    BY PaqueteDe, AlFrente
  <2> HIDE DEF v
  <2>2. KmListo(v) => MemLee
    BY <2>1, KmListoLee
  <2> QED
    BY <1>3, <2>2 DEF v
<1> QED
  BY <1>1, <1>2, <1>3

\* In the middle of a request the main thread has ended.
LEMMA PkEnMedioLee ==
    ASSUME MemoriaTermina
    PROVE  /\ \A y, de, a : Toca("pedidos_kernel", recibe(de, a), y) => MemLee
           /\ \A y, de, a, op, d : Toca("pedidos_kernel", envia(de, a, op, d),
                y) => MemLee
           /\ \A que : TocaUltima("pedidos_kernel", elige(que)) => MemLee
           /\ \A y, d : /\ d \in Seq(Palabras) /\ km = Resto(d)
                        /\ Toca("pedidos_kernel",
                             recibeBuffer("kernel", "memoria"), y)
                        => MemLee
           /\ \A y, d, r : /\ d \in Seq(Palabras) /\ r \in Seq(Palabras)
                           /\ km = Resto(d) \o r
                           /\ Toca("pedidos_kernel",
                                recibeBuffer("kernel", "memoria"), y)
                           => MemLee
<1>1. Ahora("memoria") = [paso |-> "fin"] => LeeBien("memoria")
  BY LeeBienSolo DEF solo
<1>2. ~SinEmpezar("pedidos_kernel") /\ LeeBien("pedidos_kernel") => MemLee
  BY <1>1 DEF MemoriaTermina, MemLee
<1>3. /\ \A y, de, a : Toca("pedidos_kernel", recibe(de, a), y) => MemLee
      /\ \A y, de, a, op, d : Toca("pedidos_kernel", envia(de, a, op, d), y)
           => MemLee
      /\ \A que : TocaUltima("pedidos_kernel", elige(que)) => MemLee
  <2>1. ASSUME NEW y, NEW de, NEW a, Toca("pedidos_kernel", recibe(de, a), y)
        PROVE  MemLee
    BY <1>2, <2>1, EmpezoYa, LeeBienSolo
  <2>2. ASSUME NEW y, NEW de, NEW a, NEW op, NEW d,
               Toca("pedidos_kernel", envia(de, a, op, d), y)
        PROVE  MemLee
    BY <1>2, <2>2, EmpezoYa, LeeBienSolo
  <2>3. ASSUME NEW que, TocaUltima("pedidos_kernel", elige(que))
        PROVE  MemLee
    BY <1>2, <2>3, EmpezoYa, LeeBienSolo
  <2> QED
    BY <2>1, <2>2, <2>3
<1>4. ASSUME NEW y, NEW d \in Seq(Palabras), km = Resto(d),
             Toca("pedidos_kernel", recibeBuffer("kernel", "memoria"), y)
      PROVE  MemLee
  <2>1. Hay("kernel", "memoria", Resto(d))
    BY <1>4 DEF Hay, km
  <2>2. LeeBien("pedidos_kernel") /\ ~SinEmpezar("pedidos_kernel")
    BY <1>4, <2>1, LeeBienResto, EmpezoYa
  <2> QED
    BY <1>2, <2>2
<1>5. ASSUME NEW y, NEW d \in Seq(Palabras), NEW r \in Seq(Palabras),
             km = Resto(d) \o r,
             Toca("pedidos_kernel", recibeBuffer("kernel", "memoria"), y)
      PROVE  MemLee
  <2> DEFINE v == Resto(d) \o r
  <2>1. Hay("kernel", "memoria", v)
    BY <1>5 DEF Hay, km
  <2>2. Head(v).es = "tam"
    BY AlFrente
  <2> HIDE DEF v
  <2>3. LeeBien("pedidos_kernel") /\ ~SinEmpezar("pedidos_kernel")
    BY <1>5, <2>1, <2>2, LeeBienBuffer, EmpezoYa
  <2> QED
    BY <1>2, <2>3
<1> QED
  BY <1>3, <1>4, <1>5

\* ... and so on until it answers,
LEMMA MemoriaLee ==
    ASSUME Tipos, SinOtraRespuesta, MemoriaTermina
    PROVE  /\ MemQuieta => MemLee
           /\ \A w : MemRespondio(w) => MemLee
           /\ PidePcb => MemLee
           /\ RespondeCrear => MemLee
           /\ \A r : MemCompacta(r) => MemLee
<1>1. (MemQuieta => MemLee) /\ \A w : MemRespondio(w) => MemLee
  BY KmListoPaqueteLee DEF MemQuieta, MemRespondio
<1>2. PidePcb => MemLee
  <2>1. KmListo(Paquete(Op.AUX_CREATE_PCB, Entero)) => MemLee
    BY KmListoPaqueteLee, Codigos, DatosTipos
  <2>2. /\ En("pedidos_kernel", ejecutar_kernel_pedido(Op.AUX_CREATE_PCB), 0)
           /\ km = Resto(Entero) => MemLee
        /\ En("pedidos_kernel", ejecutar_kernel_pedido(Op.AUX_CREATE_PCB), 1)
             => MemLee
    BY PedidoPcbToca, PkEnMedioLee, DatosTipos
  <2> QED
    BY <1>1, <2>1, <2>2 DEF PidePcb
<1>3. RespondeCrear => MemLee
  <2>1. ASSUME NEW r \in Creaciones, En("pedidos_kernel", crear_segmento(r), 0)
        PROVE  MemLee
    <3>1. r \in Int
      BY Codigos DEF SinOtraRespuesta
    <3>2. \E y : Toca("pedidos_kernel",
            envia("memoria", "kernel", r, DatosDe(r)), y)
      BY <2>1, <3>1, CrearSegmentoToca
    <3> QED
      BY <3>2, PkEnMedioLee
  <2> QED
    BY <1>1, <2>1 DEF RespondeCrear
<1>4. ASSUME NEW r, MemCompacta(r)
      PROVE  MemLee
  <2>1. KmListo(Paquete(Op.COMPACTACION, <<>>)) => MemLee
    BY KmListoPaqueteLee, Codigos, DatosTipos
  <2>2. En("pedidos_kernel", Compactar, 0) \/ En("pedidos_kernel", Compactar, 1)
          => MemLee
    BY CompactarToca, PkEnMedioLee
  <2> QED
    BY <1>1, <1>4, <2>1, <2>2 DEF MemCompacta
<1> QED
  BY <1>1, <1>2, <1>3, <1>4

\* ... when the request has two packets too.
LEMMA PidenLee ==
    ASSUME Tipos, MemoriaTermina
    PROVE  /\ Mitad(Op.I_CREATE_SEGMENT) => MemLee
           /\ Mitad(Op.I_DELETE_SEGMENT) => MemLee
           /\ Entera(Op.I_CREATE_SEGMENT, Entero \o Entero) => MemLee
           /\ Entera(Op.I_DELETE_SEGMENT, Entero) => MemLee
<1> DEFINE e == Entero \o Entero
<1>1. e \in Seq(Palabras) /\ Entero \in Seq(Palabras) /\ Pcb \in Seq(Palabras)
  BY TresMas, DatosTipos
<1> HIDE DEF e
<1>2. Op.I_CREATE_SEGMENT \in Int /\ Op.I_DELETE_SEGMENT \in Int
  BY Codigos
<1>3. ASSUME NEW op \in Int, NEW d \in Seq(Palabras),
             \/ KmListo(Paquete(op, Pcb))
                  \/ KmListo(Paquete(op, Pcb) \o Paquete(op, d))
      PROVE  MemLee
  <2>1. Paquete(op, d) \in Seq(Palabras)
    BY PaqueteTipo
  <2> QED
    BY <1>1, <1>3, <2>1, KmListoPaqueteLee
<1>4. ASSUME NEW op \in {Op.I_CREATE_SEGMENT, Op.I_DELETE_SEGMENT},
             NEW d \in Seq(Palabras),
             \/ /\ En("pedidos_kernel", ejecutar_kernel_pedido(op), 0)
                /\ km = Resto(Pcb) \/ km = Resto(Pcb) \o Paquete(op, d)
             \/ En("pedidos_kernel", ejecutar_kernel_pedido(op), 1)
             \/ En("pedidos_kernel", ejecutar_kernel_pedido(op), 2)
                  /\ km = Resto(d)
             \/ En("pedidos_kernel", ejecutar_kernel_pedido(op), 3)
      PROVE  MemLee
  <2>1. Paquete(op, d) \in Seq(Palabras)
    BY <1>2, PaqueteTipo
  <2>2. CASE op = Op.I_CREATE_SEGMENT
    BY <1>1, <1>4, <2>1, <2>2, PedidoCrearToca, PkEnMedioLee
  <2>3. CASE op = Op.I_DELETE_SEGMENT
    BY <1>1, <1>4, <2>1, <2>3, PedidoBorrarToca, PkEnMedioLee
  <2> QED
    BY <2>2, <2>3
<1>5. ASSUME NEW op \in {Op.I_CREATE_SEGMENT, Op.I_DELETE_SEGMENT},
             NEW d \in Seq(Palabras)
      PROVE  (Mitad(op) => MemLee) /\ (Entera(op, d) => MemLee)
  <2>1. op \in Int
    BY <1>2
  <2> QED
    BY <1>3, <1>4, <2>1 DEF Mitad, Entera
<1>6. /\ Mitad(Op.I_CREATE_SEGMENT) => MemLee
      /\ Entera(Op.I_CREATE_SEGMENT, e) => MemLee
  BY <1>1, <1>5
<1>7. /\ Mitad(Op.I_DELETE_SEGMENT) => MemLee
      /\ Entera(Op.I_DELETE_SEGMENT, Entero) => MemLee
  BY <1>1, <1>5
<1> QED
  BY <1>6, <1>7 DEF e

\* The two threads of the kernel.
LEMMA LeeLoSuyoLejos ==
    ASSUME NEW h
    PROVE  /\ SinEmpezar(h) => LeeLoSuyo(h)
           /\ \A y, de, a, op, d : Toca(h, envia(de, a, op, d), y)
                => LeeLoSuyo(h)
           /\ \A y, de, a : Toca(h, recibeBuffer(de, a), y) => LeeLoSuyo(h)
           /\ \A y, p : p \in Sueltas /\ Toca(h, solo(p), y) => LeeLoSuyo(h)
           /\ \A y, a : Toca(h, recibe("fs", a), y) => LeeLoSuyo(h)
           /\ \A a, como : TocaUltima(h, mira("fs", a, como)) => LeeLoSuyo(h)
           /\ \A a, como : TocaUltima(h, mira("cpu", a, como)) => LeeLoSuyo(h)
<1>1. Ahora(h).paso \notin {"recibir_operacion", "switch"} => LeeLoSuyo(h)
  BY DEF LeeLoSuyo
<1>2. Ahora(h).canal # <<"memoria", "kernel">> => LeeLoSuyo(h)
  BY DEF LeeLoSuyo
<1>3. SinEmpezar(h) => LeeLoSuyo(h)
  <2>1. SinEmpezar(h) => Ahora(h).paso = "fin"
    BY DEF SinEmpezar, Ahora, Fin
  <2> QED
    BY <1>1, <2>1
<1>4. /\ \A y, x : Toca(h, x, y) => Ahora(h) = x
      /\ \A x : TocaUltima(h, x) => Ahora(h) = x
  BY DEF Toca, TocaUltima
<1>5. /\ \A de, a, op, d : envia(de, a, op, d).paso = "send"
      /\ \A de, a : recibeBuffer(de, a).paso = "recibir_buffer"
      /\ \A p : solo(p).paso = p
      /\ \A de, a : recibe(de, a).canal = <<de, a>>
      /\ \A de, a, como : mira(de, a, como).canal = <<de, a>>
  BY DEF envia, recibeBuffer, solo, recibe, mira
<1>6. \A p \in Sueltas : p \notin {"recibir_operacion", "switch"}
  BY DEF Sueltas
<1>7. \A x : x.paso \notin {"recibir_operacion", "switch"} /\ Ahora(h) = x
        => LeeLoSuyo(h)
  BY <1>1
<1>8. /\ \A y, de, a, op, d : Toca(h, envia(de, a, op, d), y) => LeeLoSuyo(h)
      /\ \A y, de, a : Toca(h, recibeBuffer(de, a), y) => LeeLoSuyo(h)
      /\ \A y, p : p \in Sueltas /\ Toca(h, solo(p), y) => LeeLoSuyo(h)
  BY <1>4, <1>5, <1>6, <1>7
<1>9. /\ \A y, a : Toca(h, recibe("fs", a), y) => LeeLoSuyo(h)
      /\ \A a, como : TocaUltima(h, mira("fs", a, como)) => LeeLoSuyo(h)
      /\ \A a, como : TocaUltima(h, mira("cpu", a, como)) => LeeLoSuyo(h)
  <2>3. ASSUME NEW y, NEW a, Toca(h, recibe("fs", a), y)
        PROVE  LeeLoSuyo(h)
    <3>1. Ahora(h) = recibe("fs", a)
      BY <1>4, <2>3
    <3>2. Ahora(h).canal # <<"memoria", "kernel">>
      BY <1>5, <3>1
    <3> QED
      BY <1>2, <3>2
  <2>4. ASSUME NEW a, NEW como, TocaUltima(h, mira("fs", a, como))
        PROVE  LeeLoSuyo(h)
    <3>1. Ahora(h) = mira("fs", a, como)
      BY <1>4, <2>4
    <3>2. Ahora(h).canal # <<"memoria", "kernel">>
      BY <1>5, <3>1
    <3> QED
      BY <1>2, <3>2
  <2>5. ASSUME NEW a, NEW como, TocaUltima(h, mira("cpu", a, como))
        PROVE  LeeLoSuyo(h)
    <3>1. Ahora(h) = mira("cpu", a, como)
      BY <1>4, <2>5
    <3>2. Ahora(h).canal # <<"memoria", "kernel">>
      BY <1>5, <3>1
    <3> QED
      BY <1>2, <3>2
  <2> QED
    BY <2>3, <2>4, <2>5
<1> QED
  BY <1>3, <1>8, <1>9

\* Whose the answer is, by what is in the connection.
LEMMA LeeLoSuyoCerca ==
    /\ \A h : mk = <<>> => LeeLoSuyo(h)
    /\ \A d \in Seq(Palabras) : mk = Paquete(Op.AUX_CREATE_PCB, d)
         => LeeLoSuyo("ready")
    /\ \A op \in Int \ {Op.AUX_CREATE_PCB} : \A d \in Seq(Palabras) :
          mk = Paquete(op, d) => LeeLoSuyo("desalojo")
    /\ \A d \in Seq(Palabras) : mk = Resto(d) => LeeLoSuyo("desalojo")
    /\ \A d, r \in Seq(Palabras) : mk = Resto(d) \o r => LeeLoSuyo("desalojo")
<1>1. \A h : mk = <<>> => LeeLoSuyo(h)
  BY DEF LeeLoSuyo
<1>2. /\ Head(mk) = Palabra("op", Op.AUX_CREATE_PCB) => LeeLoSuyo("ready")
      /\ Head(mk) # Palabra("op", Op.AUX_CREATE_PCB) => LeeLoSuyo("desalojo")
  BY DEF LeeLoSuyo
<1>3. /\ \A op : op # Op.AUX_CREATE_PCB =>
            Palabra("op", op) # Palabra("op", Op.AUX_CREATE_PCB)
      /\ \A n : Palabra("tam", n) # Palabra("op", Op.AUX_CREATE_PCB)
  BY DEF Palabra
<1>4. ASSUME NEW d \in Seq(Palabras), mk = Paquete(Op.AUX_CREATE_PCB, d)
      PROVE  LeeLoSuyo("ready")
  <2>1. Op.AUX_CREATE_PCB \in Int
    BY Codigos
  <2>2. Head(mk) = Palabra("op", Op.AUX_CREATE_PCB)
    BY <1>4, <2>1, PaqueteSolo
  <2> QED
    BY <1>2, <2>2
<1>5. ASSUME NEW op \in Int \ {Op.AUX_CREATE_PCB}, NEW d \in Seq(Palabras),
             mk = Paquete(op, d)
      PROVE  LeeLoSuyo("desalojo")
  <2>1. Head(mk) = Palabra("op", op)
    BY <1>5, PaqueteSolo
  <2> QED
    BY <1>2, <1>3, <2>1
<1>6. ASSUME NEW d \in Seq(Palabras), mk = Resto(d)
      PROVE  LeeLoSuyo("desalojo")
  <2>1. Head(mk) = Palabra("tam", 4 * Len(d))
    BY <1>6, RestoSolo
  <2> QED
    BY <1>2, <1>3, <2>1
<1>7. ASSUME NEW d \in Seq(Palabras), NEW r \in Seq(Palabras),
             mk = Resto(d) \o r
      PROVE  LeeLoSuyo("desalojo")
  <2>1. Head(mk) = Palabra("tam", 4 * Len(d))
    BY <1>7, RestoDe
  <2> QED
    BY <1>2, <1>3, <2>1
<1> QED
  BY <1>1, <1>4, <1>5, <1>6, <1>7

\* The thread that admits processes reads its own answer.
LEMMA ReadyLee ==
    ASSUME Tipos
    PROVE  /\ ReadySinMutex => LeeBien("ready") /\ LeeLoSuyo("ready")
           /\ SinOtraRespuesta /\ MemoriaTermina /\ ReadyConMutex =>
                 LeeBien("ready") /\ LeeLoSuyo("ready") /\ MemLee
<1>1. {"sem_wait", "lock", "unlock"} \subseteq Sueltas
  BY DEF Sueltas
<1>2. ReadySinMutex => LeeBien("ready") /\ LeeLoSuyo("ready")
  BY <1>1, ReadyToca, LeeBienSolo, LeeLoSuyoLejos DEF ReadySinMutex
<1>3. ASSUME SinOtraRespuesta, MemoriaTermina, ReadyConMutex
      PROVE  LeeBien("ready") /\ LeeLoSuyo("ready") /\ MemLee
  <2>1. CASE En("ready", enviar_proceso_a_ready, 2) /\ MemQuieta
    BY <1>3, <2>1, ReadyToca, LeeBienSolo, LeeLoSuyoLejos, MemoriaLee
  <2>2. CASE En("ready", enviar_proceso_a_ready, 3) /\ PidePcb
    <3>1. mk = <<>> \/ mk = Paquete(Op.AUX_CREATE_PCB, Tabla)
      BY <2>2 DEF PidePcb, MemRespondio
    <3>2. LeeLoSuyo("ready")
      BY <3>1, DatosTipos, LeeLoSuyoCerca
    <3> QED
      BY <1>3, <2>2, <3>2, ReadyToca, LeeBienSolo, MemoriaLee
  <2>3. CASE En("ready", enviar_proceso_a_ready, 4)
               /\ MemRespondio(Resto(Tabla))
    <3>1. Hay("memoria", "kernel", Resto(Tabla)) /\ Tabla \in Seq(Palabras)
      BY <2>3, DatosTipos DEF MemRespondio, Hay, mk
    <3> QED
      BY <1>3, <2>3, <3>1, ReadyToca, LeeBienResto, LeeLoSuyoLejos, MemoriaLee
  <2>4. CASE En("ready", enviar_proceso_a_ready, 5) /\ MemQuieta
    BY <1>1, <1>3, <2>4, ReadyToca, LeeBienSolo, LeeLoSuyoLejos, MemoriaLee
  <2> QED
    BY <1>3, <2>1, <2>2, <2>3, <2>4 DEF ReadyConMutex
<1> QED
  BY <1>2, <1>3

\* The one that attends to the CPU, without the mutex,
LEMMA SinMutexLee ==
    ASSUME Tipos, SinPedidosDelFs, DesalojoSinMutex
    PROVE  /\ LeeBien("desalojo") /\ LeeLoSuyo("desalojo")
           /\ LeeBien("cpu") /\ LeeBien("pedidos_cpu") /\ LeeBien("fs")
<1>1. "lock" \in Sueltas
  BY DEF Sueltas
<1>2. ASSUME EnPaz
      PROVE  LeeBien("desalojo") /\ LeeLoSuyo("desalojo")
  <2>1. EnBucle("desalojo") => LeeBien("desalojo") /\ LeeLoSuyo("desalojo")
    BY DesalojoToca, LeeBienSolo, LeeLoSuyoLejos
  <2>2. En("desalojo", Abrir, 1) => LeeBien("desalojo") /\ LeeLoSuyo("desalojo")
    BY AbrirToca, LeeBienSolo, LeeLoSuyoLejos
  <2>3. En("desalojo", Truncar, 1) => LeeBien("desalojo")
          /\ LeeLoSuyo("desalojo")
    BY TruncarToca, LeeBienSolo, LeeLoSuyoLejos
  <2>4. En("desalojo", Crear, 1) => LeeBien("desalojo") /\ LeeLoSuyo("desalojo")
    BY <1>1, CrearToca, LeeBienSolo, LeeLoSuyoLejos
  <2>5. En("desalojo", Borrar, 1) => LeeBien("desalojo")
          /\ LeeLoSuyo("desalojo")
    BY <1>1, BorrarToca, LeeBienSolo, LeeLoSuyoLejos
  <2>6. En("desalojo", NoAbierto, 1)
          => LeeBien("desalojo") /\ LeeLoSuyo("desalojo")
    BY NoAbiertoToca, LeeBienSolo, LeeLoSuyoLejos
  <2>7. En("desalojo", Compacta, 5) => LeeBien("desalojo")
          /\ LeeLoSuyo("desalojo")
    BY <1>1, CompactaToca, LeeBienSolo, LeeLoSuyoLejos
  <2> QED
    BY <1>2, <2>1, <2>2, <2>3, <2>4, <2>5, <2>6, <2>7 DEF EnPaz
<1>3. CASE EnPaz /\ CpuQuieta /\ FsQuieto
  BY <1>2, <1>3, QuietoLee
<1>4. CASE En("desalojo", manejo_desalojo_pcb, 1) /\ CpuAtiende /\ FsQuieto
  <2>1. TocaUltima("desalojo", mira("cpu", "kernel", "manejo_instrucciones"))
    BY <1>4, DesalojoToca
  <2>2. ck = <<>> \/ \E op \in Desalojos : ck = Paquete(op, Pcb)
    BY <1>4 DEF CpuAtiende, Ejecuta
  <2>3. CASE ck = <<>>
    <3>1. Hay("cpu", "kernel", <<>>)
      BY <2>3 DEF Hay, ck
    <3>2. LeeBien("desalojo")
      BY <2>1, <3>1, LeeBienNada
    <3> QED
      BY <1>4, <2>1, <3>2, LeeLoSuyoLejos, CpuLee, QuietoLee
  <2>4. ASSUME NEW op \in Desalojos, ck = Paquete(op, Pcb)
        PROVE  LeeBien("desalojo")
    <3>1. Hay("cpu", "kernel", Paquete(op, Pcb)) /\ op \in Int
      BY <2>4 DEF Hay, ck, SinPedidosDelFs
    <3> QED
      BY <2>1, <3>1, DatosTipos, LeeBienPaquete
  <2> QED
    BY <1>4, <2>1, <2>2, <2>3, <2>4, LeeLoSuyoLejos, CpuLee, QuietoLee
<1>5. CASE /\ \/ En("desalojo", Abrir, 0) \/ En("desalojo", Truncar, 0)
              \/ En("desalojo", Crear, 0) \/ En("desalojo", Borrar, 0)
              \/ En("desalojo", Otra, 0)
           /\ PedidosCpuQuieto /\ EnBucle("cpu") /\ kc = <<>> /\ ck = Resto(Pcb)
           /\ FsQuieto
  <2>1. \E y : Toca("desalojo", recibeBuffer("cpu", "kernel"), y)
    BY <1>5, AbrirToca, TruncarToca, CrearToca, BorrarToca, OtraToca
  <2>2. Hay("cpu", "kernel", Resto(Pcb)) /\ Pcb \in Seq(Palabras)
    BY <1>5, DatosTipos DEF Hay, ck
  <2>3. LeeBien("desalojo") /\ LeeLoSuyo("desalojo")
    BY <2>1, <2>2, LeeBienResto, LeeLoSuyoLejos
  <2> QED
    BY <1>5, <2>3, QuietoLee
<1>6. CASE EsperaAlFileSystem /\ CpuQuieta
  <2>a. /\ Op.I_F_OPEN \in Pedidos /\ Op.I_TRUNCATE \in Pedidos
        /\ Op.KERNEL_CREAR_ARCHIVO \in Pedidos
    BY DEF Pedidos
  <2>b. /\ Nombre \in Seq(Palabras) /\ Nombre \o Cifras \in Seq(Palabras)
        /\ <<>> \in Seq(Palabras)
    BY DatosTipos, TresMas
  <2>c. FsRespondio => LeeBien("fs")
    BY QuietoLee DEF FsRespondio
  <2>1. CASE En("desalojo", Abrir, 2) /\ FsAtiende(Op.I_F_OPEN, Nombre)
    <3>1. TocaUltima("desalojo", mira("fs", "kernel", "f_open"))
      BY <2>1, AbrirToca
    <3>2. fk = <<>> \/ \E r \in Confirmaciones : fk = Paquete(r, <<>>)
      BY <2>1 DEF FsAtiende
    <3>3. LeeBien("desalojo")
      <4>1. CASE fk = <<>>
        <5>1. Hay("fs", "kernel", <<>>)
          BY <4>1 DEF Hay, fk
        <5> QED
          BY <3>1, <5>1, LeeBienNada
      <4>2. ASSUME NEW r \in Confirmaciones, fk = Paquete(r, <<>>)
            PROVE  LeeBien("desalojo")
        <5>1. Hay("fs", "kernel", Paquete(r, <<>>)) /\ r \in Int
          BY <4>2, Codigos DEF Hay, fk, Confirmaciones
        <5> QED
          BY <2>b, <3>1, <5>1, LeeBienPaquete
      <4> QED
        BY <3>2, <4>1, <4>2
    <3>4. LeeBien("fs") /\ LeeLoSuyo("desalojo")
      BY <2>1, <2>a, <2>b, <3>1, FsLee, LeeLoSuyoLejos
    <3> QED
      BY <1>6, <3>3, <3>4, QuietoLee
  <2>2. \/ En("desalojo", TrasAbrir(Op.AUX_OK), 0)
        \/ En("desalojo", NoAbierto, 0) \/ En("desalojo", NoAbierto, 2)
        \/ En("desalojo", NoAbierto, 3)
        \/ En("desalojo", Truncar, 2) \/ En("desalojo", Truncar, 3)
        \/ En("desalojo", Abrir, 2) /\ FsAtiende(Op.I_F_OPEN, Nombre)
    BY <1>6 DEF EsperaAlFileSystem
  <2>3. ASSUME \/ En("desalojo", TrasAbrir(Op.AUX_OK), 0)
               \/ En("desalojo", NoAbierto, 0) \/ En("desalojo", NoAbierto, 2)
               \/ En("desalojo", NoAbierto, 3)
               \/ En("desalojo", Truncar, 2) \/ En("desalojo", Truncar, 3)
        PROVE  LeeBien("desalojo") /\ LeeLoSuyo("desalojo")
    <3>1. \E y : Toca("desalojo", recibe("fs", "kernel"), y)
      BY <2>3, AbiertoToca, NoAbiertoToca, TruncarToca
    <3> QED
      BY <3>1, LeeBienSolo, LeeLoSuyoLejos
  <2>4. LeeBien("fs")
    <3>1. /\ FsAtiende(Op.I_F_OPEN, Nombre) => LeeBien("fs")
          /\ FsAtiende(Op.KERNEL_CREAR_ARCHIVO, Nombre) => LeeBien("fs")
          /\ FsAtiende(Op.I_TRUNCATE, Nombre \o Cifras) => LeeBien("fs")
      BY <2>a, <2>b, FsLee
    <3> QED
      BY <1>6, <2>c, <3>1 DEF EsperaAlFileSystem
  <2> QED
    BY <1>6, <2>1, <2>2, <2>3, <2>4, QuietoLee
<1> QED
  BY <1>3, <1>4, <1>5, <1>6 DEF DesalojoSinMutex

\* ... in a compaction,
LEMMA PideCompactarLee ==
    ASSUME Tipos, SinOtraRespuesta, MemoriaTermina,
           NEW s \in {Compacta, CompactaOtraVez}, PideCompactar(s)
    PROVE  LeeBien("desalojo") /\ LeeLoSuyo("desalojo") /\ MemLee
<1>1. "unlock" \in Sueltas
  BY DEF Sueltas
<1>2. /\ En("desalojo", s, 0) => \E y :
            Toca("desalojo", envia("kernel", "memoria", Op.COMPACTACION, <<>>),
              y)
      /\ En("desalojo", s, 1) => \E y :
           Toca("desalojo", recibe("memoria", "kernel"), y)
      /\ En("desalojo", s, 2) => \E y :
           Toca("desalojo", recibe("memoria", "kernel"), y)
      /\ En("desalojo", s, 3) => \E y :
           Toca("desalojo", recibeBuffer("memoria", "kernel"), y)
      /\ En("desalojo", s, 4) => \E y : Toca("desalojo", solo("unlock"), y)
  BY CompactaToca, CompactaOtraVezToca
<1>3. /\ <<>> \in Seq(Palabras) /\ Tabla \in Seq(Palabras)
      /\ Op.AUX_OK \in Int \ {Op.AUX_CREATE_PCB}
  BY DatosTipos DEF Op
<1>4. MemLee
  BY MemoriaLee DEF PideCompactar
<1>5. CASE En("desalojo", s, 0) \/ En("desalojo", s, 4)
  BY <1>1, <1>2, <1>4, <1>5, LeeBienSolo, LeeLoSuyoLejos
<1>6. CASE En("desalojo", s, 1) /\ MemCompacta(Resto(<<>>))
  <2>1. LeeBien("desalojo")
    BY <1>2, <1>6, LeeBienSolo
  <2>2. mk = Resto(<<>>) \/ mk = Resto(<<>>) \o Paquete(Op.AUX_OK, Tabla)
    BY <1>6 DEF MemCompacta, MemRespondio
  <2>3. mk = Resto(<<>>) => LeeLoSuyo("desalojo")
    BY <1>3, LeeLoSuyoCerca
  <2>4. mk = Resto(<<>>) \o Paquete(Op.AUX_OK, Tabla) => LeeLoSuyo("desalojo")
    <3>1. Paquete(Op.AUX_OK, Tabla) \in Seq(Palabras)
      BY <1>3, PaqueteTipo
    <3> QED
      BY <1>3, <3>1, LeeLoSuyoCerca
  <2> QED
    BY <1>4, <2>1, <2>2, <2>3, <2>4
<1>7. CASE En("desalojo", s, 2) /\ MemCompacta(<<>>)
  <2>1. LeeBien("desalojo")
    BY <1>2, <1>7, LeeBienSolo
  <2>2. <<>> \o Paquete(Op.AUX_OK, Tabla) = Paquete(Op.AUX_OK, Tabla)
    BY <1>3, PaqueteTipo, ConcatEmptySeq
  <2>3. mk = <<>> \/ mk = Paquete(Op.AUX_OK, Tabla)
    BY <1>7, <2>2 DEF MemCompacta, MemRespondio
  <2>4. LeeLoSuyo("desalojo")
    BY <1>3, <2>3, LeeLoSuyoCerca
  <2> QED
    BY <1>4, <2>1, <2>4
<1>8. CASE En("desalojo", s, 3) /\ MemRespondio(Resto(Tabla))
  <2>1. Hay("memoria", "kernel", Resto(Tabla))
    BY <1>8 DEF MemRespondio, Hay, mk
  <2> QED
    BY <1>2, <1>3, <1>4, <1>8, <2>1, LeeBienResto, LeeLoSuyoLejos
<1> QED
  BY <1>5, <1>6, <1>7, <1>8 DEF PideCompactar

\* An answer that a switch looks at.
LEMMA RespuestaLee ==
    ASSUME NEW como, TocaUltima("desalojo", mira("memoria", "kernel", como)),
           \/ mk = <<>>
           \/ \E op \in Int \ {Op.AUX_CREATE_PCB} : \E d \in Seq(Palabras) :
                mk = Paquete(op, d)
    PROVE  LeeBien("desalojo") /\ LeeLoSuyo("desalojo")
<1>1. CASE mk = <<>>
  <2>1. Hay("memoria", "kernel", <<>>)
    BY <1>1 DEF Hay, mk
  <2> QED
    BY <1>1, <2>1, LeeBienNada, LeeLoSuyoCerca
<1>2. ASSUME NEW op \in Int \ {Op.AUX_CREATE_PCB}, NEW d \in Seq(Palabras),
             mk = Paquete(op, d)
      PROVE  LeeBien("desalojo") /\ LeeLoSuyo("desalojo")
  <2>1. Hay("memoria", "kernel", Paquete(op, d)) /\ op \in Int
    BY <1>2 DEF Hay, mk
  <2> QED
    BY <1>2, <2>1, LeeBienPaquete, LeeLoSuyoCerca
<1> QED
  BY <1>1, <1>2

\* ... when it asks for a segment,
LEMMA PideCrearLee ==
    ASSUME Tipos, SinOtraRespuesta, MemoriaTermina,
           PideCrear(Crear, 2, 3, 4) \/ PideCrear(Compacta, 6, 7, 8)
    PROVE  LeeBien("desalojo") /\ LeeLoSuyo("desalojo") /\ MemLee
<1>1. MemLee
  BY MemoriaLee, PidenLee DEF PideCrear
<1>2. CASE \/ En("desalojo", Crear, 2) \/ En("desalojo", Crear, 3)
           \/ En("desalojo", Compacta, 6) \/ En("desalojo", Compacta, 7)
  BY <1>1, <1>2, CrearToca, CompactaToca, LeeBienSolo, LeeLoSuyoLejos
<1>3. CASE /\ En("desalojo", Crear, 4) \/ En("desalojo", Compacta, 8)
           /\ Entera(Op.I_CREATE_SEGMENT, Entero \o Entero) \/ RespondeCrear
  <2>1. \E como : TocaUltima("desalojo", mira("memoria", "kernel", como))
    BY <1>3, CrearToca, CompactaToca
  <2>2. mk = <<>> \/ \E r \in Creaciones : mk = Paquete(r, DatosDe(r))
    BY <1>3 DEF Entera, RespondeCrear, MemRespondio
  <2>3. \A r \in Creaciones :
           r \in Int \ {Op.AUX_CREATE_PCB} /\ DatosDe(r) \in Seq(Palabras)
    BY TresMas DEF SinOtraRespuesta, Op
  <2> QED
    BY <1>1, <2>1, <2>2, <2>3, RespuestaLee
<1> QED
  BY <1>2, <1>3 DEF PideCrear

\* ... or deletes one,
LEMMA PideBorrarLee ==
    ASSUME Tipos, SinOtraRespuesta, MemoriaTermina, PideBorrar
    PROVE  LeeBien("desalojo") /\ LeeLoSuyo("desalojo") /\ MemLee
<1>1. MemLee
  BY MemoriaLee, PidenLee DEF PideBorrar
<1>2. CASE En("desalojo", Borrar, 2) \/ En("desalojo", Borrar, 3)
  BY <1>1, <1>2, BorrarToca, LeeBienSolo, LeeLoSuyoLejos
<1>3. CASE /\ En("desalojo", Borrar, 4)
           /\ \/ Entera(Op.I_DELETE_SEGMENT, Entero)
              \/ MemRespondio(Paquete(Op.AUX_OK, Tabla))
  <2>1. mk = <<>> \/ mk = Paquete(Op.AUX_OK, Tabla)
    BY <1>3 DEF Entera, MemRespondio
  <2>2. Op.AUX_OK \in Int \ {Op.AUX_CREATE_PCB} /\ Tabla \in Seq(Palabras)
    BY DatosTipos DEF Op
  <2> QED
    BY <1>1, <1>3, <2>1, <2>2, BorrarToca, RespuestaLee
<1> QED
  BY <1>2, <1>3 DEF PideBorrar

\* ... all that it does with the mutex.
LEMMA ConMutexLee ==
    ASSUME Tipos, SinOtraRespuesta, MemoriaTermina, DesalojoConMutex
    PROVE  LeeBien("desalojo") /\ LeeLoSuyo("desalojo") /\ MemLee
<1>1. "unlock" \in Sueltas /\ Tabla \in Seq(Palabras)
        /\ Puntero \in Seq(Palabras)
  BY DatosTipos DEF Sueltas
<1>2. CASE PideCrear(Crear, 2, 3, 4) \/ PideCrear(Compacta, 6, 7, 8)
             \/ PideBorrar
  BY <1>2, PideCrearLee, PideBorrarLee
<1>3. CASE PideCompactar(Compacta) \/ PideCompactar(CompactaOtraVez)
  BY <1>3, PideCompactarLee
<1>4. CASE \/ En("desalojo", Creado, 0) /\ MemRespondio(Resto(Puntero))
           \/ En("desalojo", Borrado, 0) /\ MemRespondio(Resto(Tabla))
  <2>1. \E d \in Seq(Palabras) : MemRespondio(Resto(d))
    BY <1>1, <1>4
  <2>2. PICK d \in Seq(Palabras) : MemRespondio(Resto(d))
    BY <2>1
  <2>3. Hay("memoria", "kernel", Resto(d))
    BY <2>2 DEF MemRespondio, Hay, mk
  <2>4. \E y : Toca("desalojo", recibeBuffer("memoria", "kernel"), y)
    BY <1>4, CreadoToca, BorradoToca
  <2> QED
    BY <2>2, <2>3, <2>4, LeeBienResto, LeeLoSuyoLejos, MemoriaLee
<1>5. CASE (En("desalojo", Creado, 1) \/ En("desalojo", Borrado, 1))
             /\ MemQuieta
  BY <1>1, <1>5, CreadoToca, BorradoToca, LeeBienSolo, LeeLoSuyoLejos,
     MemoriaLee
<1> QED
  BY <1>2, <1>3, <1>4, <1>5 DEF DesalojoConMutex

\* Every thread, in what it reads.
TodosLeen ==
    /\ \A h \in Hilos : LeeBien(h)
    /\ LeeLoSuyo("ready") /\ LeeLoSuyo("desalojo")

\* Once the kernel is connected everybody reads what was sent.
LEMMA MarchaLee ==
    ASSUME Tipos, SinPedidosDelFs, SinOtraRespuesta, Marcha
    PROVE  TodosLeen
<1>1. LeeBien("kernel")
  <2> DEFINE s == Inicio.kernel
  <2>1. s \in Seq(Llamadas) /\ 9 \in 0..Len(s) - 1 /\ s[9 + 1] = solo("fin")
    BY InicioKernelLlama
  <2>2. En("kernel", s, 9)
    BY DEF Marcha
  <2> HIDE DEF s
  <2>3. Head(Quedan(s, 9)) = s[9 + 1]
    BY <2>1, LoQueQueda
  <2>4. Ahora("kernel") = solo("fin")
    BY <2>1, <2>2, <2>3 DEF Ahora, En
  <2> QED
    BY <2>4, LeeBienSolo
<1>2. PedidosFs /\ MemoriaTermina
  BY DEF Marcha
<1>3. LeeBien("pedidos_fs")
  BY <1>2, QuietoLee
<1>4. CASE MemQuieta /\ ReadySinMutex /\ DesalojoSinMutex
  <2>1. LeeBien("ready") /\ LeeLoSuyo("ready") /\ MemLee
    BY <1>2, <1>4, ReadyLee, MemoriaLee
  <2>2. /\ LeeBien("desalojo") /\ LeeLoSuyo("desalojo")
        /\ LeeBien("cpu") /\ LeeBien("pedidos_cpu") /\ LeeBien("fs")
    BY <1>4, SinMutexLee
  <2> QED
    BY <1>1, <1>3, <2>1, <2>2, HilosSon DEF TodosLeen, MemLee
<1>5. CASE ReadyConMutex /\ DesalojoSinMutex
  <2>1. LeeBien("ready") /\ LeeLoSuyo("ready") /\ MemLee
    BY <1>2, <1>5, ReadyLee
  <2>2. /\ LeeBien("desalojo") /\ LeeLoSuyo("desalojo")
        /\ LeeBien("cpu") /\ LeeBien("pedidos_cpu") /\ LeeBien("fs")
    BY <1>5, SinMutexLee
  <2> QED
    BY <1>1, <1>3, <2>1, <2>2, HilosSon DEF TodosLeen, MemLee
<1>6. CASE DesalojoConMutex /\ ReadySinMutex /\ CpuQuieta /\ FsQuieto
  <2>1. LeeBien("ready") /\ LeeLoSuyo("ready")
    BY <1>6, ReadyLee
  <2>2. LeeBien("desalojo") /\ LeeLoSuyo("desalojo") /\ MemLee
    BY <1>2, <1>6, ConMutexLee
  <2>3. LeeBien("cpu") /\ LeeBien("pedidos_cpu") /\ LeeBien("fs")
    BY <1>6, QuietoLee
  <2> QED
    BY <1>1, <1>3, <2>1, <2>2, <2>3, HilosSon DEF TodosLeen, MemLee
<1> QED
  BY <1>4, <1>5, <1>6 DEF Marcha

-----------------------------------------------------------------------------
(* ... and before it is *)

\* The main thread of the kernel,
LEMMA KernelLee ==
    ASSUME Tipos, NEW k \in 0..8, En("kernel", Inicio.kernel, k)
    PROVE  LeeBien("kernel")
<1>1. "lanzado" \in Sueltas
  BY DEF Sueltas
<1>2. k = 0 \/ k = 1 \/ k = 2 \/ k = 3 \/ k = 4 \/ k = 5 \/ k = 6 \/ k = 7
        \/ k = 8
  OBVIOUS
<1>3. CASE k = 0
  BY <1>1, <1>3, InicioKernelToca, LeeBienSolo
<1>4. CASE k = 1 \/ k = 2 \/ k = 3
  BY <1>4, InicioKernelToca, LeeBienSolo
<1>5. CASE k = 4 \/ k = 5 \/ k = 6
  BY <1>5, InicioKernelToca, LeeBienSolo
<1>6. CASE k = 7 \/ k = 8
  BY <1>6, InicioKernelToca, LeeBienSolo
<1> QED
  BY <1>2, <1>3, <1>4, <1>5, <1>6

\* ... a client while it starts,
LEMMA ClienteLee ==
    ASSUME Tipos, NEW c \in Servidores
    PROVE  /\ En(c, Inicio[c], 0) \/ En(c, Inicio[c], 1) => LeeBien(c)
           /\ En(c, Inicio[c], 2) \/ En(c, Inicio[c], 3) => LeeBien(c)
           /\ En(c, Inicio[c], 4) => LeeBien(c)
<1>1. "listen" \in Sueltas
  BY DEF Sueltas
<1> QED
  BY <1>1, InicioClienteToca, LeeBienSolo

\* What a client, and the thread of Memoria for it, read.
LosDosLeen(c) == LeeBien(c) /\ LeeBien(PedidosDe[c])

\* ... while it is served,
LEMMA ClientesLee ==
    ASSUME Tipos, NEW c \in Servidores
    PROVE  /\ Fuera(c) => LosDosLeen(c)
           /\ EnCola(c) => LosDosLeen(c)
           /\ PideEntrar(c) => LosDosLeen(c)
           /\ Servido(c) => LosDosLeen(c)
           /\ \A i : Sirve(c, i) => LosDosLeen(c)
<1>1. Presentado(c) => LeeBien(c)
  BY ClienteLee DEF Presentado
<1>2. SinEmpezar(PedidosDe[c]) => LeeBien(PedidosDe[c])
  BY LeeBienSolo
<1>3. (Fuera(c) => LosDosLeen(c)) /\ (EnCola(c) => LosDosLeen(c))
  BY <1>2, ClienteLee DEF Fuera, EnCola, LosDosLeen
<1>4. ASSUME Servido(c)
      PROVE  LosDosLeen(c)
  <2>1. CASE c = "cpu"
    <3>1. EnBucle("pedidos_cpu") /\ cm = <<>> /\ PedidosDe[c] = "pedidos_cpu"
      BY <1>4, <2>1 DEF Servido, De, cm, PedidosDe
    <3> QED
      BY <1>1, <1>4, <3>1, PedidosCpuLee DEF LosDosLeen, Servido
  <2>2. CASE c = "fs"
    <3>1. PedidosDe[c] = "pedidos_fs"
      BY <2>2 DEF PedidosDe
    <3>2. PedidosFs
      BY <1>4, <2>2 DEF Servido, De, A, fm, mf, PedidosFs
    <3> QED
      BY <1>1, <1>4, <3>1, <3>2, QuietoLee DEF LosDosLeen, Servido
  <2> QED
    BY <2>1, <2>2 DEF Servidores
<1>5. ASSUME NEW i, Sirve(c, i)
      PROVE  LosDosLeen(c)
  BY <1>1, <1>2, <1>5, ClienteLee DEF Sirve, LosDosLeen
<1>6. PideEntrar(c) => LosDosLeen(c)
  BY <1>3 DEF PideEntrar
<1> QED
  BY <1>3, <1>4, <1>5, <1>6

\* ... Memoria while it serves it,
LEMMA SirveLee ==
    ASSUME Tipos, NEW c \in Servidores, NEW i \in 1..3, Sirve(c, i)
    PROVE  LeeBien("memoria")
<1>0. c \in Clientela
  BY DEF Servidores, Clientela
<1>1. Saluda(c, i, 0) \/ Saluda(c, i, 1) => LeeBien("memoria")
  BY <1>0, SaludaToca, LeeBienSolo
<1>2. Saluda(c, i, 2) => TocaCon("memoria", mira(c, "memoria", "conexion"),
        Luego(i))
  BY <1>0, SaludaToca
<1>3. ASSUME Saluda(c, i, 2), De(c) = <<>>
      PROVE  LeeBien("memoria")
  <2>1. Hay(c, "memoria", <<>>) /\ TocaCon("memoria",
          mira(c, "memoria", "conexion"), Luego(i))
    BY <1>2, <1>3 DEF Hay, De
  <2> QED
    BY <2>1, LeeBienNadaCon
<1>4. ASSUME Saluda(c, i, 2), De(c) = Paquete(Soy[c], <<>>)
      PROVE  LeeBien("memoria")
  <2>a. Soy[c] \in Int
    BY Codigos DEF Soy, Servidores
  <2>1. Soy[c] \in Int /\ <<>> \in Seq(Palabras)
    BY <2>a, DatosTipos
  <2>2. Head(Paquete(Soy[c], <<>>)).es = "op"
    BY <2>1, AlFrente
  <2>3. Hay(c, "memoria", Paquete(Soy[c], <<>>))
    BY <1>4 DEF Hay, De
  <2> QED
    BY <1>2, <1>4, <2>2, <2>3, LeeBienMira
<1>5. Atiende(c, i, 0) => LeeBien("memoria")
  <2>1. Atiende("cpu", i, 0) => LeeBien("memoria")
    BY AtiendeToca, LeeBienSolo
  <2>2. Atiende("fs", i, 0) => LeeBien("memoria")
    BY AtiendeToca, LeeBienSolo
  <2> QED
    BY <2>1, <2>2 DEF Servidores
<1>6. c = "cpu" /\ Atiende(c, i, 1) => LeeBien("memoria")
  BY AtiendeToca, LeeBienSolo
<1> QED
  BY <1>1, <1>3, <1>4, <1>5, <1>6 DEF Sirve

\* ... while it waits for one
LEMMA AceptaLee ==
    ASSUME Tipos
    PROVE  /\ Acepta(0) => LeeBien("memoria")
           /\ \A i \in 1..3 : Acepta(i) => LeeBien("memoria")
<1>1. "listen" \in Sueltas
  BY DEF Sueltas
<1>2. Acepta(0) => LeeBien("memoria")
  BY <1>1, InicioMemoriaToca, LeeBienSolo
<1>3. ASSUME NEW i \in 1..3, Acepta(i)
      PROVE  LeeBien("memoria")
  BY <1>3, InicioMemoriaToca, LeeBienSolo
<1> QED
  BY <1>2, <1>3

\* ... and with the kernel.
LEMMA SirveKernelLee ==
    ASSUME Tipos
    PROVE  /\ SinKernel => LeeBien("kernel")
           /\ Tercero => LeeBien("kernel")
           /\ SirveKernel => LeeBien("kernel") /\ LeeBien("memoria")
<1>1. /\ En("kernel", Inicio.kernel, 0) => LeeBien("kernel")
      /\ En("kernel", Inicio.kernel, 1) => LeeBien("kernel")
      /\ En("kernel", Inicio.kernel, 2) => LeeBien("kernel")
      /\ En("kernel", Inicio.kernel, 3) => LeeBien("kernel")
  <2>1. 0 \in 0..8 /\ 1 \in 0..8 /\ 2 \in 0..8 /\ 3 \in 0..8
    OBVIOUS
  <2> QED
    BY <2>1, KernelLee
<1>2. SinKernel => LeeBien("kernel")
  BY <1>1 DEF SinKernel
<1>3. Tercero => LeeBien("kernel")
  BY <1>1, <1>2 DEF Tercero, KernelEnCola
<1>4. SirveKernel => LeeBien("kernel")
  BY <1>1 DEF SirveKernel
<1>5. "kernel" \in Clientela /\ 3 \in 1..3
  BY DEF Clientela
<1>6. Saluda("kernel", 3, 0) \/ Saluda("kernel", 3, 1) => LeeBien("memoria")
  BY <1>5, SaludaToca, LeeBienSolo
<1>7. ASSUME Saluda("kernel", 3, 2), km = <<>>
      PROVE  LeeBien("memoria")
  <2>1. TocaCon("memoria", mira("kernel", "memoria", "conexion"), Luego(3))
    BY <1>5, <1>7, SaludaToca
  <2>2. Hay("kernel", "memoria", <<>>)
    BY <1>7 DEF Hay, km
  <2> QED
    BY <2>1, <2>2, LeeBienMira
<1>8. SirveKernel => LeeBien("memoria")
  BY <1>6, <1>7 DEF SirveKernel
<1> QED
  BY <1>2, <1>3, <1>4, <1>8

\* Before the kernel knows Memoria everybody reads what was sent,
LEMMA ArranqueLee ==
    ASSUME Tipos, Arranque
    PROVE  TodosLeen
<1>1. ASSUME NEW a \in Servidores, NEW b \in Servidores, Clientes(a, b)
      PROVE  LosDosLeen(a) /\ LosDosLeen(b) /\ LeeBien("memoria")
               /\ LeeBien("kernel")
  <2>1. 1 \in 1..3 /\ 2 \in 1..3 /\ 3 \in 1..3
    OBVIOUS
  <2>2. /\ Acepta(0) \/ Acepta(1) => LeeBien("memoria")
        /\ Acepta(2) \/ Acepta(3) => LeeBien("memoria")
    BY <2>1, AceptaLee
  <2>3. Sirve(a, 1) \/ Sirve(b, 2) => LeeBien("memoria")
    BY <2>1, SirveLee
  <2>a. /\ Fuera(a) \/ EnCola(a) \/ Servido(a) \/ Sirve(a, 1) => LosDosLeen(a)
        /\ Fuera(b) \/ EnCola(b) \/ Servido(b) \/ Sirve(b, 2) => LosDosLeen(b)
        /\ PideEntrar(b) => LosDosLeen(b)
    BY ClientesLee
  <2>b. /\ Fuera(a) \/ EnCola(a) \/ Servido(a) \/ Sirve(a, 1)
        /\ Fuera(b) \/ EnCola(b) \/ Servido(b) \/ Sirve(b, 2) \/ PideEntrar(b)
    BY <1>1 DEF Clientes
  <2>4. LosDosLeen(a) /\ LosDosLeen(b)
    BY <2>a, <2>b
  <2>c. \/ Acepta(0) \/ Acepta(1) \/ Acepta(2) \/ Acepta(3)
        \/ Sirve(a, 1) \/ Sirve(b, 2) \/ SirveKernel
    BY <1>1 DEF Clientes
  <2>5. LeeBien("memoria")
    BY <2>2, <2>3, <2>c, SirveKernelLee
  <2>d. SinKernel \/ Tercero \/ SirveKernel
    BY <1>1 DEF Clientes
  <2>6. LeeBien("kernel")
    BY <2>d, SirveKernelLee
  <2> QED
    BY <2>4, <2>5, <2>6
<1>2. /\ LosDosLeen("cpu") /\ LosDosLeen("fs")
      /\ LeeBien("memoria") /\ LeeBien("kernel")
  <2>1. "cpu" \in Servidores /\ "fs" \in Servidores
    BY DEF Servidores
  <2>2. CASE Clientes("cpu", "fs")
    BY <1>1, <2>1, <2>2
  <2>3. CASE Clientes("fs", "cpu")
    BY <1>1, <2>1, <2>3
  <2> QED
    BY <2>2, <2>3 DEF Arranque
<1>3. LeeBien("cpu") /\ LeeBien("pedidos_cpu") /\ LeeBien("fs")
        /\ LeeBien("pedidos_fs")
  BY <1>2 DEF LosDosLeen, PedidosDe
<1>4. /\ LeeBien("ready") /\ LeeBien("desalojo") /\ LeeBien("pedidos_kernel")
      /\ LeeLoSuyo("ready") /\ LeeLoSuyo("desalojo")
  BY LeeBienSolo, LeeLoSuyoLejos DEF Arranque, NadieMas
<1> QED
  BY <1>2, <1>3, <1>4, HilosSon DEF TodosLeen

\* ... and while it connects.
LEMMA ConexionesLee ==
    ASSUME Tipos, Conexiones
    PROVE  TodosLeen
<1>1. \A c \in Servidores : Quieto(c) => LeeBien(c)
  BY QuietoLee, DelKernelSon DEF Quieto, Servidores
<1>2. \A c \in Servidores : Espera(c) => LeeBien(c)
  BY ClienteLee DEF Espera
<1>3. ASSUME NEW c \in Servidores, Saludando(c)
      PROVE  LeeBien(c)
  <2>1. EnBucle(c) /\ DelKernel(c) = <<>> => LeeBien(c)
    BY QuietoLee, DelKernelSon DEF Servidores
  <2>2. En(c, SaludoDe(c), 0) \/ En(c, SaludoDe(c), 1) => LeeBien(c)
    BY SaludoDeToca, LeeBienSolo
  <2> QED
    BY <1>3, <2>1, <2>2, ClienteLee DEF Saludando
<1>4. LeeBien("cpu") /\ LeeBien("fs")
  <2>1. "cpu" \in Servidores /\ "fs" \in Servidores
    BY DEF Servidores
  <2> QED
    BY <1>1, <1>2, <1>3, <2>1 DEF Conexiones
<1>5. LeeBien("kernel")
  <2>1. 4 \in 0..8 /\ 5 \in 0..8 /\ 6 \in 0..8 /\ 7 \in 0..8 /\ 8 \in 0..8
    OBVIOUS
  <2> QED
    BY <2>1, KernelLee DEF Conexiones
<1>6. MemLee
  BY KmListoPaqueteLee DEF Conexiones
<1>7. LeeBien("pedidos_cpu") /\ LeeBien("pedidos_fs")
  BY QuietoLee DEF Conexiones
<1>8. /\ LeeBien("ready") /\ LeeBien("desalojo")
      /\ LeeLoSuyo("ready") /\ LeeLoSuyo("desalojo")
  BY LeeBienSolo, LeeLoSuyoLejos DEF Conexiones, NadieMas
<1> QED
  BY <1>4, <1>5, <1>6, <1>7, <1>8, HilosSon DEF TodosLeen, MemLee

-----------------------------------------------------------------------------
(* Nothing is left in a connection *)

\* What a thread that starts its loop does not do.
LEMMA AlEmpezarElBucle ==
    ASSUME Tipos
    PROVE  /\ EnBucle("ready") =>
                 /\ \A y, de, a : ~Toca("ready", recibe(de, a), y)
                 /\ \A y, de, a, op, d : ~Toca("ready", envia(de, a, op, d), y)
                 /\ \A y, de, a : ~Toca("ready", recibeBuffer(de, a), y)
                 /\ \A y : ~Toca("ready", solo("unlock"), y)
           /\ EnBucle("desalojo") =>
                 /\ \A y, de, a : ~Toca("desalojo", recibe(de, a), y)
                 /\ \A y, op, d : ~Toca("desalojo",
                      envia("kernel", "memoria", op, d), y)
                 /\ \A y, de, a : ~Toca("desalojo", recibeBuffer(de, a), y)
                 /\ \A y : ~Toca("desalojo", solo("unlock"), y)
                 /\ \A de, a, como : ~TocaUltima("desalojo", mira(de, a, como))
           /\ EnBucle("pedidos_fs") =>
                 \A de, a, como : ~TocaUltima("pedidos_fs", mira(de, a, como))
<1>1. /\ \A h, y, x : Toca(h, x, y) => Ahora(h) = x
      /\ \A h, x : TocaUltima(h, x) => Ahora(h) = x
  BY DEF Toca, TocaUltima
<1>2. /\ \A de, a : recibe(de, a).paso = "recibir_operacion"
      /\ \A de, a, op, d : envia(de, a, op, d).paso = "send"
      /\ \A de, a : recibeBuffer(de, a).paso = "recibir_buffer"
      /\ \A p : solo(p).paso = p
      /\ \A de, a, como : mira(de, a, como).paso = "switch"
  BY DEF recibe, envia, recibeBuffer, solo, mira
<1>3. ASSUME EnBucle("ready")
      PROVE  /\ \A y, de, a : ~Toca("ready", recibe(de, a), y)
             /\ \A y, de, a, op, d : ~Toca("ready", envia(de, a, op, d), y)
             /\ \A y, de, a : ~Toca("ready", recibeBuffer(de, a), y)
             /\ \A y : ~Toca("ready", solo("unlock"), y)
  <2>1. Ahora("ready").paso = "sem_wait"
    BY <1>1, <1>2, <1>3, ReadyToca
  <2> QED
    BY <1>1, <1>2, <2>1
<1>4. ASSUME EnBucle("desalojo")
      PROVE  /\ \A y, de, a : ~Toca("desalojo", recibe(de, a), y)
             /\ \A y, op, d : ~Toca("desalojo",
                  envia("kernel", "memoria", op, d), y)
             /\ \A y, de, a : ~Toca("desalojo", recibeBuffer(de, a), y)
             /\ \A y : ~Toca("desalojo", solo("unlock"), y)
             /\ \A de, a, como : ~TocaUltima("desalojo", mira(de, a, como))
  <2>1. Ahora("desalojo") = envia("kernel", "cpu", Op.OP_EXECUTE_PCB, Pcb)
    BY <1>1, <1>4, DesalojoToca
  <2>2. Ahora("desalojo").paso = "send"
    BY <1>2, <2>1
  <2>3. \A op, d : Ahora("desalojo") # envia("kernel", "memoria", op, d)
    BY <2>1 DEF envia
  <2> QED
    BY <1>1, <1>2, <2>2, <2>3
<1>5. ASSUME EnBucle("pedidos_fs")
      PROVE  \A de, a, como : ~TocaUltima("pedidos_fs", mira(de, a, como))
  <2>1. Ahora("pedidos_fs").paso = "recibir_operacion"
    BY <1>1, <1>2, <1>5, PedidosFsToca
  <2> QED
    BY <1>1, <1>2, <2>1
<1> QED
  BY <1>3, <1>4, <1>5

\* The kernel asks nobody for anything when both its threads start again.
LEMMA ReadyNoPide ==
    ASSUME Tipos, EnBucle("ready")
    PROVE  ~ReadyConMutex
BY ReadyToca, AlEmpezarElBucle DEF ReadyConMutex

\* ... nor does the one that attends to the CPU, in its loop.
LEMMA DesalojoNoPide ==
    ASSUME Tipos, EnBucle("desalojo")
    PROVE  /\ ~DesalojoConMutex
           /\ DesalojoSinMutex => CpuQuieta /\ FsQuieto
<1>1. ~PideCrear(Crear, 2, 3, 4)
  BY CrearToca, AlEmpezarElBucle DEF PideCrear
<1>2. ~PideCrear(Compacta, 6, 7, 8)
  BY CompactaToca, AlEmpezarElBucle DEF PideCrear
<1>3. ~PideBorrar
  BY BorrarToca, AlEmpezarElBucle DEF PideBorrar
<1>4. ~PideCompactar(Compacta)
  BY CompactaToca, AlEmpezarElBucle DEF PideCompactar
<1>5. ~PideCompactar(CompactaOtraVez)
  BY CompactaOtraVezToca, AlEmpezarElBucle DEF PideCompactar
<1>6. /\ ~En("desalojo", Creado, 0) /\ ~En("desalojo", Creado, 1)
      /\ ~En("desalojo", Borrado, 0) /\ ~En("desalojo", Borrado, 1)
  BY CreadoToca, BorradoToca, AlEmpezarElBucle
<1>7. ~DesalojoConMutex
  BY <1>1, <1>2, <1>3, <1>4, <1>5, <1>6 DEF DesalojoConMutex
<1>8. ~EsperaAlFileSystem
  <2>1. ~En("desalojo", Abrir, 2) /\ ~En("desalojo", TrasAbrir(Op.AUX_OK), 0)
    BY AbrirToca, AbiertoToca, AlEmpezarElBucle
  <2>2. /\ ~En("desalojo", NoAbierto, 0) /\ ~En("desalojo", NoAbierto, 2)
        /\ ~En("desalojo", NoAbierto, 3)
    BY NoAbiertoToca, AlEmpezarElBucle
  <2>3. ~En("desalojo", Truncar, 2) /\ ~En("desalojo", Truncar, 3)
    BY TruncarToca, AlEmpezarElBucle
  <2> QED
    BY <2>1, <2>2, <2>3 DEF EsperaAlFileSystem
<1>9. ~En("desalojo", manejo_desalojo_pcb, 1)
  BY DesalojoToca, AlEmpezarElBucle
<1>10. /\ ~En("desalojo", Abrir, 0) /\ ~En("desalojo", Truncar, 0)
       /\ ~En("desalojo", Crear, 0) /\ ~En("desalojo", Borrar, 0)
       /\ ~En("desalojo", Otra, 0)
  BY AbrirToca, TruncarToca, CrearToca, BorrarToca, OtraToca, AlEmpezarElBucle
<1> QED
  BY <1>7, <1>8, <1>9, <1>10 DEF DesalojoSinMutex

\* When all the threads are in their loops nothing is on its way.
LEMMA TodosEnSuBucle ==
    ASSUME Tipos, cf = <<>>, fc = <<>>, Arranque \/ Conexiones \/ Marcha
    PROVE  NadaDeMas
<1> SUFFICES ASSUME \A h \in Hilos \ {"kernel", "memoria"} : por[h] = Bucle[h]
             PROVE  \A c \in Canales :
                       canal[c] = IF c = <<"fs",
                         "memoria">> THEN <<Palabra("tam", 0)>>
                                  ELSE <<>>
  BY DEF NadaDeMas
<1>1. EnBucle("ready")
  BY HilosSon DEF EnBucle
<1>2. EnBucle("desalojo")
  BY HilosSon DEF EnBucle
<1>3. EnBucle("pedidos_kernel") /\ EnBucle("pedidos_fs")
  BY HilosSon DEF EnBucle
<1>4. ~SinEmpezar("ready")
  <2>1. Ahora("ready") = solo("sem_wait")
    BY <1>1, ReadyToca DEF Toca
  <2> QED
    BY <2>1 DEF SinEmpezar, Ahora, Fin, solo
<1>5. Marcha
  BY <1>4 DEF Arranque, Conexiones, NadieMas
<1>6. MemQuieta /\ CpuQuieta /\ FsQuieto
  BY <1>1, <1>2, <1>5, ReadyNoPide, DesalojoNoPide DEF Marcha
<1>7. km = <<>> /\ mk = <<>>
  BY <1>3, <1>6, BucleNoEsFin DEF MemQuieta, KmListo
<1>8. kc = <<>> /\ ck = <<>> /\ kf = <<>> /\ fk = <<>> /\ cm = <<>> /\ mc = <<>>
  BY <1>6, DelKernelSon DEF CpuQuieta, FsQuieto, Quieto, PedidosCpuQuieto
<1>9. mf = <<>> /\ fm = Resto(<<>>)
  <2>1. ~En("pedidos_fs", Bucle.pedidos_fs, 1)
    BY <1>3, PedidosFsToca, AlEmpezarElBucle
  <2> QED
    BY <1>5, <2>1 DEF Marcha, PedidosFs
<1>10. Resto(<<>>) = <<Palabra("tam", 0)>>
  <2>1. Len(<<>>) = 0 /\ 4 * 0 = 0
    OBVIOUS
  <2>2. Resto(<<>>) = <<Palabra("tam", 0)>> \o <<>>
    BY <2>1 DEF Resto
  <2>3. Palabra("tam", 0) \in Palabras
    BY PalabraTipo
  <2>4. <<Palabra("tam", 0)>> \in Seq(Palabras)
    BY <2>3
  <2> QED
    BY <2>2, <2>4, ConcatEmptySeq
<1>11. \A c \in Canales :
          \/ c = <<"kernel", "cpu">> \/ c = <<"cpu", "kernel">>
          \/ c = <<"kernel", "fs">> \/ c = <<"fs", "kernel">>
          \/ c = <<"kernel", "memoria">> \/ c = <<"memoria", "kernel">>
          \/ c = <<"cpu", "memoria">> \/ c = <<"memoria", "cpu">>
          \/ c = <<"fs", "memoria">> \/ c = <<"memoria", "fs">>
          \/ c = <<"cpu", "fs">> \/ c = <<"fs", "cpu">>
  BY DEF Canales, Modulos
<1>12. \A c \in Canales : c # <<"fs", "memoria">> => canal[c] = <<>>
  BY <1>7, <1>8, <1>9, <1>11 DEF kc, ck, kf, fk, km, mk, cm, mc, fm, mf, cf, fc
<1>13. canal[<<"fs", "memoria">>] = <<Palabra("tam", 0)>>
  BY <1>9, <1>10 DEF fm
<1> QED
  BY <1>12, <1>13

-----------------------------------------------------------------------------
(* The theorems *)

\* Where the threads start.
LEMMA InicioTipos ==
    /\ Inicio \in [Hilos -> Seq(Llamadas)]
    /\ \A h \in Hilos \ {"kernel", "cpu", "fs", "memoria"} : Inicio[h] = Fin
<1>1. \A h \in Hilos \ {"kernel", "cpu", "fs", "memoria"} : Inicio[h] = Fin
  BY HilosSon DEF Inicio
<1>2. Fin \in Seq(Llamadas)
  BY FinLlama
<1>3. Inicio["kernel"] \in Seq(Llamadas)
  BY InicioKernelLlama
<1>4. Inicio["memoria"] \in Seq(Llamadas)
  BY InicioMemoriaLlama
<1>5. Inicio["cpu"] \in Seq(Llamadas) /\ Inicio["fs"] \in Seq(Llamadas)
  BY InicioClienteLlama DEF Servidores
<1>6. \A h \in Hilos : Inicio[h] \in Seq(Llamadas)
  BY <1>1, <1>2, <1>3, <1>4, <1>5
<1>7. Inicio = [h \in Hilos |-> Inicio[h]]
  BY DEF Inicio
<1> QED
  BY <1>1, <1>6, <1>7

\* InvProtocolo holds at the start,
LEMMA InitInvProtocolo ==
    ASSUME Init
    PROVE  InvProtocolo
<1>1. Tipos
  <2>1. <<>> \in Seq(Palabras) /\ <<>> \in Seq(Modulos)
    BY DatosTipos
  <2>2. canal \in [Canales -> Seq(Palabras)]
    BY <2>1 DEF Init
  <2>3. cola \in [Modulos -> Seq(Modulos)]
    BY <2>1 DEF Init
  <2>4. por \in [Hilos -> Seq(Llamadas)]
    BY InicioTipos DEF Init
  <2>5. escuchan \in SUBSET Hilos /\ inicializar \in Nat
    BY ConsolasAssumption DEF Init
  <2> QED
    BY <2>2, <2>3, <2>4, <2>5 DEF Tipos
<1>2. \A c \in Canales : canal[c] = <<>>
  BY DEF Init
<1>3. /\ kc = <<>> /\ ck = <<>> /\ kf = <<>> /\ fk = <<>> /\ km = <<>>
           /\ mk = <<>>
      /\ cf = <<>> /\ fc = <<>>
  BY <1>2, CanalesSon DEF kc, ck, kf, fk, km, mk, cf, fc
<1>4. \A c \in Servidores : De(c) = <<>> /\ A(c) = <<>>
  BY <1>2, CanalesSon DEF De, A, Servidores
<1>5. \A h \in Hilos : En(h, Inicio[h], 0)
  <2>1. ASSUME NEW h \in Hilos
        PROVE  En(h, Inicio[h], 0)
    <3>1. Inicio[h] \in Seq(Llamadas) /\ por[h] = Inicio[h]
      BY InicioTipos DEF Init
    <3> QED
      BY <3>1, AlEmpezar
  <2> QED
    BY <2>1
<1>6. /\ SinEmpezar("ready") /\ SinEmpezar("desalojo")
           /\ SinEmpezar("pedidos_kernel")
      /\ SinEmpezar("pedidos_cpu") /\ SinEmpezar("pedidos_fs")
  BY InicioTipos, HilosSon DEF Init, SinEmpezar
<1>7. cola["cpu"] = <<>> /\ cola["fs"] = <<>> /\ cola["memoria"] = <<>>
  BY DEF Init, Modulos
<1>8. Fuera("cpu") /\ Fuera("fs")
  BY <1>4, <1>5, <1>6, HilosSon DEF Fuera, Init, Servidores, PedidosDe
<1>9. SinKernel /\ Acepta(0)
  BY <1>3, <1>5, HilosSon DEF SinKernel, Acepta
<1>10. Clientes("cpu", "fs")
  BY <1>7, <1>8, <1>9 DEF Clientes, Init
<1>11. Arranque
  BY <1>3, <1>6, <1>7, <1>10 DEF Arranque, NadieMas, Init
<1> QED
  BY <1>1, <1>3, <1>11 DEF InvProtocolo

\* A step that changes nothing.
LEMMA NadaCambia ==
    ASSUME UNCHANGED vars
    PROVE  /\ MismoMutex /\ KernelIgual /\ IgualCola /\ IgualLlamador
           /\ IgualKC /\ IgualKF /\ IgualKM /\ IgualCM /\ IgualFM /\ IgualCF
           /\ IgualCpu /\ IgualFs /\ IgualPedidosFs /\ IgualMem
           /\ \A c \in Servidores : IgualCliente(c)
           /\ LosTres
<1>1. /\ canal' = canal /\ por' = por /\ escuchan' = escuchan /\ cola' = cola
      /\ mutex_memoria' = mutex_memoria
  BY DEF vars
<1>2. /\ IgualKC /\ IgualKF /\ IgualKM /\ IgualCM /\ IgualFM /\ IgualCF
  BY <1>1 DEF IgualKC, IgualKF, IgualKM, IgualCM, IgualFM, IgualCF,
     kc, ck, kf, fk, km, mk, cm, mc, fm, mf, cf, fc
<1>3. /\ MismoMutex /\ KernelIgual /\ IgualCola /\ IgualLlamador
  BY <1>1, <1>2 DEF MismoMutex, KernelIgual, IgualCola, IgualLlamador
<1>4. IgualCpu /\ IgualFs /\ IgualPedidosFs /\ IgualMem
  BY <1>1, <1>2 DEF IgualCpu, IgualFs, IgualPedidosFs, IgualMem
<1>5. \A c \in Servidores : IgualCliente(c)
  BY <1>1 DEF IgualCliente, De, A
<1>6. LosTres
  BY <1>1, <1>2, <1>3 DEF LosTres
<1> QED
  BY <1>2, <1>3, <1>4, <1>5, <1>6

\* ... while nothing changes (first, what is said of the clients),
LEMMA NadaCambiaClientes ==
    ASSUME UNCHANGED vars, NEW a \in Servidores, NEW b \in Servidores,
           Clientes(a, b)
    PROVE  Clientes(a, b)'
<1>0. por' = por /\ escuchan' = escuchan /\ cola' = cola
  BY DEF vars
<1>a. IgualCliente(a) /\ IgualCliente(b) /\ IgualLlamador /\ IgualCola
  BY NadaCambia
<1>1. /\ Fuera(a) => Fuera(a)'
      /\ EnCola(a) => EnCola(a)'
      /\ Servido(a) => Servido(a)'
      /\ \A i : Sirve(a, i) => Sirve(a, i)'
  BY <1>0, <1>a, ClienteIgual
<1>2. /\ Fuera(b) => Fuera(b)'
      /\ EnCola(b) => EnCola(b)'
      /\ Servido(b) => Servido(b)'
      /\ \A i : Sirve(b, i) => Sirve(b, i)'
  BY <1>0, <1>a, ClienteIgual
<1>3. PideEntrar(b) => PideEntrar(b)'
  BY <1>a, PideEntrarIgual
<1>4. \A i : Acepta(i) => Acepta(i)'
  BY <1>0, AceptaIgual
<1>5. /\ SinKernel => SinKernel'
      /\ Tercero => Tercero'
      /\ SirveKernel => SirveKernel'
  BY <1>0, <1>a, LlamadorIgual
<1>6. CASE Acepta(0) \/ Acepta(1)
  BY <1>0, <1>1, <1>2, <1>3, <1>4, <1>5, <1>6 DEF Clientes
<1>7. CASE Sirve(a, 1) \/ Sirve(b, 2) \/ SirveKernel
  BY <1>0, <1>1, <1>2, <1>3, <1>4, <1>5, <1>7 DEF Clientes
<1>8. CASE Acepta(2) \/ Acepta(3)
  BY <1>0, <1>1, <1>2, <1>3, <1>4, <1>5, <1>8 DEF Clientes
<1> QED
  BY <1>6, <1>7, <1>8 DEF Clientes

\* ... all of it,
LEMMA NadaCambiaInv ==
    ASSUME InvProtocolo, UNCHANGED vars
    PROVE  InvProtocolo'
<1>0. por' = por /\ cola' = cola /\ mutex_memoria' = mutex_memoria
  BY DEF vars
<1>1. Tipos' /\ cf' = <<>> /\ fc' = <<>>
  <2>1. Tipos'
    BY DEF InvProtocolo, vars, Tipos
  <2> QED
    BY <2>1, NadaCambia DEF InvProtocolo, IgualCF
<1>2. CASE Arranque
  <2>1. "cpu" \in Servidores /\ "fs" \in Servidores
    BY DEF Servidores
  <2>2. Clientes("cpu", "fs")' \/ Clientes("fs", "cpu")'
    BY <1>2, <2>1, NadaCambiaClientes DEF Arranque
  <2>3. NadieMas' /\ SinEmpezar("pedidos_kernel")'
    BY <1>0, <1>2 DEF Arranque, NadieMas, SinEmpezar
  <2>4. /\ kc' = <<>> /\ ck' = <<>> /\ kf' = <<>> /\ fk' = <<>>
        /\ cola'["cpu"] = <<>> /\ cola'["fs"] = <<>>
    BY <1>0, <1>2, NadaCambia DEF Arranque, IgualKC, IgualKF
  <2>5. Arranque'
    BY <2>2, <2>3, <2>4 DEF Arranque
  <2> QED
    BY <1>1, <2>5 DEF InvProtocolo
<1>3. CASE Conexiones
  <2>1. KmListo(<<>>)' /\ mk' = <<>>
    BY <1>3, NadaCambia, MemIgual DEF Conexiones, IgualKM
  <2>2. PedidosCpuQuieto' /\ PedidosFs'
    BY <1>3, NadaCambia, CpuIgual, PedidosFsIgual DEF Conexiones
  <2>3. "cpu" \in Servidores /\ "fs" \in Servidores /\ LosTres
    BY NadaCambia DEF Servidores
  <2>4. Conexiones'
    BY <1>3, <2>1, <2>2, <2>3, LosTresSiguen DEF Conexiones
  <2> QED
    BY <1>1, <2>4 DEF InvProtocolo
<1>4. CASE Marcha
  <2>1. /\ por'["kernel"] = por["kernel"] /\ por'["ready"] = por["ready"]
        /\ por'["desalojo"] = por["desalojo"]
        /\ IgualCpu /\ IgualFs /\ IgualMem /\ IgualPedidosFs
    BY <1>0, NadaCambia
  <2>2. En("kernel", Inicio.kernel, 9)' /\ PedidosFs' /\ MemoriaTermina'
    BY <1>4, <2>1, PedidosFsIgual, MemIgual DEF Marcha, En
  <2>3. /\ DesalojoSinMutex => DesalojoSinMutex'
        /\ DesalojoConMutex => DesalojoConMutex'
    BY <2>1, SinMutexIgual, ConMutexIgual
  <2>4. /\ ReadySinMutex => ReadySinMutex'
        /\ ReadyConMutex => ReadyConMutex'
    BY <2>1, ReadyIgual
  <2>5. /\ MemQuieta => MemQuieta'
        /\ CpuQuieta => CpuQuieta'
        /\ FsQuieto => FsQuieto'
    BY <2>1, MemIgual, CpuIgual, FsIgual
  <2>6. Marcha'
    BY <1>0, <1>4, <2>2, <2>3, <2>4, <2>5 DEF Marcha
  <2> QED
    BY <1>1, <2>6 DEF InvProtocolo
<1> QED
  BY <1>2, <1>3, <1>4 DEF InvProtocolo

\* ... and after every step.
LEMMA PasoInvProtocolo ==
    ASSUME SinPedidosDelFs, SinOtraRespuesta, InvProtocolo, [Next]_vars
    PROVE  InvProtocolo'
<1>1. ASSUME NEW h \in Hilos, Avanza(h)
      PROVE  InvProtocolo'
  <2>1. Tipos' /\ IgualCF /\ (Arranque' \/ Conexiones' \/ Marcha')
    BY <1>1, ArranquePasa, ConexionesPasa, MarchaPasa DEF InvProtocolo
  <2> QED
    BY <2>1 DEF InvProtocolo, IgualCF
<1>2. CASE UNCHANGED vars
  BY <1>2, NadaCambiaInv
<1> QED
  BY <1>1, <1>2 DEF Next

\* The invariant, for any programs that read and write no file, any number of
\* consoles and any order of the threads, while Memoria has room for every
\* segment (manejo_desalojo_pcb and enviar_proceso_a_ready, kernel.c;
\* ejecutar_kernel_pedido and atender_conexiones, memoria.c; atender_kernel,
\* cpu.c; ejecutar_instrucciones_kernel, fileSystem.c).
THEOREM InvProtocoloTeorema ==
    ASSUME SinPedidosDelFs, SinOtraRespuesta
    PROVE  Spec => []InvProtocolo
<1>1. Init => InvProtocolo
  BY InitInvProtocolo
<1>2. InvProtocolo /\ [Next]_vars => InvProtocolo'
  BY PasoInvProtocolo
<1> QED
  BY <1>1, <1>2, PTL DEF Spec

\* It is enough for every thread to read what was sent to it.
LEMMA InvProtocoloLee ==
    ASSUME SinPedidosDelFs, SinOtraRespuesta, InvProtocolo
    PROVE  TodosLeen
BY ArranqueLee, ConexionesLee, MarchaLee DEF InvProtocolo

\* Nobody is out of step with the other end: a switch on recibir_operacion looks
\* at an operation code and recibir_buffer starts at a size (shared.c), in every
\* thread of the four modules and in any order of theirs.
THEOREM SeLeeLoEnviadoTeorema ==
    ASSUME SinPedidosDelFs, SinOtraRespuesta
    PROVE  Spec => []SeLeeLoEnviado
<1>1. InvProtocolo => SeLeeLoEnviado
  <2>1. ASSUME InvProtocolo, NEW h \in Hilos
        PROVE  LeeBien(h)
    BY <2>1, InvProtocoloLee DEF TodosLeen
  <2> QED
    BY <2>1 DEF SeLeeLoEnviado, LeeBien, Llama, Ahora
<1> QED
  BY <1>1, InvProtocoloTeorema, PTL

\* mutex_memoria is enough: the thread that sends a process to READY and the one
\* that attends to the CPU each get from Memoria the answer to its own request.
THEOREM RespuestaPropiaTeorema ==
    ASSUME SinPedidosDelFs, SinOtraRespuesta
    PROVE  Spec => []RespuestaPropia
<1>1. InvProtocolo => RespuestaPropia
  <2>1. ASSUME InvProtocolo
        PROVE  LeeLoSuyo("ready") /\ LeeLoSuyo("desalojo")
    BY <2>1, InvProtocoloLee DEF TodosLeen
  <2> QED
    BY <2>1 DEF RespuestaPropia, LeeLoSuyo, mk
<1> QED
  BY <1>1, InvProtocoloTeorema, PTL

\* The handlers read all the words that they are sent, the zero after each
\* operation included: when every thread starts its loop again only the zero
\* that the FileSystem sent to present itself is left.
THEOREM NadaDeMasTeorema ==
    ASSUME SinPedidosDelFs, SinOtraRespuesta
    PROVE  Spec => []NadaDeMas
<1>1. InvProtocolo => NadaDeMas
  BY TodosEnSuBucle DEF InvProtocolo
<1> QED
  BY <1>1, InvProtocoloTeorema, PTL
=============================================================================

---------------------------- MODULE Planificador ----------------------------
(***************************************************************************)
(* The kernel's planner (modules/kernel/src/kernel.c): one thread per      *)
(* console, the thread enviar_proceso_a_ready, the dispatcher              *)
(* _planificador_corto_plazo and the thread manejo_desalojo_pcb, with the  *)
(* lists, semaphores and mutexes they share.                               *)
(*                                                                         *)
(* A step is one semaphore operation, or the list operations of a thread   *)
(* between two of them.  The list semaphores of READY, EXECUTING and       *)
(* BLOCKED protect single list operations, so they are part of the step;   *)
(* NEW's is a variable because enviar_proceso_a_ready keeps it while it    *)
(* waits for the degree of multiprogramming.                               *)
(*                                                                         *)
(* A process runs the instructions of its program that reach the kernel;   *)
(* what the CPU does between two of them (SET, MOV_IN, MOV_OUT) is not     *)
(* seen from here, except a segmentation fault, which a program shows as   *)
(* the operation SEGMENTATION_FAULT.                                       *)
(***************************************************************************)
EXTENDS Integers, Sequences, FiniteSets

CONSTANTS
    Procesos,          \* the PCBs, one for each console that may connect
    Nadie,             \* no PCB
    Programas,         \* the lists of instructions a console may send
    Recursos,          \* RECURSOS of the configuration
    Instancias,        \* INSTANCIAS_RECURSOS
    Archivos,          \* names of files
    Grado,             \* GRADO_MAX_MULTIPROGRAMACION
    Algoritmo,         \* ALGORITMO_PLANIFICACION
    RespuestasMemoria  \* what Memoria may answer to a CREATE_SEGMENT

Operaciones ==
    {"YIELD", "IO", "WAIT", "SIGNAL", "EXIT", "SEGMENTATION_FAULT",
     "F_OPEN", "F_CLOSE", "F_SEEK", "F_READ", "F_WRITE", "TRUNCATE",
     "CREATE_SEGMENT", "DELETE_SEGMENT"}

DeArchivo == {"F_OPEN", "F_CLOSE", "F_SEEK", "F_READ", "F_WRITE", "TRUNCATE"}

\* The argument is a resource, a file, or a name that is neither.
Instrucciones == [op : Operaciones, arg : STRING]

ASSUME ProcesosAssumption == Nadie \notin Procesos
ASSUME ProgramasAssumption ==
    \A programa \in Programas :
        /\ programa \in Seq(Instrucciones)
        /\ \A i \in DOMAIN programa :
              programa[i].op \in DeArchivo => programa[i].arg \in Archivos
ASSUME RecursosAssumption ==
    Recursos \subseteq STRING /\ Instancias \in [Recursos -> Nat]
ASSUME GradoAssumption == Grado \in Nat
ASSUME AlgoritmoAssumption == Algoritmo \in {"FIFO", "HRRN"}
ASSUME MemoriaAssumption ==
    RespuestasMemoria \subseteq {"AUX_OK", "COMPACTACION", "OUT_OF_MEMORY"}

Estados == {"NEW", "READY", "EXECUTING", "BLOCKED"}

VARIABLES
    programa,            \* what each console sends, its lista_instrucciones
    contador,            \* contador_instrucciones of each PCB
    consola,             \* where the thread of each console is
    largo,               \* enviar_proceso_a_ready: where it is, and its pcb
    corto,               \* _planificador_corto_plazo
    desalojo,            \* manejo_desalojo_pcb
    lista_estados,
    finalizados,         \* the PCBs terminar_proceso destroyed
    sem,                 \* the value of each semaphore
    executing,           \* sem_proceso_a_executing is unlocked
    instancias,          \* of each resource
    procesos_bloqueados, \* of each resource
    archivos_abiertos,   \* lista_archivos_abiertos of each PCB
    tabla_archivos,      \* the names in tablaArchivosAbiertos
    lista_procesos,      \* of each file of tablaArchivosAbiertos
    semaforo_estado,     \* of each file of tablaArchivosAbiertos
    mutex_memoria,       \* left locked when no exchange with Memoria goes on
    respuestas,          \* whether the next answer read is the next one sent
    kernel               \* "vivo", or "caido" after a NULL dereference

hilos == <<consola, largo, corto, desalojo>>
pcbs == <<programa, contador>>
recursos == <<instancias, procesos_bloqueados>>
archivos == <<archivos_abiertos, tabla_archivos, lista_procesos,
              semaforo_estado>>
semaforos == <<sem, executing>>
memoria == <<mutex_memoria, respuestas>>
vars == <<pcbs, hilos, lista_estados, finalizados, semaforos, recursos,
          archivos, memoria, kernel>>

Hilo(pc, pcb) == [pc |-> pc, pcb |-> pcb]

PcLargo ==
    {"inicializar", "new", "memoria", "grado", "ready", "soltar", "terminado"}
PcCorto == {"cpu", "terminado", "elegir", "agregar", "unlock"}

\* Where manejo_desalojo_pcb is: in its loop, in a handler, or (the labels
\* post_ and unlock_) at the operations a handler still has to do, in order.
PcDesalojo ==
    {"lock", "pop", "cpu", "manejo",
     "io", "truncate", "fs_truncate", "fs", "espera_archivo",
     "despertar", "reintentar",
     "post_cpu", "post_cpu_ready", "post_cpu_grado",
     "post_ready", "post_ready_cpu", "post_grado",
     "unlock", "unlock_cpu", "unlock_despertar", "unlock_reintentar"}

\* sem_lista_estados[ENUM_NEW], sem_proceso_a_ready_inicializar,
\* sem_proceso_a_ready_terminado, sem_grado_multiprogamacion and
\* sem_cpu_disponible
Semaforos == {"new", "inicializar", "terminado", "grado", "cpu"}

\* What the kernel will read next from its connection with Memoria: the answer
\* to what it sends; first the zero of an OUT_OF_MEMORY, which it never reads;
\* or anything, once that zero has shifted the reading of a segment table.
Respuestas == {"al_dia", "atrasadas", "desfasadas"}

TypeOK ==
    /\ programa \in [Procesos -> Programas]
    /\ contador \in [Procesos -> Nat]
    /\ consola \in [Procesos -> {"fuera", "agregar", "post", "fin"}]
    /\ largo \in [pc : PcLargo, pcb : Procesos \cup {Nadie}]
    /\ corto \in [pc : PcCorto, pcb : Procesos \cup {Nadie}]
    /\ desalojo \in [pc : PcDesalojo, pcb : Procesos \cup {Nadie}]
    /\ lista_estados \in [Estados -> Seq(Procesos)]
    /\ finalizados \subseteq Procesos
    /\ sem \in [Semaforos -> Nat]
    /\ executing \in BOOLEAN
    /\ instancias \in [Recursos -> Nat]
    /\ procesos_bloqueados \in [Recursos -> Seq(Procesos)]
    /\ archivos_abiertos \in [Procesos -> SUBSET Archivos]
    /\ tabla_archivos \subseteq Archivos
    /\ lista_procesos \in [Archivos -> Seq(Procesos)]
    /\ semaforo_estado \in [Archivos -> Nat]
    /\ mutex_memoria \in BOOLEAN
    /\ respuestas \in Respuestas
    /\ kernel \in {"vivo", "caido"}

Init ==
    /\ programa \in [Procesos -> Programas]
    /\ contador = [p \in Procesos |-> 0]
    /\ consola = [p \in Procesos |-> "fuera"]
    /\ largo = Hilo("inicializar", Nadie)
    /\ corto = Hilo("cpu", Nadie)
    /\ desalojo = Hilo("lock", Nadie)
    /\ lista_estados = [e \in Estados |-> <<>>]
    /\ finalizados = {}
    /\ sem = [new |-> 1, inicializar |-> 0, terminado |-> 0, grado |-> Grado,
              cpu |-> 1]
    /\ executing = FALSE
    /\ instancias = Instancias
    /\ procesos_bloqueados = [r \in Recursos |-> <<>>]
    /\ archivos_abiertos = [p \in Procesos |-> {}]
    /\ tabla_archivos = {}
    /\ lista_procesos = [f \in Archivos |-> <<>>]
    /\ semaforo_estado = [f \in Archivos |-> 0]
    /\ mutex_memoria = FALSE
    /\ respuestas = "al_dia"
    /\ kernel = "vivo"

-----------------------------------------------------------------------------
(* Lists. *)

\* Mutant: list_get where list_remove is meant.
SinQuitar(s, i) == s

\* The list without its element at position i (list_remove).
SinPosicion(s, i) ==
    [j \in 1 .. (Len(s) - 1) |-> IF j < i THEN s[j] ELSE s[j + 1]]

\* agregar_a_lista_con_sem
Agregar(p, e) ==
    lista_estados' = [lista_estados EXCEPT ![e] = Append(@, p)]

Posicion(s, p) == CHOOSE i \in DOMAIN s : s[i] = p

\* Mutant: the PCB is read from the list and not removed.
MoverSinQuitar(p, e1, e2) ==
    lista_estados' = [lista_estados EXCEPT ![e2] = Append(@, p)]

\* mover_de_lista_con_sem and cambiar_estado_proceso_sin_semaforos: p is in
\* the list e1, which UnSoloLugar checks.
Mover(p, e1, e2) ==
    lista_estados' = [lista_estados EXCEPT
                        ![e1] = SinPosicion(@, Posicion(@, p)),
                        ![e2] = Append(@, p)]

\* sem_post, and sem_wait of a semaphore that is not 0
Post(s) == sem' = [sem EXCEPT ![s] = @ + 1]
Espera(s) == sem[s] > 0 /\ sem' = [sem EXCEPT ![s] = @ - 1]

\* A step of a kernel that is alive, and one that dereferences NULL.
Vive == kernel = "vivo" /\ kernel' = "vivo"
Caer == kernel' = "caido"

-----------------------------------------------------------------------------
(* Consoles: recibir_de_consola and nuevo_proceso. *)

\* A console connects and its list of instructions arrives.
RecibirDeConsola(p) ==
    /\ Vive
    /\ consola[p] = "fuera"
    /\ consola' = [consola EXCEPT ![p] = "agregar"]
    /\ UNCHANGED <<pcbs, largo, corto, desalojo, lista_estados, finalizados,
                   semaforos, recursos, archivos, memoria>>

AgregarNew(p) ==
    /\ Vive
    /\ consola[p] = "agregar"
    /\ sem["new"] > 0
    /\ Agregar(p, "NEW")
    /\ consola' = [consola EXCEPT ![p] = "post"]
    /\ UNCHANGED <<pcbs, largo, corto, desalojo, finalizados, semaforos,
                   recursos, archivos, memoria>>

PostInicializar(p) ==
    /\ Vive
    /\ consola[p] = "post"
    /\ Post("inicializar")
    /\ consola' = [consola EXCEPT ![p] = "fin"]
    /\ UNCHANGED <<pcbs, largo, corto, desalojo, lista_estados, finalizados,
                   recursos, archivos, executing, memoria>>

-----------------------------------------------------------------------------
(* enviar_proceso_a_ready *)

EsperarInicializar ==
    /\ Vive
    /\ largo.pc = "inicializar"
    /\ Espera("inicializar")
    /\ largo' = Hilo("new", Nadie)
    /\ UNCHANGED <<pcbs, consola, corto, desalojo, lista_estados, finalizados,
                   recursos, archivos, executing, memoria>>

\* Takes NEW's semaphore and looks at the first PCB of NEW.
TomarNew ==
    /\ kernel = "vivo"
    /\ largo.pc = "new"
    /\ Espera("new")
    /\ IF lista_estados["NEW"] = <<>>
       THEN Caer /\ UNCHANGED largo
       ELSE largo' = Hilo("memoria", Head(lista_estados["NEW"]))
            /\ UNCHANGED kernel
    /\ UNCHANGED <<pcbs, consola, corto, desalojo, lista_estados, finalizados,
                   recursos, archivos, executing, memoria>>

\* Has Memoria make the segment table of the PCB (AUX_CREATE_PCB), with
\* mutex_memoria locked.  The answer is not looked at: when a zero is before
\* it, its operation and its size are taken for the size and for the number of
\* segments, and the end of the table stays in the connection.
CrearPcb ==
    /\ Vive
    /\ largo.pc = "memoria"
    /\ ~mutex_memoria
    /\ largo' = Hilo("grado", largo.pcb)
    /\ respuestas' = IF respuestas = "al_dia" THEN "al_dia" ELSE "desfasadas"
    /\ UNCHANGED <<pcbs, consola, corto, desalojo, lista_estados, finalizados,
                   semaforos, recursos, archivos, mutex_memoria>>

EsperarGrado ==
    /\ Vive
    /\ largo.pc = "grado"
    /\ Espera("grado")
    /\ largo' = Hilo("ready", largo.pcb)
    /\ UNCHANGED <<pcbs, consola, corto, desalojo, lista_estados, finalizados,
                   recursos, archivos, executing, memoria>>

MoverAReady ==
    /\ Vive
    /\ largo.pc = "ready"
    /\ Mover(largo.pcb, "NEW", "READY")
    /\ largo' = Hilo("soltar", largo.pcb)
    /\ UNCHANGED <<pcbs, consola, corto, desalojo, finalizados, semaforos,
                   recursos, archivos, memoria>>

SoltarNew ==
    /\ Vive
    /\ largo.pc = "soltar"
    /\ Post("new")
    /\ largo' = Hilo("terminado", Nadie)
    /\ UNCHANGED <<pcbs, consola, corto, desalojo, lista_estados, finalizados,
                   recursos, archivos, executing, memoria>>

PostTerminado ==
    /\ Vive
    /\ largo.pc = "terminado"
    /\ Post("terminado")
    /\ largo' = Hilo("inicializar", Nadie)
    /\ UNCHANGED <<pcbs, consola, corto, desalojo, lista_estados, finalizados,
                   recursos, archivos, executing, memoria>>

-----------------------------------------------------------------------------
(* The dispatcher: the loop of _planificador_corto_plazo *)

EsperarCpu ==
    /\ Vive
    /\ corto.pc = "cpu"
    /\ Espera("cpu")
    /\ corto' = Hilo("terminado", Nadie)
    /\ UNCHANGED <<pcbs, consola, largo, desalojo, lista_estados, finalizados,
                   recursos, archivos, executing, memoria>>

EsperarTerminado ==
    /\ Vive
    /\ corto.pc = "terminado"
    /\ Espera("terminado")
    /\ corto' = Hilo("elegir", Nadie)
    /\ UNCHANGED <<pcbs, consola, largo, desalojo, lista_estados, finalizados,
                   recursos, archivos, executing, memoria>>

\* The positions of READY the algorithm may choose.  The response ratios of
\* HRRN depend on times measured in seconds: here any PCB may have the highest.
Elegibles == IF Algoritmo = "FIFO" THEN {1}
                                   ELSE DOMAIN lista_estados["READY"]

\* elegir_pcb_segun_fifo, elegir_pcb_segun_hrrn
Elegir ==
    /\ kernel = "vivo"
    /\ corto.pc = "elegir"
    /\ IF lista_estados["READY"] = <<>>
       THEN Caer /\ UNCHANGED <<corto, lista_estados>>
       ELSE \E i \in Elegibles :
               /\ corto' = Hilo("agregar", lista_estados["READY"][i])
               /\ lista_estados' = [lista_estados EXCEPT
                                       !["READY"] = SinPosicion(@, i)]
               /\ UNCHANGED kernel
    /\ UNCHANGED <<pcbs, consola, largo, desalojo, finalizados, semaforos,
                   recursos, archivos, memoria>>

\* Mutant: the dispatcher does not unlock sem_proceso_a_executing.
AgregarSinAvisar ==
    /\ Vive
    /\ corto.pc = "agregar"
    /\ Agregar(corto.pcb, "EXECUTING")
    /\ corto' = Hilo("cpu", Nadie)
    /\ UNCHANGED <<pcbs, consola, largo, desalojo, finalizados, semaforos,
                   recursos, archivos, memoria>>

AgregarExecuting ==
    /\ Vive
    /\ corto.pc = "agregar"
    /\ Agregar(corto.pcb, "EXECUTING")
    /\ corto' = Hilo("unlock", Nadie)
    /\ UNCHANGED <<pcbs, consola, largo, desalojo, finalizados, semaforos,
                   recursos, archivos, memoria>>

\* The mutex is used as a signal: unlocking it twice leaves it unlocked once.
UnlockExecuting ==
    /\ Vive
    /\ corto.pc = "unlock"
    /\ executing' = TRUE
    /\ corto' = Hilo("cpu", Nadie)
    /\ UNCHANGED <<pcbs, consola, largo, desalojo, lista_estados, finalizados,
                   recursos, archivos, sem, memoria>>

-----------------------------------------------------------------------------
(* manejo_desalojo_pcb: its loop *)

LockExecuting ==
    /\ Vive
    /\ desalojo.pc = "lock"
    /\ executing
    /\ executing' = FALSE
    /\ desalojo' = Hilo("pop", Nadie)
    /\ UNCHANGED <<pcbs, consola, largo, corto, lista_estados, finalizados,
                   recursos, archivos, sem, memoria>>

\* The first PCB of EXECUTING is sent to the CPU.
EnviarACpu ==
    /\ kernel = "vivo"
    /\ desalojo.pc = "pop"
    /\ IF lista_estados["EXECUTING"] = <<>>
       THEN Caer /\ UNCHANGED <<desalojo, lista_estados>>
       ELSE /\ desalojo' = Hilo("cpu", Head(lista_estados["EXECUTING"]))
            /\ lista_estados' = [lista_estados EXCEPT !["EXECUTING"] = Tail(@)]
            /\ UNCHANGED kernel
    /\ UNCHANGED <<pcbs, consola, largo, corto, finalizados, semaforos,
                   recursos, archivos, memoria>>

\* The CPU returns the PCB at the next instruction that needs the kernel.  A
\* program that ends without one makes the kernel decode an instruction
\* that does not exist.
RecibirDeCpu ==
    /\ kernel = "vivo"
    /\ desalojo.pc = "cpu"
    /\ IF contador[desalojo.pcb] = Len(programa[desalojo.pcb])
       THEN Caer /\ UNCHANGED <<contador, desalojo>>
       ELSE /\ contador' = [contador EXCEPT ![desalojo.pcb] = @ + 1]
            /\ desalojo' = Hilo("manejo", desalojo.pcb)
            /\ UNCHANGED kernel
    /\ UNCHANGED <<programa, consola, largo, corto, lista_estados, finalizados,
                   semaforos, recursos, archivos, memoria>>

\* The instruction the PCB was evicted at, and its argument.
Instruccion == programa[desalojo.pcb][contador[desalojo.pcb]]
Arg == Instruccion.arg

\* manejo_instrucciones takes the case of an operation.
Maneja(operaciones) ==
    desalojo.pc = "manejo" /\ Instruccion.op \in operaciones

\* Where the thread goes when it still needs the PCB, and when it does not.
Sigue(pc) == desalojo' = Hilo(pc, desalojo.pcb)
Deja(pc) == desalojo' = Hilo(pc, Nadie)

\* Mutant: the degree of multiprogramming is not given back.
TerminarSinGrado ==
    /\ finalizados' = finalizados \cup {desalojo.pcb}
    /\ Deja("post_cpu")

\* terminar_proceso: destroys the PCB; the posts of sem_cpu_disponible and
\* sem_grado_multiprogamacion are the next steps.
TerminarProceso ==
    /\ finalizados' = finalizados \cup {desalojo.pcb}
    /\ Deja("post_cpu_grado")

-----------------------------------------------------------------------------
(* manejo_desalojo_pcb: what a handler does after its list operations *)

\* Mutants: an I/O that does not post sem_proceso_a_ready_terminado, handlers
\* that post it twice, and a WAIT that gives the CPU back and goes on using it.
SinPostReady == [post_cpu |-> "lock", post_cpu_ready |-> "lock",
                 post_cpu_grado |-> "post_grado", truncate |-> "fs_truncate"]
PostReadyDoble == [post_ready |-> "post_ready_cpu", post_ready_cpu |-> "lock",
                   espera_archivo |-> "lock"]
UnlockConPost == [unlock |-> "post_cpu", unlock_cpu |-> "post_cpu",
                  unlock_despertar |-> "despertar",
                  unlock_reintentar |-> "reintentar"]

\* What is left to do after a post of sem_cpu_disponible, of
\* sem_proceso_a_ready_terminado, and after unlocking the mutex.
TrasCpu == [post_cpu |-> "lock", post_cpu_ready |-> "post_ready",
            post_cpu_grado |-> "post_grado", truncate |-> "fs_truncate"]
TrasReady == [post_ready |-> "lock", post_ready_cpu |-> "post_cpu",
              espera_archivo |-> "lock"]
TrasUnlock == [unlock |-> "lock", unlock_cpu |-> "post_cpu",
               unlock_despertar |-> "despertar",
               unlock_reintentar |-> "reintentar"]

PostCpu ==
    /\ Vive
    /\ desalojo.pc \in DOMAIN TrasCpu
    /\ Post("cpu")
    /\ Sigue(TrasCpu[desalojo.pc])
    /\ UNCHANGED <<pcbs, consola, largo, corto, lista_estados, finalizados,
                   recursos, archivos, executing, memoria>>

\* Before its post, F_OPEN of an open file waits for the file's semaphore.
PostReady ==
    /\ Vive
    /\ desalojo.pc \in DOMAIN TrasReady
    /\ desalojo.pc = "espera_archivo" => semaforo_estado[Arg] > 0
    /\ semaforo_estado' = IF desalojo.pc = "espera_archivo"
                          THEN [semaforo_estado EXCEPT ![Arg] = @ - 1]
                          ELSE semaforo_estado
    /\ Post("terminado")
    /\ desalojo' = Hilo(TrasReady[desalojo.pc], Nadie)
    /\ UNCHANGED <<pcbs, consola, largo, corto, lista_estados, finalizados,
                   recursos, archivos_abiertos, tabla_archivos, lista_procesos,
                   executing, memoria>>

PostGrado ==
    /\ Vive
    /\ desalojo.pc = "post_grado"
    /\ Post("grado")
    /\ Deja("lock")
    /\ UNCHANGED <<pcbs, consola, largo, corto, lista_estados, finalizados,
                   recursos, archivos, executing, memoria>>

Unlock ==
    /\ Vive
    /\ desalojo.pc \in DOMAIN TrasUnlock
    /\ executing' = TRUE
    /\ Sigue(TrasUnlock[desalojo.pc])
    /\ UNCHANGED <<pcbs, consola, largo, corto, lista_estados, finalizados,
                   recursos, archivos, sem, memoria>>

-----------------------------------------------------------------------------
(* manejo_instrucciones: one action for each case *)

Yield ==
    /\ Vive
    /\ Maneja({"YIELD"})
    /\ Agregar(desalojo.pcb, "READY")
    /\ Deja("post_cpu_ready")
    /\ UNCHANGED <<pcbs, consola, largo, corto, finalizados, semaforos,
                   recursos, archivos, memoria>>

Exit ==
    /\ Vive
    /\ Maneja({"EXIT", "SEGMENTATION_FAULT"})
    /\ TerminarProceso
    /\ UNCHANGED <<pcbs, consola, largo, corto, lista_estados, semaforos,
                   recursos, archivos, memoria>>

\* I_IO sleeps in this thread, with the PCB in BLOCKED ...
Io ==
    /\ Vive
    /\ Maneja({"IO"})
    /\ Agregar(desalojo.pcb, "BLOCKED")
    /\ Sigue("io")
    /\ UNCHANGED <<pcbs, consola, largo, corto, finalizados, semaforos,
                   recursos, archivos, memoria>>

\* ... and then removes the first of BLOCKED, whoever it is.
FinIo ==
    /\ Vive
    /\ desalojo.pc = "io"
    /\ lista_estados' = [lista_estados EXCEPT
                            !["BLOCKED"] = Tail(@),
                            !["READY"] = Append(@, desalojo.pcb)]
    /\ Deja("post_cpu_ready")
    /\ UNCHANGED <<pcbs, consola, largo, corto, finalizados, semaforos,
                   recursos, archivos, memoria>>

\* instruccion_wait with an instance left: the process goes on executing.
Wait ==
    /\ Vive
    /\ Maneja({"WAIT"})
    /\ Arg \in Recursos
    /\ instancias[Arg] - 1 >= 0
    /\ instancias' = [instancias EXCEPT ![Arg] = @ - 1]
    /\ Agregar(desalojo.pcb, "EXECUTING")
    /\ Deja("unlock")
    /\ UNCHANGED <<pcbs, consola, largo, corto, finalizados, semaforos,
                   procesos_bloqueados, archivos, memoria>>

\* Mutant: the count is not set to 0 again.
WaitSinReponer ==
    /\ Vive
    /\ Maneja({"WAIT"})
    /\ Arg \in Recursos
    /\ instancias[Arg] - 1 < 0
    /\ procesos_bloqueados' = [procesos_bloqueados EXCEPT
                                 ![Arg] = Append(@, desalojo.pcb)]
    /\ instancias' = [instancias EXCEPT ![Arg] = @ - 1]
    /\ Deja("post_cpu")
    /\ UNCHANGED <<pcbs, consola, largo, corto, lista_estados, finalizados,
                   semaforos, archivos, memoria>>

\* instruccion_wait without one: the process joins the resource's queue and
\* the count, which has become -1, is set to 0 again.
WaitBloquea ==
    /\ Vive
    /\ Maneja({"WAIT"})
    /\ Arg \in Recursos
    /\ instancias[Arg] - 1 < 0
    /\ procesos_bloqueados' = [procesos_bloqueados EXCEPT
                                 ![Arg] = Append(@, desalojo.pcb)]
    /\ instancias' = [instancias EXCEPT ![Arg] = 0]
    /\ Deja("post_cpu")
    /\ UNCHANGED <<pcbs, consola, largo, corto, lista_estados, finalizados,
                   semaforos, archivos, memoria>>

\* instruccion_signal: the process goes on executing, then ...
Signal ==
    /\ Vive
    /\ Maneja({"SIGNAL"})
    /\ Arg \in Recursos
    /\ instancias' = [instancias EXCEPT ![Arg] = @ + 1]
    /\ Agregar(desalojo.pcb, "EXECUTING")
    /\ Sigue("unlock_despertar")
    /\ UNCHANGED <<pcbs, consola, largo, corto, finalizados, semaforos,
                   procesos_bloqueados, archivos, memoria>>

\* ... the first process blocked by the resource, if any, becomes ready; the
\* instance that was returned stays available.
Despertar ==
    /\ Vive
    /\ desalojo.pc = "despertar"
    /\ IF procesos_bloqueados[Arg] = <<>>
       THEN Deja("lock") /\ UNCHANGED <<lista_estados, procesos_bloqueados>>
       ELSE /\ Agregar(Head(procesos_bloqueados[Arg]), "READY")
            /\ procesos_bloqueados' = [procesos_bloqueados EXCEPT
                                         ![Arg] = Tail(@)]
            /\ Deja("post_ready")
    /\ UNCHANGED <<pcbs, consola, largo, corto, finalizados, semaforos,
                   instancias, archivos, memoria>>

\* WAIT and SIGNAL of a resource that the configuration does not have
RecursoInexistente ==
    /\ Vive
    /\ Maneja({"WAIT", "SIGNAL"})
    /\ Arg \notin Recursos
    /\ TerminarProceso
    /\ UNCHANGED <<pcbs, consola, largo, corto, lista_estados, semaforos,
                   recursos, archivos, memoria>>

\* I_F_OPEN of a file that some process has open: the PCB joins the file's
\* list and this thread waits for the file's semaphore.
FOpenBloquea ==
    /\ Vive
    /\ Maneja({"F_OPEN"})
    /\ Arg \in tabla_archivos
    /\ Agregar(desalojo.pcb, "BLOCKED")
    /\ lista_procesos' = [lista_procesos EXCEPT ![Arg] =
                            Append(@, desalojo.pcb)]
    /\ Sigue("espera_archivo")
    /\ UNCHANGED <<pcbs, consola, largo, corto, finalizados, semaforos,
                   recursos, archivos_abiertos, tabla_archivos,
                   semaforo_estado, memoria>>

\* Otherwise FileSystem opens the file, or creates it, and the process goes
\* on executing; sem_cpu_disponible is posted all the same.
FOpen ==
    /\ Vive
    /\ Maneja({"F_OPEN"})
    /\ Arg \notin tabla_archivos
    /\ tabla_archivos' = tabla_archivos \cup {Arg}
    /\ lista_procesos' = [lista_procesos EXCEPT ![Arg] = <<>>]
    /\ semaforo_estado' = [semaforo_estado EXCEPT ![Arg] = 0]
    /\ archivos_abiertos' = [archivos_abiertos EXCEPT ![desalojo.pcb] =
                               @ \cup {Arg}]
    /\ Agregar(desalojo.pcb, "EXECUTING")
    /\ Deja("unlock_cpu")
    /\ UNCHANGED <<pcbs, consola, largo, corto, finalizados, semaforos,
                   recursos, memoria>>

\* I_F_CLOSE.  list_remove_element looks for the name among the entries of
\* lista_archivos_abiertos and removes nothing.
FClose ==
    /\ Vive
    /\ Maneja({"F_CLOSE"})
    /\ Arg \in tabla_archivos
    /\ IF lista_procesos[Arg] # <<>>
       THEN /\ lista_estados' = [lista_estados EXCEPT
                 !["BLOCKED"] =
                    SinPosicion(@, Posicion(@, Head(lista_procesos[Arg]))),
                 !["READY"] = Append(@, Head(lista_procesos[Arg])),
                 !["EXECUTING"] = Append(@, desalojo.pcb)]
            /\ lista_procesos' = [lista_procesos EXCEPT ![Arg] = Tail(@)]
            /\ semaforo_estado' = [semaforo_estado EXCEPT ![Arg] = @ + 1]
            /\ UNCHANGED tabla_archivos
       ELSE /\ tabla_archivos' = tabla_archivos \ {Arg}
            /\ Agregar(desalojo.pcb, "EXECUTING")
            /\ UNCHANGED <<lista_procesos, semaforo_estado>>
    /\ Deja("unlock_cpu")
    /\ UNCHANGED <<pcbs, consola, largo, corto, finalizados, semaforos,
                   recursos, archivos_abiertos, memoria>>

\* I_F_SEEK: the position of the file is not part of this module.
FSeek ==
    /\ Vive
    /\ Maneja({"F_SEEK"})
    /\ Arg \in archivos_abiertos[desalojo.pcb]
    /\ Agregar(desalojo.pcb, "EXECUTING")
    /\ Deja("unlock_cpu")
    /\ UNCHANGED <<pcbs, consola, largo, corto, finalizados, semaforos,
                   recursos, archivos, memoria>>

\* I_F_READ and I_F_WRITE: the PCB waits in BLOCKED for FileSystem's answer.
FReadWrite ==
    /\ Vive
    /\ Maneja({"F_READ", "F_WRITE"})
    /\ Arg \in archivos_abiertos[desalojo.pcb]
    /\ Agregar(desalojo.pcb, "BLOCKED")
    /\ Sigue("fs")
    /\ UNCHANGED <<pcbs, consola, largo, corto, finalizados, semaforos,
                   recursos, archivos, memoria>>

\* A file operation that uses the entry of a file that is not open
ArchivoNoAbierto ==
    /\ kernel = "vivo"
    /\ \/ Maneja({"F_CLOSE"}) /\ Arg \notin tabla_archivos
       \/ /\ Maneja({"F_SEEK", "F_READ", "F_WRITE"})
          /\ Arg \notin archivos_abiertos[desalojo.pcb]
    /\ Caer
    /\ UNCHANGED <<pcbs, hilos, lista_estados, finalizados, semaforos,
                   recursos, archivos, memoria>>

\* I_TRUNCATE posts sem_cpu_disponible before it calls FileSystem.
Truncate ==
    /\ Vive
    /\ Maneja({"TRUNCATE"})
    /\ Agregar(desalojo.pcb, "BLOCKED")
    /\ Sigue("truncate")
    /\ UNCHANGED <<pcbs, consola, largo, corto, finalizados, semaforos,
                   recursos, archivos, memoria>>

\* FileSystem has answered.
FinFs ==
    /\ Vive
    /\ desalojo.pc \in {"fs", "fs_truncate"}
    /\ Mover(desalojo.pcb, "BLOCKED", "READY")
    /\ Deja(IF desalojo.pc = "fs" THEN "post_ready_cpu" ELSE "post_ready")
    /\ UNCHANGED <<pcbs, consola, largo, corto, finalizados, semaforos,
                   recursos, archivos, memoria>>

\* manejo_instrucciones is at mutex_memoria: an exchange with Memoria is one
\* step, and the mutex a thread finds locked is one nobody will unlock.
PideSegmento ==
    Maneja({"CREATE_SEGMENT", "DELETE_SEGMENT"}) \/ desalojo.pc = "reintentar"

\* What a CREATE_SEGMENT may read for an answer: OTRA is a word of no branch.
Contestaciones ==
    [al_dia |-> RespuestasMemoria, atrasadas |-> {"OTRA"},
     desfasadas |-> {"AUX_OK", "COMPACTACION", "OUT_OF_MEMORY", "OTRA"}]

\* I_CREATE_SEGMENT.  After a COMPACTACION the mutex is unlocked and the case
\* runs once more; when it asks for another one the PCB is forgotten.  After an
\* OUT_OF_MEMORY the zero that follows stays in the connection; a word of no
\* branch leaves mutex_memoria locked, and the case runs once more into it.
CreateSegment ==
    /\ Vive
    /\ Maneja({"CREATE_SEGMENT"}) \/ desalojo.pc = "reintentar"
    /\ ~mutex_memoria
    /\ \E respuesta \in Contestaciones[respuestas] :
          \/ /\ respuesta = "AUX_OK"
             /\ Agregar(desalojo.pcb, "EXECUTING")
             /\ Deja("unlock")
             /\ UNCHANGED <<finalizados, memoria>>
          \/ /\ respuesta = "COMPACTACION"
             /\ IF desalojo.pc = "reintentar" THEN Deja("unlock")
                                              ELSE Sigue("unlock_reintentar")
             /\ UNCHANGED <<lista_estados, finalizados, memoria>>
          \/ /\ respuesta = "OUT_OF_MEMORY"
             /\ TerminarProceso
             /\ respuestas' = IF respuestas = "al_dia" THEN "atrasadas"
                                                       ELSE respuestas
             /\ UNCHANGED <<lista_estados, mutex_memoria>>
          \/ /\ respuesta = "OTRA"
             /\ mutex_memoria' = TRUE
             /\ IF desalojo.pc = "reintentar" THEN Deja("lock")
                                              ELSE Sigue("reintentar")
             /\ UNCHANGED <<lista_estados, finalizados, respuestas>>
    /\ UNCHANGED <<pcbs, consola, largo, corto, semaforos, recursos,
                   archivos>>

\* I_DELETE_SEGMENT unlocks mutex_memoria only when it reads an AUX_OK, which
\* is what Memoria answers; the process goes on executing all the same.
DeleteSegment ==
    /\ Vive
    /\ Maneja({"DELETE_SEGMENT"})
    /\ ~mutex_memoria
    /\ \/ respuestas # "atrasadas" /\ mutex_memoria' = FALSE
       \/ respuestas # "al_dia" /\ mutex_memoria' = TRUE
    /\ Agregar(desalojo.pcb, "EXECUTING")
    /\ Deja("unlock")
    /\ UNCHANGED <<pcbs, consola, largo, corto, finalizados, semaforos,
                   recursos, archivos, respuestas>>

\* A word taken for the size of an answer or for the number of segments of a
\* table: the kernel reads outside of the answer and may die of it, or, in an
\* exchange out of step, waits for bytes nobody sends, with the mutex locked.
RespuestaIlegible ==
    /\ kernel = "vivo"
    /\ ~mutex_memoria
    /\ \/ respuestas # "al_dia" /\ largo.pc = "memoria"
       \/ respuestas = "desfasadas" /\ PideSegmento
    /\ \/ Caer /\ UNCHANGED mutex_memoria
       \/ respuestas = "desfasadas" /\ mutex_memoria' = TRUE /\ UNCHANGED kernel
    /\ UNCHANGED <<pcbs, hilos, lista_estados, finalizados, semaforos,
                   recursos, archivos, respuestas>>

-----------------------------------------------------------------------------
(* The threads and the specification *)

Consola(p) == AgregarNew(p) \/ PostInicializar(p)

Largo ==
    \/ EsperarInicializar
    \/ TomarNew
    \/ CrearPcb
    \/ EsperarGrado
    \/ MoverAReady
    \/ SoltarNew
    \/ PostTerminado

Corto ==
    \/ EsperarCpu
    \/ EsperarTerminado
    \/ Elegir
    \/ AgregarExecuting
    \/ UnlockExecuting

Desalojo ==
    \/ LockExecuting
    \/ EnviarACpu
    \/ RecibirDeCpu
    \/ Yield
    \/ Exit
    \/ Io
    \/ FinIo
    \/ Wait
    \/ WaitBloquea
    \/ Signal
    \/ Despertar
    \/ RecursoInexistente
    \/ FOpenBloquea
    \/ FOpen
    \/ FClose
    \/ FSeek
    \/ FReadWrite
    \/ ArchivoNoAbierto
    \/ Truncate
    \/ FinFs
    \/ CreateSegment
    \/ DeleteSegment
    \/ PostCpu
    \/ PostReady
    \/ PostGrado
    \/ Unlock

Next ==
    \/ \E p \in Procesos : RecibirDeConsola(p) \/ Consola(p)
    \/ Largo
    \/ Corto
    \/ Desalojo
    \/ RespuestaIlegible

\* Every thread is at a semaphore that is 0, or at a mutex that is locked.
\* largo and corto wait at labels that have the names of their semaphores.
Esperan ==
    /\ \A p \in Procesos :
          \/ consola[p] \in {"fuera", "fin"}
          \/ consola[p] = "agregar" /\ sem["new"] = 0
    /\ \/ largo.pc \in {"inicializar", "new", "grado"} /\ sem[largo.pc] = 0
       \/ largo.pc = "memoria" /\ mutex_memoria
    /\ corto.pc \in {"cpu", "terminado"} /\ sem[corto.pc] = 0
    /\ \/ desalojo.pc = "lock" /\ ~executing
       \/ desalojo.pc = "espera_archivo" /\ semaforo_estado[Arg] = 0
       \/ PideSegmento /\ mutex_memoria

Spec == Init /\ [][Next]_vars

\* Every thread that can go on does: pthreads are preemptive and a thread is
\* blocked by a semaphore or a mutex only.  Consoles need not connect.
Fairness ==
    /\ \A p \in Procesos : WF_vars(Consola(p))
    /\ WF_vars(Largo)
    /\ WF_vars(Corto)
    /\ WF_vars(Desalojo)

FairSpec == Spec /\ Fairness

-----------------------------------------------------------------------------
(* Where a PCB is *)

Elementos(s) == {s[i] : i \in DOMAIN s}

\* The PCB manejo_desalojo_pcb holds and no list has.
EnMano == {"cpu", "manejo", "unlock_reintentar", "reintentar"}

\* Every place, list position by list position, where p is.
Lugares(p) ==
    (UNION {{<<e, i>> : i \in {j \in DOMAIN lista_estados[e] :
                                 lista_estados[e][j] = p}} : e \in Estados})
    \cup (UNION {{<<r, i>> : i \in {j \in DOMAIN procesos_bloqueados[r] :
                                 procesos_bloqueados[r][j] = p}} :
                                 r \in Recursos})
    \cup {<<h, 0>> : h \in {x \in {"corto"} :
                               corto.pc = "agregar" /\ corto.pcb = p}}
    \cup {<<h, 0>> : h \in {x \in {"desalojo"} :
                               desalojo.pc \in EnMano /\ desalojo.pcb = p}}
    \cup {<<h, 0>> : h \in {x \in {"finalizados"} : p \in finalizados}}

\* The state of a process as the user sees it.
estado == [p \in Procesos |->
    CASE consola[p] \in {"fuera", "agregar"}               -> "FUERA"
      [] p \in finalizados                                 -> "EXIT"
      [] p \in Elementos(lista_estados["NEW"])             -> "NEW"
      [] p \in Elementos(lista_estados["READY"])
         \/ (corto.pc = "agregar" /\ corto.pcb = p)        -> "READY"
      [] p \in Elementos(lista_estados["BLOCKED"])
         \/ \E r \in Recursos : p \in Elementos(procesos_bloqueados[r])
                                                           -> "BLOCKED"
      [] OTHER                                             -> "EXECUTING"]

CicloDeVida == INSTANCE Ciclo WITH
    estado <- estado, Procesos <- Procesos, Grado <- Grado

Activos == CicloDeVida!Activos

\* 1 when the condition holds.
Uno(condicion) == IF condicion THEN 1 ELSE 0

-----------------------------------------------------------------------------
(* Safety *)

\* No PCB is lost or duplicated by the moves of the four kinds of threads: one
\* that has entered NEW is in one list position, in the hands of one thread,
\* or destroyed.
UnSoloLugar ==
    \A p \in Procesos :
        consola[p] \in {"post", "fin"} => Cardinality(Lugares(p)) = 1

\* sem_proceso_a_ready_terminado counts the PCBs of READY: one for each that is
\* there, except those whose post is still to come or whose token the
\* dispatcher has taken.  So the dispatcher never finds READY empty.
TokensDeReady ==
    Len(lista_estados["READY"]) =
        sem["terminado"]
        + Uno(corto.pc = "elegir")
        + Uno(largo.pc \in {"soltar", "terminado"})
        + Uno(desalojo.pc \in {"post_cpu_ready", "post_ready",
                               "post_ready_cpu"})

\* The token of sem_cpu_disponible is in the semaphore, with the dispatcher,
\* or with a process that executes: there is one CPU.
TokensCpu ==
    sem["cpu"]
    + Uno(corto.pc \in {"terminado", "elegir", "agregar"})
    + Len(lista_estados["EXECUTING"])
    + Uno(desalojo.pc \in EnMano \cup
             {"io", "truncate", "fs", "post_cpu", "post_cpu_ready",
              "post_cpu_grado", "post_ready_cpu"})

UnaCpu == TokensCpu <= 1

\* The degree of multiprogramming is kept: the processes admitted and not
\* destroyed, and the posts and waits of sem_grado_multiprogamacion that are
\* half done, add up to GRADO_MAX_MULTIPROGRAMACION with the semaphore.
GradoExacto ==
    sem["grado"] + Cardinality(Activos) + Uno(largo.pc = "ready")
              + Uno(desalojo.pc \in {"post_cpu_grado", "post_grado"}) = Grado

\* No signal is lost: while a PCB is in EXECUTING, the thread that sends it to
\* the CPU has been woken, or somebody is about to.
SenalDeExecuting ==
    lista_estados["EXECUTING"] # <<>> =>
        \/ executing
        \/ corto.pc = "unlock"
        \/ desalojo.pc \in {"pop"} \cup DOMAIN TrasUnlock

\* The kernel does not dereference NULL.
SinCaida == kernel = "vivo"

\* Only one PCB is in BLOCKED, the one of the handler that waits: that is why
\* I_IO may remove the first of the list without looking at it.
UnicoBloqueado ==
    lista_estados["BLOCKED"] =
        IF desalojo.pc \in {"io", "truncate", "fs_truncate", "fs",
                            "espera_archivo"}
        THEN <<desalojo.pcb>> ELSE <<>>

\* When every thread waits, every process that has not finished waits for a
\* resource, or in NEW while such processes fill the degree; unless an
\* exchange out of step left mutex_memoria locked (see RespuestasAlDia).
SoloRecursosDetienen ==
    kernel = "vivo" /\ Esperan /\ ~mutex_memoria =>
        \A p \in Procesos :
            \/ consola[p] = "fuera"
            \/ estado[p] = "EXIT"
            \/ \E r \in Recursos : p \in Elementos(procesos_bloqueados[r])
            \/ Cardinality({q \in Procesos : \E r \in Recursos :
                   q \in Elementos(procesos_bloqueados[r])}) = Grado

\* mutex_memoria is left locked only after an answer was read out of step,
\* which begins with an OUT_OF_MEMORY that was read halfway.
RespuestasAlDia ==
    /\ mutex_memoria => respuestas # "al_dia"
    /\ "OUT_OF_MEMORY" \notin RespuestasMemoria => respuestas = "al_dia"

\* The WAITs (or SIGNALs) of r that processes have completed: neither the one
\* manejo_desalojo_pcb is about to handle nor those a process is blocked at.
Completas(op, r) ==
    UNION {{p} \X {i \in 1 .. contador[p] :
                       /\ programa[p][i] = [op |-> op, arg |-> r]
                       /\ i = contador[p] =>
                             /\ ~(desalojo.pc = "manejo" /\ desalojo.pcb = p)
                             /\ p \notin Elementos(procesos_bloqueados[r])}
           : p \in Procesos}

\* A resource is a counting semaphore: no more WAITs have been completed than
\* instances there were and SIGNALs returned (instruccion_wait and
\* instruccion_signal).
SemaforoContador ==
    \A r \in Recursos :
        Cardinality(Completas("WAIT", r))
            <= Instancias[r] + Cardinality(Completas("SIGNAL", r))

\* The labels at which manejo_desalojo_pcb still uses the PCB it holds.
ConPcb == {"cpu", "manejo", "io", "truncate", "fs_truncate", "fs",
           "espera_archivo", "despertar", "reintentar", "unlock_despertar",
           "unlock_reintentar"}

\* Every thread that is about to use a PCB has one, the instruction that
\* manejo_instrucciones is about to decode exists, and the handlers that go on
\* after a first step still have a resource or a file for argument.
HilosConPcb ==
    /\ largo.pc \in {"memoria", "grado", "ready"} => largo.pcb \in Procesos
    /\ corto.pc = "agregar" => corto.pcb \in Procesos
    /\ desalojo.pc \in ConPcb => desalojo.pcb \in Procesos
    /\ \A p \in Procesos : contador[p] \in 0 .. Len(programa[p])
    /\ desalojo.pc = "manejo" => contador[desalojo.pcb] > 0
    /\ desalojo.pc \in {"unlock_despertar", "despertar"} => Arg \in Recursos
    /\ desalojo.pc = "espera_archivo" => Arg \in Archivos

\* A process that waits for a file has stopped the only thread that could
\* close it: no semaphore of a file is ever posted.
NadieDespiertaPorArchivo ==
    \A f \in Archivos :
        /\ semaforo_estado[f] = 0
        /\ desalojo.pc # "espera_archivo" => lista_procesos[f] = <<>>

\* What a step needs of the state to keep TokensDeReady and UnicoBloqueado
InvInductivo ==
    /\ TypeOK
    /\ HilosConPcb
    /\ UnicoBloqueado
    /\ NadieDespiertaPorArchivo
    /\ TokensDeReady
    /\ RespuestasAlDia

\* The places of a PCB, the queues of the resources taken as one.
Sitios == Estados \cup {"FUERA", "RECURSO", "CORTO", "DESALOJO", "EXIT"}

Esta(p, s) ==
    \/ s = "FUERA" /\ consola[p] \in {"fuera", "agregar"}
    \/ s \in Estados /\ p \in Elementos(lista_estados[s])
    \/ s = "RECURSO"
       /\ \E r \in Recursos : p \in Elementos(procesos_bloqueados[r])
    \/ s = "CORTO" /\ corto.pc = "agregar" /\ corto.pcb = p
    \/ s = "DESALOJO" /\ desalojo.pc \in EnMano /\ desalojo.pcb = p
    \/ s = "EXIT" /\ p \in finalizados

\* A PCB that a second COMPACTACION left nowhere.
Perdido(p) == \A s \in Sitios : ~Esta(p, s)

UnSitio ==
    \A p \in Procesos : \A s, t \in Sitios : Esta(p, s) /\ Esta(p, t) => s = t

SinRepetidos ==
    /\ \A e \in Estados : \A i, j \in DOMAIN lista_estados[e] :
          lista_estados[e][i] = lista_estados[e][j] => i = j
    /\ \A r, s \in Recursos :
          \A i \in DOMAIN procesos_bloqueados[r],
             j \in DOMAIN procesos_bloqueados[s] :
             procesos_bloqueados[r][i] = procesos_bloqueados[s][j]
                => r = s /\ i = j

\* What a step needs of the state to keep each PCB in one place, and once: that
\* the one enviar_proceso_a_ready saw first in NEW has not moved.
InvSitios ==
    /\ UnSitio
    /\ SinRepetidos
    /\ largo.pc \in {"memoria", "grado", "ready"} => Esta(largo.pcb, "NEW")

\* No program has one of the operations whose handlers post
\* sem_cpu_disponible while the process goes on executing.
SinPostDeMas ==
    \A lista \in Programas : \A i \in DOMAIN lista :
        lista[i].op \notin {"F_OPEN", "F_CLOSE", "F_SEEK"}

\* What a step needs of the state to keep UnaCpu and SenalDeExecuting
InvCpu ==
    UnaCpu /\ SenalDeExecuting /\ desalojo.pc \notin {"unlock_cpu", "espera_archivo"}

\* Whoever loses a PCB gives the CPU back to nobody: nothing is dispatched after.
PerdidoSinCpu == (\E p \in Procesos : Perdido(p)) => TokensCpu = 0

\* Memoria always finds room for a segment, and every program ends in an EXIT and
\* uses no file, unless it truncates it.
Sanos ==
    /\ RespuestasMemoria \subseteq {"AUX_OK"}
    /\ \A lista \in Programas :
          /\ lista # <<>> /\ lista[Len(lista)].op = "EXIT"
          /\ \A i \in DOMAIN lista : lista[i].op \notin DeArchivo \ {"TRUNCATE"}

\* The tokens of sem_proceso_a_executing: each PCB of EXECUTING has been
\* announced, or its thread is about to announce or to take it.
TokensDeExecuting ==
    Len(lista_estados["EXECUTING"]) =
       Uno(executing) + Uno(corto.pc = "unlock")
       + Uno(desalojo.pc \in {"pop", "unlock", "unlock_despertar"})

\* The consoles whose PCB is in NEW and not yet announced
Avisan == {p \in Procesos : consola[p] = "post"}

\* sem_proceso_a_ready_inicializar counts the PCBs of NEW: one for each that is
\* there, except those not yet announced, and the one whose token
\* enviar_proceso_a_ready has taken.
TokensDeNew ==
    /\ IsFiniteSet(Avisan)
    /\ Len(lista_estados["NEW"]) =
          sem["inicializar"]
          + Uno(largo.pc \in {"new", "memoria", "grado", "ready"})
          + Cardinality(Avisan)

\* A process at the end of its program has ended, or is about to.
AlFinTermina ==
    \A p \in Procesos :
        contador[p] = Len(programa[p]) =>
           \/ p \in finalizados
           \/ desalojo.pc = "manejo" /\ desalojo.pcb = p

SinReintento == desalojo.pc \notin {"unlock_reintentar", "reintentar"}

\* What a step needs of the state to keep the kernel alive, when programs are
\* Sanos: each list a thread is about to take a PCB from has one, as many as the
\* tokens of its semaphore, and a process at the end of its program has ended.
InvViva ==
    /\ SinCaida
    /\ SinReintento
    /\ TokensDeExecuting
    /\ TokensDeNew
    /\ AlFinTermina

-----------------------------------------------------------------------------
(* The abstract life cycle, and liveness *)

\* The four threads, with their half-done steps hidden, give each process the
\* life cycle of five states that Ciclo describes.
ImplementaCiclo == CicloDeVida!Spec

\* Every process a console sends ends.
TodosTerminan ==
    \A p \in Procesos : consola[p] # "fuera" ~> p \in finalizados

\* A process that has been dispatched to EXECUTING is sent to the CPU, unless
\* the thread that sends it waits for a file.
DespachadoEjecuta ==
    \A p \in Procesos :
        p \in Elementos(lista_estados["EXECUTING"])
            ~> \/ p \notin Elementos(lista_estados["EXECUTING"])
               \/ desalojo.pc = "espera_archivo"
=============================================================================

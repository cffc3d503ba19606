# A verification of tuki

tuki simulates an operating system with five programs that talk over TCP:
a console submits a list of instructions, the kernel plans processes, the CPU
executes them, the memory server keeps their segments and the file server their
files. This directory has TLA+ modules of it, instances that TLC checks, and
theorems that TLAPS proves. Every definition is taken from the C sources; the
names of operations, lists and semaphores are the sources' own.

## 1. Inventory

| Component | State it keeps | Operations | Talks to |
|---|---|---|---|
| Kernel, planner (`kernel.c`) | `lista_estados` (NEW, READY, EXECUTING, BLOCKED), the PCBs, six semaphores, the mutex `sem_proceso_a_executing` | `recibir_de_consola`, `nuevo_proceso`, `enviar_proceso_a_ready`, `_planificador_corto_plazo`, `manejo_desalojo_pcb`, `manejo_instrucciones`, `terminar_proceso` | its own threads by shared memory; CPU, Memoria and FileSystem by calls that wait for the answer |
| Kernel, resources | `instancias`, `procesos_bloqueados` | `instruccion_wait`, `instruccion_signal` | the planner |
| Kernel, open files | `tablaArchivosAbiertos`, `lista_archivos_abiertos` of each PCB | F_OPEN, F_CLOSE, F_SEEK, F_READ, F_WRITE, F_TRUNCATE | FileSystem, CPU |
| Kernel, segment tables | `lista_segmentos` of each PCB, `mutex_memoria`, `permiso_compactacion` | CREATE_SEGMENT, DELETE_SEGMENT, `actualizar_todas_las_tablas_de_segmentos` | Memoria |
| Memoria (`memoria.c`) | `lista_huecos`, `tabla_segmentos_global`, the bytes | create and delete a segment, consolidate, compact, read, write | Kernel, CPU, FileSystem (one thread each) |
| CPU (`cpu.c`) | the registers of the process that executes | `ejecutar_proceso`, `ejecutar_instruccion`, `obtener_direcc_fisica` | Kernel, Memoria |
| FileSystem (`fileSystem.c`, `administrar*.c`, `inicializarEstructuras.c`) | bitmap, FCBs, blocks, all of them on disk | open, create, truncate, read, write | Kernel, Memoria |
| Wire protocol (`shared.c`) | what has been sent and not read | `enviar_operacion`, `enviar_codigo_operacion`, `enviar_paquete` and their receivers | everybody |
| Consola | nothing | sends its script once | Kernel |

How the parts interact. A thread of the kernel for each console puts a PCB in
NEW. `enviar_proceso_a_ready` asks Memoria for its segment table, waits for the
degree of multiprogramming and moves it to READY. The dispatcher waits for the
CPU and for a PCB of READY, moves it to EXECUTING and unlocks
`sem_proceso_a_executing`. `manejo_desalojo_pcb` waits for that unlock, takes
the PCB out of EXECUTING, sends it to the CPU, waits for it to come back at an
instruction that needs the kernel, and handles the instruction: it is one
thread, so while a handler sleeps (I/O) or waits for FileSystem nobody else is
sent to the CPU.

What is hard in it:

- four kinds of threads move the same PCBs between lists, and tell each other
  with semaphores posted in another step than the move;
- a mutex used as a signal, unlocked by two threads, which does not count;
- the degree of multiprogramming and the token of the CPU, taken by one thread
  and given back by another at the end of each of a dozen handlers;
- handlers that wait inside the only thread that could wake them;
- segment tables copied in the kernel while Memoria compacts;
- structures of FileSystem persisted one at a time;
- strings copied between structures, registers as wide as what they hold;
- messages with and without a trailing zero, on connections where nothing says
  where a message starts, one of them shared by two threads.

`PROJECT.json` lists each of these hazards at its line, with the properties
that would catch it.

What makes each component correct:

- planner: a PCB is in exactly one place; the degree is exact; one process has
  the CPU; no signal is lost; the kernel dereferences no NULL; each process
  lives the cycle of five states; every process ends unless it waits for a
  resource;
- resources: counting semaphores;
- open files: a process that waits for a file is woken when it is closed; the
  position used is that of the last opening;
- segment tables: the kernel's copy agrees with Memoria's whenever it is used;
- Memoria: holes and segments are disjoint and cover the memory; a segment is
  created exactly when there is room; compaction keeps sizes and contents;
- CPU: no access outside a segment reaches memory;
- CPU, registers: a process finds in them what it left, whoever had the CPU
  meanwhile;
- FileSystem: blocks of two files are disjoint, the bitmap marks the blocks in
  use, a restart finds the files as they were;
- protocol: each receiver reads what was sent to it, nothing is left over, and
  nobody waits for ever.

## 2. Plan

| Order | Modules | State |
|---|---|---|
| 1 | `Planificador` implements `Ciclo`; `Planificador_proofs`, `Ciclo_proofs` | done |
| 2 | `Memoria`, and `Segmentos` that composes it with the kernel's tables; `Segmentos_proofs` | done |
| 3 | `FileSystem` implements `ArchivosDurables` (`Archivos`); `FileSystem_proofs`, `Durables_proofs` | done |
| 4 | `Cpu`, with Memoria's bytes, implements `Maquina`; `Cpu_proofs` | done |
| 5 | `Protocolo`: the connections and the threads of the four modules; `Llamadas_proofs`, `Protocolo_proofs` | done |
| 6 | positions of open files, response ratios, identifiers of processes | not planned, section 7 |

Each of the five models is one view of the same system, and they meet at the
calls: what is a free choice in one (the answer of Memoria in `Planificador`,
the address and the bytes of a write in `FileSystem`, what a thread is asked in
`Protocolo`) is what another one computes.

What could follow: `CompactaBien` from its own hypotheses, which allow empty
holes where `Particion` does not; `Protocolo` with connections that are closed.

## 3. Modules

### Planificador

The four kinds of threads of `kernel.c`. A step is one semaphore operation, or
the list operations of a thread between two of them.

| Variable | Code |
|---|---|
| `programa`, `contador` | `lista_instrucciones`, `contador_instrucciones` of each PCB |
| `consola`, `largo`, `corto`, `desalojo` | where each thread is, and its local `pcb` |
| `lista_estados` | the four lists |
| `sem` | `sem_lista_estados[ENUM_NEW]`, `sem_proceso_a_ready_inicializar`, `sem_proceso_a_ready_terminado`, `sem_grado_multiprogamacion`, `sem_cpu_disponible` |
| `executing` | `sem_proceso_a_executing` is unlocked |
| `instancias`, `procesos_bloqueados` | each `t_recurso` |
| `tabla_archivos`, `lista_procesos`, `semaforo_estado` | `tablaArchivosAbiertos` and the `t_estado` of each entry |
| `archivos_abiertos` | `lista_archivos_abiertos` of each PCB |
| `finalizados`, `kernel` | PCBs given to `destruir_pcb`; whether a NULL was dereferenced |
| `mutex_memoria` | it was left locked by a handler that is not in its exchange any more |
| `respuestas` | whether the kernel reads the answers of Memoria in step (`al_dia`), one behind since the zero of an OUT_OF_MEMORY (`atrasadas`), or anything (`desfasadas`) |

A handler of `manejo_instrucciones` is an action for its case, followed by the
steps its label names: `TrasCpu`, `TrasReady` and `TrasUnlock` are tables of
what is left to do after each post or unlock, in the order of the code. For
instance I_IO is `Io`, `FinIo`, `PostCpu` at `post_cpu_ready` and `PostReady` at
`post_ready`.

What is abstracted:

- the semaphores of READY, EXECUTING and BLOCKED each protect single list
  operations, taken in one order (NEW, READY, BLOCKED), so they are part of the
  step; that of NEW is kept while `enviar_proceso_a_ready` waits for the degree
  and is a variable;
- calls to CPU, Memoria and FileSystem are the step that receives the answer,
  and messages arrive whole. The answers of Memoria to a CREATE_SEGMENT
  (`RespuestasMemoria`) are a free choice: a superset of what it can answer.
  FileSystem's answer changes nothing here;
- an exchange with Memoria is one step, and so its lock and unlock of
  `mutex_memoria` are seen only when the unlock does not come;
- HRRN may choose any PCB of READY, because the ratios depend on times;
- a program is the sequence of its instructions that reach the kernel;
- what the code does after reading past a list, or with a PCB that is not
  there, is `Caer`: the kernel stops. With glibc, unlocking an unlocked mutex
  leaves it unlocked;
- `free`, logs and copies of PCBs are left out.

Answers out of step. The branch of OUT_OF_MEMORY (kernel.c:580-585) does not read
the zero that follows the code. The exchange after it reads that zero: a
CREATE_SEGMENT finds no branch for it, leaves `mutex_memoria` locked and is run
again (kernel.c:302-306) into the same lock (kernel.c:525); a DELETE_SEGMENT
puts its process in EXECUTING and leaves the mutex locked (kernel.c:604-626); and
`enviar_proceso_a_ready`, which does not look at the code, takes the words of the
answer one late (`CrearPcb`), the operation for the size. From then on anything
may be read (`desfasadas`), and any read may be the last (`RespuestaIlegible`): a
size taken from the wrong word makes the kernel read outside of the answer, and
die of it or not, or wait for bytes that nobody sends. Not followed: the contents of a segment
table read so, and what the CPU makes of them.

What a stop is said to look like rests on `Esperan`: every thread is at a
semaphore that is 0 or at a mutex that is locked, `sem_proceso_a_executing` or
`mutex_memoria`. No action has a guard but what `sem_wait` and
`pthread_mutex_lock` wait for, and so these are all the states in which no thread
goes on, but one: a thread that waits inside an exchange out of step, which is
part of `RespuestaIlegible`.

### Ciclo

The promise: each process goes NEW, READY, EXECUTING, and from there back to
READY, to BLOCKED or to EXIT; at most `Grado` are admitted; a process is given
the CPU only when nobody has it. `estado` in `Planificador` is the refinement
mapping: a PCB the dispatcher has taken from READY is still READY, one in the
hands of `manejo_desalojo_pcb` still EXECUTING, one in a resource's queue
BLOCKED.

### MCPlanificador

Small instances. The programs are the scripts of `modules/consola/pruebas`
without the instructions that stay in the CPU, and variations of them.

### Planificador_proofs, Ciclo_proofs

Theorems for all values of the constants (section 6): the types and the
semaphores of READY and of the CPU; where each PCB is; the degree and the
refinement of `Ciclo`; and that no NULL is dereferenced.

### Memoria

`lista_huecos` and `tabla_segmentos_global`, with an action for each request of
the kernel, and the algorithm that the configuration names. Addresses are
relative to `memoria_principal`. A fit is a set of
candidates (`Alcanzan`) and an order on it (`Elegido`). The two loops of
`compactar` are written as what they compute, so that no operator is recursive:
the free holes go to the end up to the hole where the loop stops (`Parada`);
that hole takes the sum of their sizes and every other hole after it is removed
(`Juntar`, `QuitarAlternados`); then bases are given from left to right
(`BasesNuevas`) and, as each hole moves, so does the first segment of each
table with its old base (`MoverSegmentos`). `eliminar_segmento` of a segment
that does not exist finds no hole and consolidates that of segment 0, and the
model does too. Sums and the choice of the free holes (`Suma`, `Filtrar`) are
recursive functions on the positions of the list, as the loops are.

### Segmentos

Extends `Memoria` with the kernel's side.

| Variable | Code |
|---|---|
| `lista_segmentos` | `lista_segmentos` of each PCB |
| `lugar` | whether `buscar_proceso` finds the PCB: in a list, in the hands of `manejo_desalojo_pcb`, in a resource's queue |
| `pedido` | `manejo_desalojo_pcb` runs `manejo_instrucciones` again |
| `sobra` | the size that follows OUT_OF_MEMORY on the socket is unread |
| `mutex_memoria` | a handler returned with it locked |

A request and its answer are one step, under `mutex_memoria`. A CREATE_SEGMENT
that asks for a compaction is two, and new processes are created between them.
Which PCB executes is abstracted: any that is in a list may make a request.
Not here: what `enviar_proceso_a_ready` makes of an answer read out of step (it
reads a table from the middle of the message), `permiso_compactacion` (taken
and returned by one thread) and a DELETE_SEGMENT of segment 0, which no program
of `pruebas` has.

Two ways of saying that the memory is well divided. `Cubren`, `ConHueco` and
`SegmentosSeparados` are what programs need: they say nothing of holes of size
zero. `Particion` is what the code keeps as long as all goes well: each hole
begins where the previous one ends, empty ones included (`Contiguos`), only free
ones are empty (`OcupadosLlenos`), no two free ones are together
(`LibresSueltos`), and each segment has a hole that is not segment 0's
(`CadaUnoElSuyo`).

### Segmentos_proofs

Theorems for all values of the constants (section 6): the types, with any
compaction; that the requests keep `Particion`; that nothing is lost while
nobody compacts; and that a compaction makes room.

### FileSystem and ArchivosDurables

`FileSystem` is the bitmap, the file of blocks, the FCBs on disk and their
dictionary in memory, in words: the four bytes of a pointer.

| Variable | Code |
|---|---|
| `bitmap` | `bitmap`, mapped and synchronised bit by bit |
| `disco` | the file of blocks, word by word |
| `fcbs` | the files of `PATH_FCB`; `Vacio` between `fopen` and `fclose` of `persistir_fcb` |
| `dictionaryFcbs` | `dictionaryFcbs`; `asignados` is `cantidad_bloques_asignados` |
| `paso` | the request being served, and which of its writes to disk comes next |
| `estado` | running; stopped; or unable to start, as `abrir_fcbs` met an empty FCB |
| `roto` | a ghost: the files of which the code has stopped keeping promises |
| `perdidos` | a ghost: those of `roto` whose blocks nobody knows, because they grew |

A request is its first action (`CrearArchivo`, the three cases of
`actualizar_tamanio_bloques`, `EscribirArchivo`) and a step for each change of
the disk; `Caer` may come after any, and `Iniciar` loads what is there.
`ArchivosDurables` is the promise: a file is a sequence of words, a truncation
leaves a prefix, a write replaces consecutive words, and stops and restarts
change nothing. `roto` is what makes the promise true, and each case of it is
something the code does:

- a file that is being created or truncated at a stop: its FCB may be empty, or
  older than the bitmap;
- a file that grows, from its request on (`Ampliar`): `asignar_puntero_directo`
  writes the number of the block over `cantidad_bloques_asignados` and not to the
  direct pointer, and `asignar_bloques` writes pointers from the place after the
  first one, so a growth never gives a file its blocks. The file is then
  `perdidos`: its FCB leads anywhere, and its contents are promised nothing. The
  others keep theirs, since what a growth marks and writes was nobody's: a free
  block is none that a whole file has. It may be one that a file broken by a stop
  still leads to, and so those are `perdidos` too;
- every file, once one of `perdidos` is shortened or written (`Arriesga`), as the
  blocks it gives back or writes are those its FCB leads to, and may be another's;
- every file, if a file grows that is in `perdidos` already, or past what one
  block of pointers has place for;
- every file once a write went past the blocks of its file, which nothing
  compares with the size.

A growth is not what the sources say of it. administrarEstructuras.c:35 says of an
empty file that grows "Si el tamanio del bloque alcanza, se le asigna solo el
puntero directo", and :190 says of `asignar_bloques` "Asignar punteros dentro del
bloque de punteros". But `asignar_puntero_directo` (:95-103) leaves
`puntero_directo` without a value and puts the number of the block it took in
`cantidad_bloques_asignados` (:97), which `asignar_bloques` takes for the number of
pointers already there (:192). An empty file that grows to a block has its size, a
bit of the bitmap nobody gives back, and the direct pointer it had; pruebas/fs/fs_1
counts on a growth when F_OPEN has created its files (:14-15, :20-21). `Ampliar` has these steps. No property says
that a growth gives a file its blocks, and nothing in the runs or the theorems
should be read so: the promises are about files that are shortened and written, and
about what the growth of a file does to the others, which is to leave them as they
were.

The disk the FileSystem starts with (`DiscoDe`) has files with blocks of their own.
The two FCBs of the repository, `Consoles` (256 bytes, direct 0, indirect 7) and
`Videogames` (64 bytes, direct 0), are not such files: both have block 0. With them
nothing that is said of shortening and writing holds from the start, and the runs
and theorems are not about them. They look like what a growth leaves: the size is
that of the truncation, and the direct pointer was not given.

`EscribirArchivo` takes from the request what `recibir_buffer` should give it;
that it never gives it is `pedido_sin_respuesta`. No property is about what
I_F_READ brings, which is not what administrarInstrucciones.c:154 says (to read from
the blocks "a partir del puntero y el tamaño recibidos"): `leer_archivo` reads up to
the end of the block of its position (:196), takes a whole block, or all that was
asked for, from what is still to be read (:212-218), and with a request of no more
than a block stops there; the rest is what `malloc` gave (:169). With more than a
block it goes on with a closed FILE, and may end the program (`LeerArchivo`).

A bit for a number that is no block's ends the program (`Marcar`); the few that are
past the bitmap and inside of its page do not, and nothing reads them again.

`Archivos` has the refinement: the words the FCB of each file leads to
(`archivos`) are the file of `ArchivosDurables`.

### FileSystem_proofs, Durables_proofs

Theorems for all values of the constants (section 6): the types; where the blocks
of each file are while requests are half done, and what
a write leaves; and the refinement of `ArchivosDurables`.

### Cpu and Maquina

`Cpu` is the loop of `ejecutar_proceso` with the registers as the C code has
them: characters one register after the other in a structure, that
`recibir_pcb`, `cargar_registros` and `guardar_contexto_de_ejecucion` copy with
`strcpy`, and Memoria's bytes. `Maquina` is what a program may count on:
registers of its own, a memory that changes where it said, instructions executed
once each. `pcbs` are the kernel's PCBs, `pcb` the copy the CPU works on. The
translation is `obtener_direcc_fisica`, with the displacement for a physical
address as the code has it. A value as long as its register spills its end into
the next one: `Maquina!Set` says so, since programs rely on registers that are
full (fs_1 sets 16 characters of RAX). The refinement mapping is `registros` and
`hechas`: those of the process that has the CPU are the CPU's, and those of the
others in the kernel's PCBs. `ProgramaSinBase` is the same machine with the
addresses that the code computes.

Abstracted: one width in place of 4, 8 and 16; characters past the structure are
dropped; a program ends in EXIT; values longer than a register are not given;
`DevolverLectura` is one step, because the kernel waits for both packets.

`Cpu_proofs` has the theorems about it (section 6).

### Protocolo

Channels of words between the four modules, and what is left of the loop of
each thread, a sequence of the calls of `shared.c`. Each handler is an operator
that gives its calls in order, with the words of each packet; the
actions are the calls (`Send`, `recibir_operacion`, `recibir_buffer`, `Switch`,
`Connect`, `Lock`, ...), of any thread. A word has its value and, for the
properties only, what it was sent as (`es`): an operation, a size, data.

Assumed: the kernel is launched once CPU and FileSystem listen
(`crear_conexion` does not try again), nobody closes a connection, a send does
not fail, and `recv` waits for all it was asked for (`MSG_WAITALL`). How long a
PCB or a table is does not matter to who reads it. An F_OPEN of a file that is
open has no exchange, and is a YIELD here. An answer of no branch makes
CREATE_SEGMENT run again into the locked mutex (`TrasCrear`); only the answers
after an OUT_OF_MEMORY come to that, which neither the runs nor the theorems have.
The value for nobody at
`mutex_memoria` is none of its two users (`NadieAssumption`).

`Llamadas_proofs` has lemmas about the calls, and `Protocolo_proofs` the theorems
(section 6).

## 4. Runs

| Run | Instance | Shows |
|---|---|---|
| recursos | 3 processes: two wait in a circle for 2 resources, one truncates, creates a segment (with every answer of Memoria) and waits for an unknown one; HRRN, degree 2 | `TypeOK`, `UnaCpu`, `SenalDeExecuting`, `SoloRecursosDetienen`, `PerdidoSinCpu`; `Planificador` implements `Ciclo` (`ImplementaCiclo`) |
| archivos | 3 processes with every operation of the kernel and the errors, degree 2 | `GradoExacto`, `InvInductivo`, `InvSitios` |
| liveness | 3 processes that share a resource, degree 2, with fairness | `UnSoloLugar`, `SinCaida`, `InvViva`; every process ends (`TodosTerminan`) |
| semaforo | 3 processes that share a resource | a disagreement: `SemaforoContador` fails |
| cpu_de_mas | 2 processes with a file each | a disagreement: `DespachadoEjecuta` fails |
| segmentos | 2 processes, memory of 5, sizes 1 and 2, the three fits | `TypeOK`, `CubrenSinCompactar`, `CompactaBien`, `ParticionEstable` |
| tabla_vieja | 1 process, memory of 5, sizes 1 and 3, best fit | a disagreement: `SegmentosSeparados` fails |
| sistema_archivos | 2 files, 8 blocks of 2 words, 3 requests, 2 stops | `TypeOK`, `InvInductivo`, `BitmapExacto`, `SinCompartir`, `EscrituraEntera`; `FileSystem` implements `ArchivosDurables` (`ImplementaArchivos`); all of it of files that have not grown |
| cpu | 2 processes, 3 registers of 2 characters, segment 0 of 3 | `TypeOK`; `Cpu` implements `Maquina` (`ImplementaMaquina`) |
| direccion | the same with a second segment | a disagreement: `OtrosSegmentosIntactos` fails |
| protocolo | the four modules, 2 admissions, every exchange but three | `SeLeeLoEnviado`, `RespuestaPropia`, `NadaDeMas`, no deadlock; with fairness, `DespachaSiempre` |
| pedido_sin_respuesta | F_WRITE | a disagreement: `FsConfirma` fails |

Bounds of the runs of `Planificador`. Nothing is bounded but the constants:
programs are finite and executed once, so every run ends. Three processes with
a degree of two have one in each of NEW, READY and EXECUTING, somebody waiting
for the degree and two moving at once; the three programs of an instance are
given to the three processes in every way. `UnSoloLugar` and `SinCaida` are
checked without compactions: a second COMPACTACION in answer to one
CREATE_SEGMENT makes `manejo_desalojo_pcb` forget the PCB, and then find an
empty list. `CHECK_DEADLOCK FALSE`: the kernel stops when every process has
ended. What a stop may look like is `SoloRecursosDetienen`, as long as
`mutex_memoria` is not left locked; `RespuestasAlDia`, a part of
`InvInductivo`, says that it is not before an answer is read out of step. After
that the kernel does stop at the mutex. The sources say nowhere that it
does not, so that no run has it for a disagreement.

Bounds of the runs of `Segmentos`. A memory of five with a segment 0 of one has
up to four segments, holes on both sides of a deletion, exact fits, two free
holes that only a compaction joins, and exhaustion. Processes create and delete
for ever, so two bounds of `MCSegmentos` keep the instances finite: no more than
`MAX_HUECOS` holes (one more than there are addresses; only empty holes that
nothing consolidates go beyond) and no hole past the end of the memory (only
after a compaction of three holes, or one that met an empty hole). Both cut
what follows a state, not the check of the step that leads to it. What
`CompactaBien` asks before a compaction, the code needs: with three free holes
the loop of memoria.c:501 skips one of them, which stays in the list beside the
hole that has its size; an exact fit leaves an empty hole with the base of the
next segment, which `eliminar_segmento` then takes for it (memoria.c:463); and
tabla_vieja shows a segment without a hole of its own. `CubrenSinCompactar`
likewise asks that the kernel's tables be Memoria's (`KernelAlDia`,
`PedidoAlDia`), and so does `ParticionEstable`: they are not after a compaction that met the PCB outside of
`lista_estados`, nor after an OUT_OF_MEMORY, whose size the kernel does not read
and takes for the next answer (kernel.c:580).

Bounds of `FileSystem`. Three blocks of data and the block of pointers of each
file are the least that has a direct pointer, a first and a following indirect
one; blocks of two words have positions inside, at the end and across blocks,
and sizes that are no multiple of a block. The blocks of the files are
interleaved and out of order, so that the neighbour of a block is the other
file's. `MaxPedidos` (3) allows a shortening, a second one and a write, or a growth of
one file and two requests of the other, with
`MaxCaidas` (2) stops at any step of them. `AlgunoEntero` cuts what follows
once no file is whole, of which no property speaks.

Bounds of `Cpu`. Registers of two characters have values that are shorter and
values that fill them; three registers, one that spills and one that is past
it. Programs have any two instructions and an EXIT, and two processes take
turns at every instruction that returns the PCB. What is past a string that has
no end (`Basuras`) is a free choice. Run cpu has segment 0 only, since with
another one direccion shows that `Maquina` is not implemented.

Bounds of `Protocolo`. The channels are not bounded: with the loops in step
they hold one packet or two. Run protocolo leaves out three exchanges, each of
which leaves a connection out of step for good:

- F_WRITE, which is pedido_sin_respuesta;
- F_READ: the zero after Memoria's answer is not read, and Memoria's thread reads
  two operation words for each request of one, so that the second F_READ ends
  that thread (memoria.c:66, memoria.c:115) and the third waits for ever;
- OUT_OF_MEMORY: its zero is not read (kernel.c:580). After it the answer to a
  CREATE_SEGMENT or a DELETE_SEGMENT is an operation no branch has, and
  `mutex_memoria` stays locked (kernel.c:588, kernel.c:623). What this does to the
  threads of the kernel is in `Planificador` (runs recursos and archivos).

`NadaDeMas` has one word that is never read in step: the zero that follows
AUX_SOY_FILE_SYSTEM.

Two more things that were met while modelling, in modules whose runs show
something else: a second process that opens a file stops
`manejo_desalojo_pcb`, the only thread that could execute the F_CLOSE it waits
for (kernel.c:345; `NadieDespiertaPorArchivo`, proved as part of
`InvInductivo`, is its other face); and the FileSystem cannot start after a stop
between `fopen` and `fclose` of an FCB.

Symmetry of processes is used in runs of invariants and of action properties,
which are symmetric in the processes; never with liveness.

## 5. Fairness

`Planificador!FairSpec` asks weak fairness of each thread of a console, of
`enviar_proceso_a_ready`, of the dispatcher and of `manejo_desalojo_pcb`: they
are preemptive threads that only a semaphore or a mutex stops, each waits on
semaphores that no two of them compete for for ever (a console competes for
NEW's with `enviar_proceso_a_ready`, which takes it once for each process), and
CPU, Memoria and FileSystem answer. A console need not connect.

`Protocolo!FairSpec` asks weak fairness of each thread of the four modules, and
strong fairness of the step in which the CPU, between two instructions, gives
the PCB back (`DevolverPcb`): programs are finite lists, so that a CPU that goes
on executing comes to an instruction of the kernel or to the end. Admissions
are finite (`Consolas`), so that `mutex_memoria` is not taken for ever by the
other thread.

`FileSystem`, `Cpu` and `Segmentos` have safety properties only: they are
sequences of answers to a kernel that need not ask.

## 6. Proofs

### Planificador

Two modules prove, about `Planificador`, for any processes, programs,
resources, files, degree and algorithm (its named assumptions):

| Module | Theorem | Asks for | States |
|---|---|---|---|
| `Planificador_proofs` | `InvInductivoTeorema` | | `[]InvInductivo` |
| | `TypeOKTeorema`, `TokensDeReadyTeorema`, `UnicoBloqueadoTeorema` | | its parts |
| | `UnaCpuTeorema`, `SenalDeExecutingTeorema` | `SinPostDeMas` | `[]UnaCpu`, `[]SenalDeExecuting` |
| | `InvSitiosTeorema` | | `[]InvSitios`: no PCB is in two places, or twice in one |
| | `UnSoloLugarTeorema` | only AUX_OK | `[]UnSoloLugar`: nor is one nowhere |
| `Ciclo_proofs` | `GradoExactoTeorema` | | `[]GradoExacto` |
| | `TokensDeNewTeorema` | | `[]TokensDeNew` |
| | `SoloRecursosDetienenTeorema` | `SinPostDeMas` | `[]SoloRecursosDetienen` |
| | `MutexLibreTeorema` | no OUT_OF_MEMORY | `[](~mutex_memoria)` |
| | `PerdidoSinCpuTeorema` | `SinPostDeMas` | `[]PerdidoSinCpu` |
| | `ImplementaCicloTeorema` | `SinPostDeMas` | `ImplementaCiclo` |
| | `InvVivaTeorema`, `SinCaidaTeorema` | `Sanos` | `[]InvViva`, `[]SinCaida` |

What the hypotheses say of the code, and why they are needed:

- `SinPostDeMas`: no program has F_OPEN, F_CLOSE or F_SEEK, whose handlers post
  `sem_cpu_disponible` while the process goes on executing. With them run
  cpu_de_mas has two processes dispatched to one CPU;
- "only AUX_OK": Memoria always has room for a segment. A second COMPACTACION in
  answer to the same CREATE_SEGMENT makes `manejo_desalojo_pcb` forget
  the PCB it has, and so does an answer of no branch that comes twice, after an
  OUT_OF_MEMORY;
- "no OUT_OF_MEMORY": `OUT_OF_MEMORY` is not among the answers of Memoria. After
  one the next answers are read out of step, and `mutex_memoria` may stay locked;
- `Sanos`: that too, because a compaction followed by another one, or by
  OUT_OF_MEMORY, leaves `sem_proceso_a_executing` unlocked and EXECUTING empty,
  and the thread takes a PCB from it; programs end in EXIT, because
  the one that follows the last instruction is read past the list; and they use
  no file but in F_TRUNCATE. The scripts of `pruebas` without files are such
  programs, and those of run liveness.

The argument of `InvInductivo`. That `sem_proceso_a_ready_terminado` counts
READY (`TokensDeReady`) is not inductive by itself. An I/O removes the head of
BLOCKED, so its own PCB must be the only one there (`UnicoBloqueado`); F_CLOSE
moves a PCB to READY without a post, which is right only because it never
finds one queued: a process that waits for a file stops the thread that would
close it (`NadieDespiertaPorArchivo`); each thread must have the PCB it uses
(`HilosConPcb`); and everything needs the types. `RespuestasAlDia` adds, for what
the planner stops at, that `mutex_memoria` is left locked only after an answer was
read out of step, and that this begins with an OUT_OF_MEMORY. `InvInductivo` is their
conjunction; run archivos checks it. There is one lemma for each part, with a
step for each action. For the CPU, `UnaCpu` counts the places where its token
may be, and `SenalDeExecuting` needs `UnaCpu` because taking one PCB from
EXECUTING must leave none behind.

The argument of the other theorems goes by moves. `Esta(p, s)` says that
the PCB of p is at place s: a list, the queue of a resource, a thread. A lemma
for each action of the threads says that it moves one PCB from one place to
another (`Mueve`), moves none (`Quieto`), or loses the one it had (`Pierde`, a
second COMPACTACION only); `Transiciones` are the pairs of places. What each
theorem needs is then a short argument about the moves, and not another round of
all the actions:

- one place: a move leaves the place it comes from, provided that lists have no
  repetitions (`SinRepetidos`, kept because what is added was elsewhere) and that
  the PCB `enviar_proceso_a_ready` saw at the head of NEW, several steps before,
  is still in it. These make `InvSitios`;
- the degree: the processes outside of READY, EXECUTING and BLOCKED change by one
  exactly in the moves from NEW and to EXIT, and so does the sum of the semaphore
  and the steps half done. The set of the processes admitted is finite at every
  step, although that of all processes need not be;
- `Ciclo`: the place determines the state of `Ciclo` (`EstadoDe`), so a move is a
  step of `Ciclo` or, within one state, a stutter. A PCB that was lost stays as
  if it executed; that the CPU is then given to nobody else is `PerdidoSinCpu`,
  since its token is lost too. That a process is given the CPU when nobody has it
  is `UnaCpu`;
- NULL: four steps take a PCB, or an instruction, without looking. Three rely on
  a semaphore: `TokensDeReady`, `TokensDeNew` and `TokensDeExecuting`, the last
  of which is a count although a mutex does not count, since two signals are
  never pending at once. The fourth relies on the instruction that ends a
  program (`AlFinTermina`). `InvViva` is their conjunction; run liveness checks
  it;
- what stops the planner (`SoloRecursosDetienenTeorema`). When every thread waits,
  and none of them at `mutex_memoria`, `manejo_desalojo_pcb` waits for a signal, so
  EXECUTING is empty; the token of
  the CPU is then nowhere but in its semaphore, so the dispatcher waits for a PCB
  of READY and, `TokensDeReady`, there is none (`EsperanSinCpu`). A process is
  therefore outside, in NEW, in the queue of a resource, or it has ended: it has
  not been lost, because the case that loses a PCB leaves EXECUTING empty and
  its mutex unlocked, and the thread that takes that signal brings the kernel
  down (`AlarmaDePerdido`). If there is a PCB in NEW, or a console at its
  semaphore, then `enviar_proceso_a_ready` waits for the degree: NEW's semaphore
  is a mutex it holds from the PCB it sees to the one it moves (`NewExclusivo`)
  and its other semaphore counts NEW (`TokensDeNew`). The degree is 0, and
  `GradoExacto` says who fills it: the processes the resources block
  (`EsperanGrado`).

### FileSystem

`FileSystem_proofs`, and `Durables_proofs` for the refinement, prove about
`FileSystem`, for any files, size and number of blocks, truncations, writes and
stops, and any disk in which each file has blocks of its own (those of the
repository, that have block 0 in common, are not). They are about files that
have not grown: of one that did they say only that it takes nothing from the
others, until it is shortened or written.

| Theorem | States |
|---|---|
| `TypeOKTeorema`, `PasoPosibleTeorema` | `[]TypeOK`, `[]PasoPosible` |
| `InvInductivoTeorema` | `[]InvInductivo` |
| `SinCompartirTeorema`, `BitmapExactoTeorema` | `[]SinCompartir`, `[]BitmapExacto` |
| `EscrituraEnteraTeorema` | `EscrituraEntera` |
| `ImplementaArchivosTeorema` | `ImplementaArchivos` |

They assume that there is a file (`NombresAssumption`), that the bitmap has whole
bytes, as its size is the number of blocks divided by eight
(`SuperbloqueAssumption`), that no two files of the disk the FileSystem starts
with have a block in common (`RepartosAssumption`), that positions and sizes are
naturals and no write is of zero words (`PedidosAssumption`), and that the
constants standing for no FCB, an empty one and a broken file are no FCB and no
file (`ValoresAssumption`).

The argument of `InvInductivo`. Neither `SinCompartir` nor `BitmapExacto` is
inductive: they speak of a FileSystem with no request half done, and their proof
needs to know how far each request is. `InvInductivo` says it, while some file
is whole (`roto # Nombres`), as `DiscoSano`:

- `FcbsIguales`: the FCB a file has is the one on disk. That of a file being
  truncated is the one before (`FcbDe`), since a stop brings it back;
- `Reduciendo`: the FCB in memory of that file has the first blocks of the one
  before. It says nothing of a file that grows, which is lost;
- `Creciendo`: a file that takes blocks is lost and no other is broken, the block
  where its pointers go is nobody's, and no lost file gives back blocks or is
  written. A block is taken because the bitmap has it free, and `Marcados` makes it
  nobody's; the words that `EscribirPunteros` writes are in one block
  (`DePerdido`), so that no word of another file changes;
- `Separados`: the blocks of a file are different, and no other file's. A lost file
  has none. It is
  stated of `FcbDe`; a step leaves the FCB of each file as it was or with
  some of the first blocks it had (`Hereda`), so that a single lemma about such
  FCBs keeps it in every action;
- `Marcados`: the blocks not yet given back (`Quedan`) are taken, and no other
  is. Giving back one takes it out of `Quedan`, because its blocks are
  different;
- `Escribiendo`: the words before the position a write is at are in their place.
  That an iteration keeps the ones before is arithmetic: a position is a block
  and a place in it in one way only, and different indices have different
  blocks. `buscar_siguiente_bloque` looks for the number of a block, among all
  the words from the block of pointers on, and reads the one after
  (`SiguienteBloque`): it finds the pointer to that block before any word of
  data with the same number, as the pointers before it have other numbers.

`PasoPosible` is what the types need of the steps half done: that no truncation
gives back a block too many. `EscrituraEntera` is then the last iteration.

The refinement. A request, a block given back, a bit of the bitmap and a stop
leave `archivos` as it was, or make files `Roto`, which `ArchivosDurables`
allows; `CerrarFcb` is its creation or truncation, since only then does `FcbDe`
change; each iteration of a write replaces consecutive words of one file, and the
words of the others are in blocks that it does not touch.

### Cpu

`Cpu_proofs` proves, about `Cpu`, for any number and width of registers, any
tables of segments, values, addresses and programs:

| Theorem | Asks for | States |
|---|---|---|
| `TypeOKTeorema` | | `[]TypeOK` |
| `SinBaseTeorema` | | `ProgramaSinBase!Spec`: `Maquina`, with the addresses of the code |
| `ImplementaMaquinaTeorema` | `BasesEnCero` | `ImplementaMaquina`: `Maquina`, with those of the segments |

`BasesEnCero` says that every segment begins at 0, which is so of segment 0:
`obtener_direcc_fisica` does not add the base, and run direccion shows what
happens to the others. The assumptions are on the
constants: values are no longer than a register, have no NUL, and the name a
register starts with is shorter (`RegistrosAssumption`); segments are in the
memory and each has a number of its own in its table (`TablaAssumption`);
addresses are naturals and F_READ reads something (`ProgramasAssumption`).

The argument. A string is at a position (`Esta`) when its characters are, and a
NUL after them if it is shorter than a register; only one is (`EstaUna`), the one
a program finds there (`TextoEsta`). Reading from that position brings a string
that begins with it, and that is longer only when it fills the register
(`CadenaEmpieza`), whatever follows: registers that are full, the end of the
struct, memory not written. Copying all registers in the order of the struct
leaves each its own (`CopiasEmpiezan`): what a string spills is after its
register, and the copies that follow write those characters again. This is by
induction on the copies, for which `Induccion` and `MinNat` are proved from the
well-foundedness of the naturals. So a PCB sent, received, loaded and
saved has the strings it had (`RecibirRegistrosTextos`,
`CopiarRegistrosTextos`), and `StrcpyTextos` says what a SET or a MOV_IN to one
register does to the others. With these each action is a step of `Maquina`, or
changes nothing it sees (`Igual`): the switch to another process and the end of
a process are of the second kind. What memory has at an address inside of a
segment is in the memory (`DireccionValores`), which is all a MOV_IN or a MOV_OUT
needs.

### Segmentos

`Segmentos_proofs` proves, about `Segmentos`, for any processes, sizes of the
memory and of its segments, tables, requests and algorithm:

| Theorem | Asks for | States |
|---|---|---|
| `TypeOKTeorema` | | `[]TypeOK`, with any compaction |
| `ParticionEstableTeorema` | | `ParticionEstable` |
| `SinCompactarTeorema` | no step compacts | `[](Cubren /\ ConHueco /\ SegmentosSeparados)` |
| `HaceLugarTeorema` | | a clean compaction of a memory with `Particion` keeps it, and the request that runs again is answered AUX_OK |

The assumptions are that segment 0 is not empty and does not fill the memory
(`TamanioAssumption`), that there are segments (`SegmentosAssumption`), that the
algorithm is one of the three (`AsignacionAssumption`), that nobody asks for zero
bytes (`TamaniosAssumption`), and that the value for no process is none of them
(`NadieAssumption`). A compaction is clean (`CompactaLimpio`) with
one or two free holes and no base twice; section 4 says what the code does
otherwise.

What is inductive. `TypeOK` alone is not: the processes with a table are those
that have been admitted, `Creado` and `Compactado` move the PCB that asked, and
that of a request that runs again could be one that has not. `Tipos` adds that it
is in the hands of its handler (`EnMano`).
`Cubren`, `ConHueco` and `SegmentosSeparados` are not inductive either, even with
the kernel's tables up to date and no compactions: they allow an empty hole that
is taken, or one beside another with the same base, and `eliminar_segmento` frees
the first hole with the base of its segment, which could then be another's.
`Particion` excludes it: only free holes are empty and no two are together, so
that before the hole of a segment there is at most one with its base, and that
one is free already. (If there is one, left by an exact fit, the segment's own
hole stays taken with no segment: the code loses that memory. `CadaUnoElSuyo`
says that each segment has a hole and not the converse.)
`SinCompactarTeorema` adds that, while no handler has kept the mutex, the tables
of the kernel are Memoria's (`TablasAlDia`); once one has, no request is made.

The argument. A loop over the list is a recursive function, and its value is
found by induction on the positions (`Induccion`, from the well-foundedness of
the naturals). A split or a union of holes is described on a list alone, whether
it is divided (`Dividida`), and then the segments: what a new hole has is nobody
else's (`SuyosCrear`), and freeing or joining takes the hole of no segment but
the one deleted (`SuyosBorrar`). Two occupied holes of a divided list are apart,
so segments with different bases are (`SeparadosBases`). For a compaction: the
holes of the new list are the occupied ones in their order and one free hole
with the sum of the others (`JuntarLimpia`), the sums of both make the memory
(`SumaPartes`, `SumaFila`), the new bases are one after the other
(`BasesSeguidas`), and each table has, after the loop, the new base of each of
its holes and of no other (`MoverUno`, `TablaMovida`): a hole that has moved
could be taken for one yet to move, if it got its old base, but holes only move
to the left. `HaceLugarTeorema` follows: the last hole has the size that
`comprobar_compactacion` added up, and less than the memory's, which best fit
asks for.

### Protocolo

`Protocolo_proofs` proves, about `Protocolo`, for any number of consoles, any
text and any programs that

- read and write no file (`SinPedidosDelFs`): the thread of Memoria for the
  FileSystem reads one word late since the greeting, and with an F_WRITE it
  takes a size for an operation, which TLC shows too;
- and find room in Memoria, if it compacts (`SinOtraRespuesta`): its answers to a
  CREATE_SEGMENT are AUX_OK and COMPACTACION, in any order. After an
  OUT_OF_MEMORY, whose size is not read, the kernel is out of step and none of
  the three properties holds.

| Theorem | States |
|---|---|
| `InvProtocoloTeorema` | `[]InvProtocolo` |
| `SeLeeLoEnviadoTeorema` | `[]SeLeeLoEnviado` |
| `RespuestaPropiaTeorema` | `[]RespuestaPropia` |
| `NadaDeMasTeorema` | `[]NadaDeMas` |

Run protocolo is an instance with those hypotheses. What else the theorems
assume is that the number of consoles and the text are naturals, and
`NadieAssumption`.

The inductive invariant. None of the three properties is inductive: each says
what is at the head of a connection when a thread is about to read it, and that
depends on what the thread at the other end did some calls ago. `InvProtocolo`
says, besides the types, where the threads are (`En(h, s, k)`: thread h has made k
of the calls of s) and the exact words of the twelve connections, by phase:

- `Arranque`, until Memoria answers the kernel. The CPU and the FileSystem come
  to Memoria in any order (`Clientes(a, b)`, with a the first of them): each is
  outside, in the queue of `listen`, being greeted, or served by a thread of its
  own, while Memoria accepts one after another;
- `Conexiones`, while the kernel connects to the CPU and then to the
  FileSystem. Memoria may still be launching the thread for the kernel, and the
  first word it will read may already be there: `KmListo(w)` says that w is what
  that thread has to read, whoever has to read something before it;
- `Marcha`, from then on. The connections with the CPU and with the FileSystem
  have one thread at each end, and one of them is waiting. That of the kernel with
  Memoria is shared by two threads of the kernel, and `mutex_memoria` says whose
  it is: nobody's, and it is empty; that of `enviar_proceso_a_ready`, for a
  segment table; or that of `manejo_desalojo_pcb`, which creates or deletes a
  segment, sending two packets, or compacts, with the rest of the first answer
  unread until the second comes.

The argument. A lemma for each handler spells out its calls (`...Llama`), and
another says at each of them what the thread does and where it goes (`...Toca`);
these are in `Llamadas_proofs`.
A lemma for each call says what it does to the connection and to the thread
(`PasoEnvia`, `PasoRecibe`, `PasoMira`, `PasoBuffer`). A step of one thread then
changes one connection, and the parts of the invariant about the others stay
(`SoloCpu`, `SoloFs`, `SoloMem`: who moves and what is left alone); the part
about its own connection goes to the next of its positions (`CpuPasa`, `FsPasa`,
`KmListoMemoria`, `SirvePasa`, ...). That no two threads are in one another's way
is then a short argument in `MarchaPasa`, on who has the mutex, and in
`ArranquePasa`, on whom Memoria serves. The properties follow from the words: a
thread at a switch has a packet before it, with its operation first (`...Lee`),
the answer of Memoria is that of the owner of the mutex, and when all the threads
are at the start of their loops only the rest of the greeting of the FileSystem
is left (`TodosEnSuBucle`). TLC checked `InvProtocolo` on the instance of run
protocolo before it was proved.

### Only model-checked

- `TodosTerminan`, `DespachaSiempre` and that no thread of `Protocolo` gets stuck
  (deadlock): what must happen at last is beyond the prover;
- `CubrenSinCompactar` and `CompactaBien` as steps from any state that has their
  hypotheses: these allow holes of size zero anywhere, of which only the types
  are known, and the theorems start from `Particion` instead.

## 7. Not modelled

- `contadorProcesoId` (kernel.c:1121): two threads of consoles may read it before
  either increments it. Processes have different names in every module.
- Response ratios, estimates and `ready_timestamp`: doubles from the clock. The
  planner of the model may choose any PCB of READY, so that what is checked holds
  for every order.
- The position of each open file: `FileSystem` takes any.
- `pids_on_list` walking READY without its semaphore: a data race of a log line.
- That Memoria is never told of a process that ends (kernel.c:1074): `Segmentos`
  has it (`Terminar` gives nothing back), and there is no document to compare it
  with.
- Connections that are closed and sends that fail: `recibir_operacion` returns -1
  then and most callers do not look.
- The connection of a console, beyond the list of instructions it sends.
- A line in which `decode_instruccion` finds no instruction: the loop of the CPU
  (cpu.c:94-109) neither executes nor counts it, and reads it again for ever.
  Programs of the models have none, and no script of `pruebas` comes to one (the
  empty line of fs_2 is after its EXIT).
- Disks whose files share blocks, as the two FCBs of the repository do.
- What the CPU does with a segment table that the kernel read out of step.
- Logs, configuration, the copying of fields into buffers that no property tells
  apart, delays, makefiles and scripts.

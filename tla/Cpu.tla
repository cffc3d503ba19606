-------------------------------- MODULE Cpu --------------------------------
(***************************************************************************)
(* The CPU's instruction cycle: the PCB that comes from the kernel and     *)
(* goes back, the registers, that are C strings one after the other in a   *)
(* struct, the translation of addresses and the reads and writes of        *)
(* Memoria's bytes.  The thread of the kernel that dispatches waits for    *)
(* the CPU, and Memoria answers each request, so that the steps of the     *)
(* three are one sequence.                                                 *)
(*                                                                         *)
(* A program is any sequence of instructions that ends in EXIT; the        *)
(* kernel's operations are those of Planificador, here one.                *)
(***************************************************************************)
EXTENDS Integers, Sequences, SequencesExt, FiniteSetsExt

CONSTANTS Pids,
          CANT_REGISTROS, ANCHO,  \* one width instead of 4, 8 and 16
          NUL, Letras,            \* characters
          Basuras,                \* what memory that was not written may have
          Nombre, Valores,        \* the strings registers start with, and of SET
          TAM_MEMORIA, TAM_MAX_SEGMENTO,
          Tabla,        \* [Pids -> set of [id, base, size]]: lista_segmentos
          Direcciones,  \* the logical addresses of programs
          Largos,       \* the sizes of F_READ
          MaxInstrucciones,   \* of a program, before its EXIT
          Nadie

ASSUME RegistrosAssumption ==
    /\ CANT_REGISTROS \in Nat \ {0} /\ ANCHO \in Nat \ {0}
    /\ NUL \notin Letras /\ Basuras \subseteq Letras \cup {NUL}
    /\ \A v \in Valores : v \in Seq(Letras) /\ Len(v) <= ANCHO
    /\ Nombre \in Seq(Letras) /\ Len(Nombre) < ANCHO
ASSUME TablaAssumption ==
    /\ TAM_MEMORIA \in Nat /\ TAM_MAX_SEGMENTO \in Nat \ {0}
    /\ \A p \in Pids : \A s \in Tabla[p] :
          /\ s.id \in Nat /\ s.base \in Nat /\ s.size \in Nat
          /\ s.base + s.size <= TAM_MEMORIA /\ s.size <= TAM_MAX_SEGMENTO
          /\ \A t \in Tabla[p] : s.id = t.id => s = t
ASSUME ProgramasAssumption ==
    /\ Direcciones \subseteq Nat /\ Largos \subseteq Nat \ {0}
    /\ MaxInstrucciones \in Nat /\ Nadie \notin Pids

Caracteres == Letras \cup {NUL}
Registros == 1 .. CANT_REGISTROS
Celdas == 0 .. (TAM_MEMORIA - 1)

VARIABLES
    pcbs,              \* the kernel's PCBs: registers and program counter
    vivos,             \* the processes that have not ended
    cpu,               \* the process the CPU has, or Nadie
    pcb,               \* the CPU's copy of its PCB
    registrosCpu,      \* the registers of the CPU, character by character
    memoria_principal,
    hubo_interrupcion,
    ultimaOperacion    \* what the CPU returns the PCB for

vars == <<pcbs, vivos, cpu, pcb, registrosCpu, memoria_principal,
          hubo_interrupcion, ultimaOperacion>>

-----------------------------------------------------------------------------
(* C strings in a struct of registers *)

\* What is past the end of a block of malloc.
Cola(basura) == IF basura = NUL THEN <<>> ELSE <<basura>>

\* The string at a position: it may go on through the registers that follow,
\* and past the struct.
Cadena(cs, i, basura) ==
    LET nul == {j \in i .. Len(cs) : cs[j] = NUL}
    IN  IF nul = {} THEN SubSeq(cs, i, Len(cs)) \o Cola(basura)
        ELSE SubSeq(cs, i, Min(nul) - 1)

\* What goes past the struct is not kept.
strcpy(cs, i, cadena) ==
    [j \in DOMAIN cs |-> CASE j - i + 1 \in DOMAIN cadena -> cadena[j - i + 1]
                           [] j - i = Len(cadena) -> NUL
                           [] OTHER -> cs[j]]

Desde(r) == (r - 1) * ANCHO + 1
Ventana(cs, r) == SubSeq(cs, Desde(r), Desde(r) + ANCHO - 1)

\* A string to each register, in the order of the struct.
CopiarCadenas(cadenas, en) ==
    LET copia[r \in 0 .. Len(cadenas)] ==
          IF r = 0 THEN en ELSE strcpy(copia[r - 1], Desde(r), cadenas[r])
    IN  copia[Len(cadenas)]

\* Mutant: the last register is forgotten.
CopiarMenosUno(de, en, basura) ==
    CopiarCadenas([r \in 1 .. (CANT_REGISTROS - 1) |-> Cadena(de, Desde(r), basura)],
                  en)

\* cargar_registros and guardar_contexto_de_ejecucion
CopiarRegistros(de, en, basura) ==
    CopiarCadenas([r \in Registros |-> Cadena(de, Desde(r), basura)], en)

\* A struct that was not written.
SinEscribir(basura) == [i \in 1 .. (CANT_REGISTROS * ANCHO) |-> basura]

\* recibir_pcb: each register is a block of its own, the struct is a new one.
RecibirRegistros(enviados, basura) ==
    CopiarCadenas([r \in Registros |-> Cadena(Ventana(enviados, r), 1, basura)],
                  SinEscribir(basura))

-----------------------------------------------------------------------------
(* Addresses *)

obtener_tamanio_segmento(p, numero) ==
    LET suyos == {s \in Tabla[p] : s.id = numero}
    IN  IF suyos = {} THEN -1 ELSE (CHOOSE s \in suyos : TRUE).size

\* The base is not added.
obtener_direcc_fisica(p, dirLogica, tamanio) ==
    LET desplazamiento == dirLogica % TAM_MAX_SEGMENTO
    IN  IF desplazamiento + tamanio
             > obtener_tamanio_segmento(p, dirLogica \div TAM_MAX_SEGMENTO)
        THEN -1 ELSE desplazamiento

LeerMemoria(d, n) ==
    [i \in 1 .. n |-> IF d + i - 1 \in Celdas THEN memoria_principal[d + i - 1]
                      ELSE NUL]

EscribirMemoria(d, bytes) ==
    memoria_principal' =
        [c \in Celdas |-> IF c - d + 1 \in DOMAIN bytes THEN bytes[c - d + 1]
                          ELSE memoria_principal[c]]

-----------------------------------------------------------------------------

NINGUNA == [que |-> "ninguna"]

CrearRegistros(basura) ==
    CopiarCadenas([r \in Registros |-> Nombre], SinEscribir(basura))

Init ==
    \E basura \in Basuras :
       /\ pcbs = [p \in Pids |-> [registros |-> CrearRegistros(basura),
                                  contador |-> 0]]
       /\ vivos = Pids
       /\ cpu = Nadie
       /\ pcb = Nadie
       /\ registrosCpu = CrearRegistros(basura)
       /\ memoria_principal = [c \in Celdas |-> basura]
       /\ hubo_interrupcion = FALSE
       /\ ultimaOperacion = NINGUNA

\* The kernel sends a PCB, and the CPU receives it and loads its registers over
\* those of the process before.
Despachar(p) ==
    /\ cpu = Nadie /\ p \in vivos
    /\ \E basura \in Basuras :
          /\ pcb' = [pcbs[p] EXCEPT
                        !.registros = RecibirRegistros(@, basura)]
          /\ registrosCpu' = CopiarRegistros(pcb'.registros, registrosCpu, basura)
    /\ cpu' = p
    /\ UNCHANGED <<pcbs, vivos, memoria_principal, hubo_interrupcion, ultimaOperacion>>

\* An instruction the CPU fetches before the EXIT of the program.
Ejecuta ==
    /\ cpu # Nadie /\ ~hubo_interrupcion
    /\ pcb.contador < MaxInstrucciones
    /\ UNCHANGED <<pcbs, vivos, cpu>>

Sigue ==
    /\ pcb' = [pcb EXCEPT !.contador = @ + 1]
    /\ UNCHANGED <<hubo_interrupcion, ultimaOperacion>>

Interrumpe(operacion) ==
    /\ hubo_interrupcion' = TRUE
    /\ ultimaOperacion' = operacion
    /\ UNCHANGED <<pcb, registrosCpu, memoria_principal>>

instruccion_set(r, valor) == registrosCpu' = strcpy(registrosCpu, Desde(r), valor)

Set(r, valor) ==
    /\ Ejecuta /\ Sigue
    /\ instruccion_set(r, valor)
    /\ UNCHANGED memoria_principal

MovIn(r, dirLogica) ==
    /\ Ejecuta
    /\ LET d == obtener_direcc_fisica(cpu, dirLogica, ANCHO)
       IN  IF d = -1 THEN Interrumpe([que |-> "SEGMENTATION_FAULT"])
           ELSE /\ Sigue
                /\ \E basura \in Basuras :
                      instruccion_set(r, Cadena(LeerMemoria(d, ANCHO), 1, basura))
                /\ UNCHANGED memoria_principal

MovOut(dirLogica, r) ==
    /\ Ejecuta
    /\ LET d == obtener_direcc_fisica(cpu, dirLogica, ANCHO)
       IN  IF d = -1 THEN Interrumpe([que |-> "SEGMENTATION_FAULT"])
           ELSE /\ Sigue
                /\ EscribirMemoria(d, Ventana(registrosCpu, r))
                /\ UNCHANGED registrosCpu

\* keyFromString is -1: the CPU logs it and goes on.
Desconocida ==
    /\ Ejecuta /\ Sigue
    /\ UNCHANGED <<registrosCpu, memoria_principal>>

\* Every instruction that is the kernel's.  EXIT is the last one.
DelKernel == Ejecuta /\ Interrumpe([que |-> "kernel"])

FRead(dirLogica, n) ==
    Ejecuta /\ Interrumpe([que |-> "I_F_READ", dir |-> dirLogica, n |-> n])

Exit ==
    /\ cpu # Nadie /\ ~hubo_interrupcion
    /\ Interrumpe([que |-> "I_EXIT"])
    /\ UNCHANGED <<pcbs, vivos, cpu>>

\* guardar_contexto_de_ejecucion, enviar_pcb, and the kernel that receives it
\* and moves its program counter.
DevolverPcb ==
    /\ cpu # Nadie /\ hubo_interrupcion
    /\ \E basura \in Basuras :
          LET guardados == CopiarRegistros(registrosCpu, pcb.registros, basura)
          IN  pcbs' = [pcbs EXCEPT ![cpu] =
                          [registros |-> RecibirRegistros(guardados, basura),
                           contador |-> pcb.contador + 1]]
    /\ cpu' = Nadie /\ pcb' = Nadie
    /\ hubo_interrupcion' = FALSE /\ ultimaOperacion' = NINGUNA
    /\ UNCHANGED registrosCpu

\* Mutant: a process that ends is given back while it has the CPU.
DevolverSinSoltar ==
    /\ ultimaOperacion.que # "I_F_READ"
    /\ cpu # Nadie /\ hubo_interrupcion
    /\ vivos' = IF ultimaOperacion.que \in {"I_EXIT", "SEGMENTATION_FAULT"}
                THEN vivos \ {cpu} ELSE vivos
    /\ hubo_interrupcion' = FALSE /\ ultimaOperacion' = NINGUNA
    /\ UNCHANGED <<pcbs, cpu, pcb, registrosCpu, memoria_principal>>

Devolver ==
    /\ ultimaOperacion.que # "I_F_READ"
    /\ DevolverPcb
    /\ vivos' = IF ultimaOperacion.que \in {"I_EXIT", "SEGMENTATION_FAULT"}
                THEN vivos \ {cpu} ELSE vivos
    /\ UNCHANGED memoria_principal

\* The address goes after the PCB, and from the kernel to the FileSystem and
\* from there to Memoria, that writes what was read; nobody compares it with -1.
\* The thread that dispatches waits for all of it.
DevolverLectura ==
    /\ ultimaOperacion.que = "I_F_READ"
    /\ DevolverPcb
    /\ \E letra \in Letras :
          EscribirMemoria(obtener_direcc_fisica(cpu, ultimaOperacion.dir,
                                                ultimaOperacion.n),
                          [i \in 1 .. ultimaOperacion.n |-> letra])
    /\ UNCHANGED vivos

Next ==
    \/ \E p \in Pids : Despachar(p)
    \/ \E r \in Registros :
          \/ \E v \in Valores : Set(r, v)
          \/ \E d \in Direcciones : MovIn(r, d) \/ MovOut(d, r)
    \/ \E d \in Direcciones, n \in Largos : FRead(d, n)
    \/ Desconocida \/ DelKernel \/ Exit
    \/ Devolver \/ DevolverLectura

Spec == Init /\ [][Next]_vars

-----------------------------------------------------------------------------
(* Properties *)

Structs == [1 .. (CANT_REGISTROS * ANCHO) -> Caracteres]

Pcbs == [registros : Structs, contador : 0 .. (MaxInstrucciones + 1)]

Operaciones ==
    [que : {"ninguna", "kernel", "I_EXIT", "SEGMENTATION_FAULT"}]
    \cup [que : {"I_F_READ"}, dir : Direcciones, n : Largos]

TypeOK ==
    /\ pcbs \in [Pids -> Pcbs]
    /\ vivos \subseteq Pids /\ cpu \in vivos \cup {Nadie}
    /\ cpu # Nadie => pcb \in Pcbs /\ pcb.contador <= MaxInstrucciones
    /\ registrosCpu \in Structs
    /\ memoria_principal \in [Celdas -> Caracteres]
    /\ hubo_interrupcion \in BOOLEAN
    /\ hubo_interrupcion => cpu # Nadie
    /\ ultimaOperacion \in Operaciones
    /\ hubo_interrupcion /\ ultimaOperacion.que \in {"kernel", "I_F_READ"} =>
          pcb.contador < MaxInstrucciones
    /\ hubo_interrupcion => ultimaOperacion # NINGUNA
    /\ \A p \in vivos \ {cpu} : pcbs[p].contador <= MaxInstrucciones

\* The address that segmentation promises: inside the segment, from its base.
Fisica(p, dirLogica, tamanio) ==
    LET suyo == {s \in Tabla[p] :
                    /\ s.id = dirLogica \div TAM_MAX_SEGMENTO
                    /\ (dirLogica % TAM_MAX_SEGMENTO) + tamanio <= s.size}
    IN  IF suyo = {} THEN -1
        ELSE (CHOOSE s \in suyo : TRUE).base + (dirLogica % TAM_MAX_SEGMENTO)

Contexto(p) == IF cpu = p THEN [registros |-> registrosCpu, contador |-> pcb.contador]
               ELSE pcbs[p]

\* What a program finds in a register
Texto(cs, r) == Cadena(Ventana(cs, r), 1, NUL)

registros ==
    [p \in Pids |-> [r \in Registros |-> Texto(Contexto(p).registros, r)]]

\* The instructions each process has executed
hechas == [p \in Pids |-> Contexto(p).contador]

LeidoDe(d) ==
    LET f == obtener_direcc_fisica(cpu, d, ANCHO)
    IN  IF f = -1 THEN <<>> ELSE LeerMemoria(f, ANCHO)

\* memoria_2:17-22 writes at 256, writes at 2048 and reads 256 again, segments 1
\* and 8 of memoria.config: a MOV_OUT leaves what is read from others alone.
OtrosSegmentosIntactos ==
    [][\A d, e \in Direcciones :
          /\ \E r \in Registros : MovOut(d, r)
          /\ d \div TAM_MAX_SEGMENTO # e \div TAM_MAX_SEGMENTO
          => LeidoDe(e)' = LeidoDe(e)]_vars

Programa == INSTANCE Maquina WITH memoria <- memoria_principal

\* Processes that take turns at the CPU, each with its registers and its
\* counter, are the machine of Maquina: no register, character of memory or
\* instruction is lost, mixed or repeated in the copies between structs and
\* packets, or in those of strings with no NUL of their own.
ImplementaMaquina == Programa!Spec

\* The tables with which the code's address is the one of the segment.
BasesEnCero == \A p \in Pids : \A s \in Tabla[p] : s.base = 0

\* With any table, Cpu is a machine whose addresses are those of the code.
ProgramaSinBase == INSTANCE Maquina WITH memoria <- memoria_principal,
                                         Fisica <- obtener_direcc_fisica

=============================================================================

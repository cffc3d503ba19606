------------------------ MODULE Planificador_proofs ------------------------
(***************************************************************************)
(* Theorems about Planificador, for any number of processes, any programs, *)
(* resources, files and degree of multiprogramming.                        *)
(*                                                                         *)
(* InvInductivo is inductive: TypeOK, that the threads have the PCBs they  *)
(* use, that BLOCKED has only the PCB of the handler that waits, that no   *)
(* semaphore of a file is posted, and the count of the tokens of READY.    *)
(* Its parts are preserved one lemma at a time; the lemma about TokensDe-  *)
(* Ready needs all the others.                                             *)
(*                                                                         *)
(* UnaCpu and SenalDeExecuting need that no program has one of the three   *)
(* operations that post sem_cpu_disponible while the process goes on       *)
(* executing (F_OPEN, F_CLOSE, F_SEEK).                                    *)
(*                                                                         *)
(* The second half says where each PCB is.  Each step of the threads moves *)
(* one PCB from one place to another (Mueve), or none (Quieto), except     *)
(* that a second COMPACTACION leaves one nowhere (Pierde).  There is one   *)
(* lemma for each action that moves one: they are what InvSitios, the      *)
(* count of the degree of multiprogramming and the refinement of Ciclo     *)
(* rest on.                                                                *)
(***************************************************************************)
EXTENDS Planificador, SequenceTheorems, FiniteSetTheorems, TLAPS

-----------------------------------------------------------------------------
(* Lists, and the tables of the labels of manejo_desalojo_pcb *)

\* list_remove gives a list of the same elements ...
LEMMA SinPosicionTipo ==
    ASSUME NEW S, NEW s \in Seq(S), NEW i
    PROVE  SinPosicion(s, i) \in Seq(S)
<1> DEFINE n == IF s = <<>> THEN 0 ELSE Len(s) - 1
<1>1. n \in Nat /\ 1 .. n = 1 .. (Len(s) - 1)
  OBVIOUS
<1>2. \A j \in 1 .. n : (IF j < i THEN s[j] ELSE s[j + 1]) \in S
  OBVIOUS
<1>3. SinPosicion(s, i) \in [1 .. n -> S]
  BY <1>1, <1>2 DEF SinPosicion
<1> HIDE DEF n
<1> QED
  BY <1>1, <1>3, SeqDef

\* ... that is one shorter.
LEMMA SinPosicionLargo ==
    ASSUME NEW S, NEW s \in Seq(S), s # <<>>, NEW i
    PROVE  Len(SinPosicion(s, i)) = Len(s) - 1
<1>1. Len(s) - 1 \in Nat
  OBVIOUS
<1>2. DOMAIN SinPosicion(s, i) = 1 .. (Len(s) - 1)
  BY DEF SinPosicion
<1>3. SinPosicion(s, i) \in Seq(S)
  BY SinPosicionTipo
<1> QED
  BY <1>1, <1>2, <1>3, LenProperties

\* What agregar_a_lista_con_sem does to the lists.
LEMMA AgregarListas ==
    ASSUME lista_estados \in [Estados -> Seq(Procesos)],
           NEW p \in Procesos, NEW e \in Estados, Agregar(p, e)
    PROVE  /\ lista_estados' \in [Estados -> Seq(Procesos)]
           /\ lista_estados'[e] = Append(lista_estados[e], p)
           /\ Len(lista_estados'[e]) = Len(lista_estados[e]) + 1
           /\ \A x \in Estados \ {e} : lista_estados'[x] = lista_estados[x]
  BY DEF Agregar

\* What mover_de_lista_con_sem does to the lists.
LEMMA MoverListas ==
    ASSUME lista_estados \in [Estados -> Seq(Procesos)],
           NEW p \in Procesos, NEW e1 \in Estados, NEW e2 \in Estados,
           e1 # e2, Mover(p, e1, e2)
    PROVE  /\ lista_estados' \in [Estados -> Seq(Procesos)]
           /\ lista_estados'[e1] =
                 SinPosicion(lista_estados[e1], Posicion(lista_estados[e1], p))
           /\ lista_estados'[e2] = Append(lista_estados[e2], p)
           /\ Len(lista_estados'[e2]) = Len(lista_estados[e2]) + 1
           /\ \A x \in Estados \ {e1, e2} :
                 lista_estados'[x] = lista_estados[x]
<1> DEFINE s1 == SinPosicion(lista_estados[e1],
                             Posicion(lista_estados[e1], p))
           s2 == Append(lista_estados[e2], p)
<1>1. s1 \in Seq(Procesos)
  BY SinPosicionTipo
<1>2. s2 \in Seq(Procesos) /\ Len(s2) = Len(lista_estados[e2]) + 1
  BY AppendProperties
<1>3. lista_estados' = [lista_estados EXCEPT ![e1] = s1, ![e2] = s2]
  BY DEF Mover
<1> HIDE DEF s1, s2
<1>4. /\ lista_estados' \in [Estados -> Seq(Procesos)]
      /\ lista_estados'[e1] = s1
      /\ lista_estados'[e2] = s2
      /\ \A x \in Estados \ {e1, e2} : lista_estados'[x] = lista_estados[x]
  BY <1>1, <1>2, <1>3
<1> QED
  BY <1>2, <1>4 DEF s1, s2

\* agregar_a_lista_con_sem on an empty list.
LEMMA AppendVacia ==
    ASSUME NEW S, NEW x \in S
    PROVE  Append(<<>>, x) = <<x>>
  OBVIOUS

\* The labels manejo_desalojo_pcb goes to after a post or an unlock.
LEMMA TrasValores ==
    /\ DOMAIN TrasCpu =
          {"post_cpu", "post_cpu_ready", "post_cpu_grado", "truncate"}
    /\ TrasCpu["post_cpu"] = "lock"
    /\ TrasCpu["post_cpu_ready"] = "post_ready"
    /\ TrasCpu["post_cpu_grado"] = "post_grado"
    /\ TrasCpu["truncate"] = "fs_truncate"
    /\ DOMAIN TrasReady = {"post_ready", "post_ready_cpu", "espera_archivo"}
    /\ TrasReady["post_ready"] = "lock"
    /\ TrasReady["post_ready_cpu"] = "post_cpu"
    /\ TrasReady["espera_archivo"] = "lock"
    /\ DOMAIN TrasUnlock =
          {"unlock", "unlock_cpu", "unlock_despertar", "unlock_reintentar"}
    /\ TrasUnlock["unlock"] = "lock"
    /\ TrasUnlock["unlock_cpu"] = "post_cpu"
    /\ TrasUnlock["unlock_despertar"] = "despertar"
    /\ TrasUnlock["unlock_reintentar"] = "reintentar"
  BY DEF TrasCpu, TrasReady, TrasUnlock

\* They are labels, and none of them is a wait that has not been reached yet.
LEMMA TrasTipo ==
    /\ \A x \in DOMAIN TrasCpu : TrasCpu[x] \in PcDesalojo
    /\ \A x \in DOMAIN TrasReady : TrasReady[x] \in PcDesalojo
    /\ \A x \in DOMAIN TrasUnlock : TrasUnlock[x] \in PcDesalojo
  BY TrasValores DEF PcDesalojo

-----------------------------------------------------------------------------
(* Facts about the steps *)

\* In manejo_instrucciones there is a PCB, and the argument of a file operation
\* is a file.
LEMMA ConPcbManejo ==
    ASSUME TypeOK, HilosConPcb, NEW ops, Maneja(ops)
    PROVE  /\ desalojo.pcb \in Procesos
           /\ Instruccion.op \in DeArchivo => Arg \in Archivos
<1>1. desalojo.pc = "manejo"
  BY DEF Maneja
<1>2. /\ desalojo.pcb \in Procesos
      /\ contador[desalojo.pcb] \in 1 .. Len(programa[desalojo.pcb])
  BY <1>1 DEF HilosConPcb, ConPcb
<1>3. programa[desalojo.pcb] \in Programas
  BY <1>2 DEF TypeOK
<1>4. DOMAIN programa[desalojo.pcb] = 1 .. Len(programa[desalojo.pcb])
  BY <1>3, ProgramasAssumption, LenProperties
<1> QED
  BY <1>2, <1>3, <1>4, ProgramasAssumption DEF Instruccion, Arg

\* In manejo_instrucciones nobody is queued for a file.
LEMMA NadieEspera ==
    ASSUME NadieDespiertaPorArchivo, NEW ops, Maneja(ops)
    PROVE  \A f \in Archivos : lista_procesos[f] = <<>>
  BY DEF NadieDespiertaPorArchivo, Maneja


\* No step passes the wait for a file.
LEMMA NadiePasaLaEspera ==
    ASSUME HilosConPcb, NadieDespiertaPorArchivo, PostReady
    PROVE  desalojo.pc \in {"post_ready", "post_ready_cpu"}
<1>1. desalojo.pc \in {"post_ready", "post_ready_cpu", "espera_archivo"}
  BY TrasValores DEF PostReady
<1>2. ASSUME desalojo.pc = "espera_archivo" PROVE FALSE
  BY <1>2 DEF HilosConPcb, NadieDespiertaPorArchivo, PostReady
<1> QED
  BY <1>1, <1>2

\* The steps of the other threads touch neither manejo_desalojo_pcb and its
\* PCB, nor the resources, nor the files, nor BLOCKED.
OtrosHilos ==
    (\E p \in Procesos : RecibirDeConsola(p) \/ Consola(p)) \/ Largo \/ Corto

\* The steps of the other threads leave manejo_desalojo_pcb's data alone.
LEMMA OtrosHilosRespetan ==
    ASSUME TypeOK, HilosConPcb, OtrosHilos
    PROVE  /\ UNCHANGED <<pcbs, desalojo, recursos, archivos>>
           /\ lista_estados'["BLOCKED"] = lista_estados["BLOCKED"]
<1> USE DEF Estados
<1>1. ASSUME NEW p \in Procesos, RecibirDeConsola(p) \/ Consola(p) PROVE 
       /\ UNCHANGED <<pcbs, desalojo, recursos, archivos>>
       /\ lista_estados'["BLOCKED"] = lista_estados["BLOCKED"]
  BY <1>1, AgregarListas DEF TypeOK, RecibirDeConsola, Consola, AgregarNew,
     PostInicializar
<1>2. CASE EsperarInicializar
  BY <1>2 DEF EsperarInicializar
<1>3. CASE TomarNew
  BY <1>3 DEF TomarNew
<1>4. CASE EsperarGrado
  BY <1>4 DEF EsperarGrado
<1>5. CASE MoverAReady
  BY <1>5, MoverListas DEF TypeOK, HilosConPcb, MoverAReady
<1>6. CASE SoltarNew
  BY <1>6 DEF SoltarNew
<1>7. CASE PostTerminado
  BY <1>7 DEF PostTerminado
<1>8. CASE EsperarCpu
  BY <1>8 DEF EsperarCpu
<1>9. CASE EsperarTerminado
  BY <1>9 DEF EsperarTerminado
<1>10. CASE Elegir
  BY <1>10 DEF TypeOK, Elegir
<1>11. CASE AgregarExecuting
  BY <1>11, AgregarListas DEF TypeOK, HilosConPcb, AgregarExecuting
<1>12. CASE UnlockExecuting
  BY <1>12 DEF UnlockExecuting
<1>13. CASE CrearPcb
  BY <1>13 DEF CrearPcb
<1> QED
  BY <1>1, <1>2, <1>3, <1>4, <1>5, <1>6, <1>7, <1>8, <1>9, <1>10, <1>11,
     <1>12, <1>13 DEF OtrosHilos, Largo, Corto

-----------------------------------------------------------------------------
(* Type correctness *)

\* Every action leaves every variable in its type: a count of instances never
\* becomes negative, and the lists are lists of PCBs.
LEMMA TypeOKPaso ==
    ASSUME TypeOK, HilosConPcb, UnicoBloqueado, NadieDespiertaPorArchivo,
           [Next]_vars
    PROVE  TypeOK'
<1> USE DEF TypeOK, pcbs, semaforos, recursos, archivos, memoria, Vive
<1>1. ASSUME NEW p \in Procesos, RecibirDeConsola(p) PROVE TypeOK'
  BY <1>1 DEF RecibirDeConsola
<1>2. ASSUME NEW p \in Procesos, AgregarNew(p) PROVE TypeOK'
  BY <1>2, AgregarListas DEF AgregarNew, Estados
<1>3. ASSUME NEW p \in Procesos, PostInicializar(p) PROVE TypeOK'
  BY <1>3 DEF PostInicializar, Semaforos, Post
<1>4. CASE EsperarInicializar
  BY <1>4, SMTT(30) DEF EsperarInicializar, Semaforos, Espera, Hilo, PcLargo
<1>5. CASE TomarNew
  <2>1. sem' \in [Semaforos -> Nat]
    BY <1>5 DEF TomarNew, Espera, Semaforos
  <2>2. largo' \in [pc : PcLargo, pcb : Procesos \cup {Nadie}]
    BY <1>5 DEF TomarNew, Hilo, PcLargo, Estados
  <2> QED
    BY <1>5, <2>1, <2>2 DEF TomarNew, Caer
<1>6. CASE EsperarGrado
  BY <1>6, SMTT(30) DEF EsperarGrado, Semaforos, Espera, Hilo, PcLargo
<1>7. CASE MoverAReady
  BY <1>7, MoverListas DEF MoverAReady, Hilo, PcLargo, Estados, HilosConPcb
<1>8. CASE SoltarNew
  BY <1>8 DEF SoltarNew, Semaforos, Post, Hilo, PcLargo
<1>9. CASE PostTerminado
  BY <1>9, SMTT(30) DEF PostTerminado, Semaforos, Post, Hilo, PcLargo
<1>10. CASE EsperarCpu
  BY <1>10 DEF EsperarCpu, Semaforos, Espera, Hilo, PcCorto
<1>11. CASE EsperarTerminado
  BY <1>11 DEF EsperarTerminado, Semaforos, Espera, Hilo, PcCorto
<1>12. CASE Elegir
  BY <1>12, SinPosicionTipo DEF Elegir, Hilo, PcCorto, Elegibles, Caer,
     Estados
<1>13. CASE AgregarExecuting
  BY <1>13, AgregarListas DEF AgregarExecuting, Hilo, PcCorto, HilosConPcb,
     Estados
<1>14. CASE UnlockExecuting
  BY <1>14 DEF UnlockExecuting, Hilo, PcCorto
<1>15. CASE LockExecuting
  BY <1>15 DEF LockExecuting, Hilo, PcDesalojo
<1>16. CASE EnviarACpu
  <2>1. CASE lista_estados["EXECUTING"] = <<>>
    BY <1>16, <2>1 DEF EnviarACpu, Caer
  <2>2. CASE lista_estados["EXECUTING"] # <<>>
    <3>1. /\ Head(lista_estados["EXECUTING"]) \in Procesos
          /\ Tail(lista_estados["EXECUTING"]) \in Seq(Procesos)
      BY <2>2, HeadTailProperties DEF Estados
    <3>2. desalojo' \in [pc : PcDesalojo, pcb : Procesos \cup {Nadie}]
      BY <1>16, <2>2, <3>1 DEF EnviarACpu, Hilo, PcDesalojo
    <3>3. lista_estados' \in [Estados -> Seq(Procesos)]
      BY <1>16, <2>2, <3>1 DEF EnviarACpu
    <3> QED
      BY <1>16, <2>2, <3>2, <3>3 DEF EnviarACpu
  <2> QED
    BY <2>1, <2>2
<1>17. CASE RecibirDeCpu
  <2>1. desalojo.pcb \in Procesos
    BY <1>17 DEF RecibirDeCpu, HilosConPcb, ConPcb
  <2>2. contador' \in [Procesos -> Nat]
    <3>1. \/ contador' = contador
          \/ contador' = [contador EXCEPT ![desalojo.pcb] = @ + 1]
      BY <1>17 DEF RecibirDeCpu
    <3>2. contador[desalojo.pcb] + 1 \in Nat
      BY <2>1
    <3> QED
      BY <3>1, <3>2
  <2>3. desalojo' \in [pc : PcDesalojo, pcb : Procesos \cup {Nadie}]
    BY <1>17, <2>1 DEF RecibirDeCpu, Hilo, PcDesalojo
  <2> QED
    BY <1>17, <2>2, <2>3 DEF RecibirDeCpu, Caer
<1>18. CASE Yield
  BY <1>18, AgregarListas, ConPcbManejo DEF Yield, Maneja, Deja, Hilo,
     PcDesalojo, Estados
<1>19. CASE Exit
  BY <1>19, ConPcbManejo DEF Exit, TerminarProceso, Maneja, Deja, Hilo,
     PcDesalojo
<1>20. CASE Io
  BY <1>20, AgregarListas, ConPcbManejo DEF Io, Maneja, Sigue, Hilo,
     PcDesalojo, Estados
<1>21. CASE FinIo
  <2>1. desalojo.pcb \in Procesos
    BY <1>21 DEF FinIo, HilosConPcb, ConPcb
  <2>2. Tail(lista_estados["BLOCKED"]) \in Seq(Procesos)
    BY <1>21, <2>1 DEF FinIo, UnicoBloqueado
  <2>3. Append(lista_estados["READY"], desalojo.pcb) \in Seq(Procesos)
    BY <2>1, AppendProperties DEF Estados
  <2>4. lista_estados' \in [Estados -> Seq(Procesos)]
    BY <1>21, <2>2, <2>3 DEF FinIo, Estados
  <2> QED
    BY <1>21, <2>4 DEF FinIo, Deja, Hilo, PcDesalojo
<1>22. CASE Wait
  <2>1. desalojo.pcb \in Procesos
    BY <1>22, ConPcbManejo DEF Wait
  <2>2. lista_estados' \in [Estados -> Seq(Procesos)]
    BY <1>22, <2>1, AgregarListas DEF Wait, Estados
  <2>3. instancias' \in [Recursos -> Nat]
    BY <1>22 DEF Wait
  <2> QED
    BY <1>22, <2>2, <2>3 DEF Wait, Deja, Hilo, PcDesalojo
<1>23. CASE WaitBloquea
  <2>1. desalojo.pcb \in Procesos
    BY <1>23, ConPcbManejo DEF WaitBloquea
  <2>2. procesos_bloqueados' \in [Recursos -> Seq(Procesos)]
    BY <1>23, <2>1, AppendProperties DEF WaitBloquea
  <2>3. instancias' \in [Recursos -> Nat]
    BY <1>23 DEF WaitBloquea
  <2> QED
    BY <1>23, <2>2, <2>3 DEF WaitBloquea, Deja, Hilo, PcDesalojo
<1>24. CASE Signal
  <2>1. desalojo.pcb \in Procesos
    BY <1>24, ConPcbManejo DEF Signal
  <2>2. lista_estados' \in [Estados -> Seq(Procesos)]
    BY <1>24, <2>1, AgregarListas DEF Signal, Estados
  <2>3. instancias' \in [Recursos -> Nat]
    BY <1>24 DEF Signal
  <2> QED
    BY <1>24, <2>1, <2>2, <2>3 DEF Signal, Sigue, Hilo, PcDesalojo
<1>25. CASE Despertar
  <2>1. CASE procesos_bloqueados[Arg] = <<>>
    BY <1>25, <2>1 DEF Despertar, Deja, Hilo, PcDesalojo
  <2>2. CASE procesos_bloqueados[Arg] # <<>>
    <3>1. Arg \in Recursos
      BY <1>25 DEF Despertar, HilosConPcb
    <3>2. /\ Head(procesos_bloqueados[Arg]) \in Procesos
          /\ Tail(procesos_bloqueados[Arg]) \in Seq(Procesos)
      BY <2>2, <3>1, HeadTailProperties
    <3>3. lista_estados' \in [Estados -> Seq(Procesos)]
      BY <1>25, <2>2, <3>2, AgregarListas DEF Despertar, Estados
    <3>4. procesos_bloqueados' \in [Recursos -> Seq(Procesos)]
      BY <1>25, <2>2, <3>2 DEF Despertar
    <3> QED
      BY <1>25, <2>2, <3>3, <3>4 DEF Despertar, Deja, Hilo, PcDesalojo
  <2> QED
    BY <2>1, <2>2
<1>26. CASE RecursoInexistente
  BY <1>26, ConPcbManejo DEF RecursoInexistente, TerminarProceso, Maneja,
     Deja, Hilo, PcDesalojo
<1>27. CASE FOpenBloquea
  <2>1. desalojo.pcb \in Procesos
    BY <1>27, ConPcbManejo DEF FOpenBloquea
  <2>2. lista_estados' \in [Estados -> Seq(Procesos)]
    BY <1>27, <2>1, AgregarListas DEF FOpenBloquea, Estados
  <2>3. lista_procesos' \in [Archivos -> Seq(Procesos)]
    BY <1>27, <2>1, AppendProperties DEF FOpenBloquea
  <2> QED
    BY <1>27, <2>1, <2>2, <2>3 DEF FOpenBloquea, Sigue, Hilo, PcDesalojo
<1>28. CASE FOpen
  <2>1. desalojo.pcb \in Procesos /\ Arg \in Archivos
    BY <1>28, ConPcbManejo DEF FOpen, Maneja, DeArchivo
  <2>2. lista_estados' \in [Estados -> Seq(Procesos)]
    BY <1>28, <2>1, AgregarListas DEF FOpen, Estados
  <2>3. lista_procesos' \in [Archivos -> Seq(Procesos)]
    BY <1>28, EmptySeq DEF FOpen
  <2>4. semaforo_estado' \in [Archivos -> Nat]
    BY <1>28 DEF FOpen
  <2>5. archivos_abiertos' \in [Procesos -> SUBSET Archivos]
    BY <1>28, <2>1 DEF FOpen
  <2> QED
    BY <1>28, <2>1, <2>2, <2>3, <2>4, <2>5
       DEF FOpen, Deja, Hilo, PcDesalojo
<1>29. CASE FClose
  BY <1>29, AgregarListas, ConPcbManejo, NadieEspera DEF FClose, Maneja,
     Deja, Hilo, PcDesalojo, Estados
<1>30. CASE FSeek
  BY <1>30, AgregarListas, ConPcbManejo DEF FSeek, Maneja, Deja, Hilo,
     PcDesalojo, Estados
<1>31. CASE FReadWrite
  BY <1>31, AgregarListas, ConPcbManejo DEF FReadWrite, Maneja, Sigue, Hilo,
     PcDesalojo, Estados
<1>32. CASE ArchivoNoAbierto
  BY <1>32 DEF ArchivoNoAbierto, Caer, hilos
<1>33. CASE Truncate
  BY <1>33, AgregarListas, ConPcbManejo DEF Truncate, Maneja, Sigue, Hilo,
     PcDesalojo, Estados
<1>34. CASE FinFs
  BY <1>34, MoverListas DEF FinFs, Deja, Hilo, PcDesalojo, Estados,
     HilosConPcb, ConPcb
<1>35. CASE CreateSegment
  <2>1. desalojo.pcb \in Procesos
    BY <1>35, ConPcbManejo DEF CreateSegment, HilosConPcb, ConPcb
  <2>2. /\ desalojo' \in [pc : PcDesalojo, pcb : Procesos \cup {Nadie}]
        /\ finalizados' \subseteq Procesos
    BY <1>35, <2>1 DEF CreateSegment, Deja, Sigue, Hilo, PcDesalojo,
       TerminarProceso
  <2>3. lista_estados' \in [Estados -> Seq(Procesos)]
    BY <1>35, <2>1, AgregarListas DEF CreateSegment, Estados
  <2>4. mutex_memoria' \in BOOLEAN /\ respuestas' \in Respuestas
    BY <1>35 DEF CreateSegment, Respuestas
  <2> QED
    BY <1>35, <2>2, <2>3, <2>4 DEF CreateSegment
<1>36. CASE DeleteSegment
  BY <1>36, AgregarListas, ConPcbManejo DEF DeleteSegment, Maneja, Deja,
     Hilo, PcDesalojo, Estados
<1>37. CASE PostCpu
  BY <1>37, TrasTipo DEF PostCpu, Semaforos, Post, Sigue, Hilo
<1>38. CASE PostReady
  <2>1. sem' \in [Semaforos -> Nat]
    BY <1>38, SMTT(30) DEF PostReady, Post, Semaforos
  <2>2. desalojo' \in [pc : PcDesalojo, pcb : Procesos \cup {Nadie}]
    BY <1>38, TrasTipo DEF PostReady, Hilo
  <2>3. UNCHANGED semaforo_estado
    BY <1>38, NadiePasaLaEspera DEF PostReady
  <2> QED
    BY <1>38, <2>1, <2>2, <2>3 DEF PostReady
<1>39. CASE PostGrado
  BY <1>39 DEF PostGrado, Semaforos, Post, Deja, Hilo, PcDesalojo
<1>40. CASE Unlock
  BY <1>40, TrasTipo DEF Unlock, Sigue, Hilo
<1>41. CASE UNCHANGED vars
  BY <1>41 DEF vars, hilos
<1>42. CASE CrearPcb
  BY <1>42 DEF CrearPcb, Hilo, PcLargo, Respuestas
<1>43. CASE RespuestaIlegible
  BY <1>43 DEF RespuestaIlegible, Caer, hilos
<1> HIDE DEF TypeOK
<1> QED
  BY <1>1, <1>2, <1>3, <1>4, <1>5, <1>6, <1>7, <1>8, <1>9, <1>10, <1>11,
     <1>12, <1>13, <1>14, <1>15, <1>16, <1>17, <1>18, <1>19, <1>20, <1>21,
     <1>22, <1>23, <1>24, <1>25, <1>26, <1>27, <1>28, <1>29, <1>30, <1>31,
     <1>32, <1>33, <1>34, <1>35, <1>36, <1>37, <1>38, <1>39, <1>40, <1>41,
     <1>42, <1>43 DEF Next, Consola, Largo, Corto, Desalojo

-----------------------------------------------------------------------------
(* The threads have what they use *)

\* Every action leaves each thread with the PCB its next action uses.
LEMMA HilosPaso ==
    ASSUME TypeOK, HilosConPcb, [Next]_vars
    PROVE  HilosConPcb'
<1> USE DEF HilosConPcb, pcbs, Instruccion, Arg, Hilo
<1>1. CASE (\E p \in Procesos : RecibirDeConsola(p) \/ Consola(p))
  BY <1>1, OtrosHilosRespetan DEF OtrosHilos, RecibirDeConsola, Consola,
     AgregarNew, PostInicializar
<1>2. CASE EsperarInicializar
  BY <1>2, OtrosHilosRespetan DEF OtrosHilos, Largo, EsperarInicializar
<1>3. CASE TomarNew
  BY <1>3, OtrosHilosRespetan, HeadTailProperties DEF OtrosHilos, Largo,
     TomarNew, TypeOK, Estados
<1>4. CASE EsperarGrado
  BY <1>4, OtrosHilosRespetan DEF OtrosHilos, Largo, EsperarGrado
<1>5. CASE MoverAReady
  BY <1>5, OtrosHilosRespetan DEF OtrosHilos, Largo, MoverAReady
<1>6. CASE SoltarNew
  BY <1>6, OtrosHilosRespetan DEF OtrosHilos, Largo, SoltarNew
<1>7. CASE PostTerminado
  BY <1>7, OtrosHilosRespetan DEF OtrosHilos, Largo, PostTerminado
<1>8. CASE EsperarCpu
  BY <1>8, OtrosHilosRespetan DEF OtrosHilos, Corto, EsperarCpu
<1>9. CASE EsperarTerminado
  BY <1>9, OtrosHilosRespetan DEF OtrosHilos, Corto, EsperarTerminado
<1>10. CASE Elegir
  <2>1. UNCHANGED <<pcbs, desalojo, largo>>
    BY <1>10, OtrosHilosRespetan DEF OtrosHilos, Corto, Elegir
  <2>2. lista_estados["READY"] \in Seq(Procesos)
    BY DEF TypeOK, Estados
  <2>3. \/ corto' = corto
        \/ corto'.pcb \in Procesos
    BY <1>10, <2>2 DEF Elegir, Elegibles
  <2>4. corto.pc = "elegir"
    BY <1>10 DEF Elegir
  <2> QED
    BY <2>1, <2>3, <2>4
<1>11. CASE AgregarExecuting
  BY <1>11, OtrosHilosRespetan DEF OtrosHilos, Corto, AgregarExecuting
<1>12. CASE UnlockExecuting
  BY <1>12, OtrosHilosRespetan DEF OtrosHilos, Corto, UnlockExecuting
<1>13. CASE LockExecuting
  BY <1>13 DEF LockExecuting, ConPcb
<1>14. CASE EnviarACpu
  BY <1>14, HeadTailProperties DEF EnviarACpu, TypeOK, Estados, ConPcb
<1>15. CASE RecibirDeCpu
  <2>1. CASE contador[desalojo.pcb] = Len(programa[desalojo.pcb])
    BY <1>15, <2>1 DEF RecibirDeCpu, hilos
  <2>2. CASE contador[desalojo.pcb] # Len(programa[desalojo.pcb])
    <3>1. desalojo.pcb \in Procesos
      BY <1>15 DEF RecibirDeCpu, ConPcb
    <3>2. Len(programa[desalojo.pcb]) \in Nat
      BY <3>1, ProgramasAssumption, LenProperties DEF TypeOK
    <3>3. contador[desalojo.pcb] + 1 \in 1 .. Len(programa[desalojo.pcb])
      BY <2>2, <3>1, <3>2
    <3>4. /\ contador' = [contador EXCEPT ![desalojo.pcb] = @ + 1]
          /\ desalojo' = Hilo("manejo", desalojo.pcb)
          /\ UNCHANGED <<programa, consola, largo, corto>>
      BY <1>15, <2>2 DEF RecibirDeCpu
    <3>5. \A p \in Procesos : contador'[p] \in 0 .. Len(programa'[p])
      BY <3>1, <3>2, <3>3, <3>4 DEF TypeOK
    <3> QED
      BY <3>1, <3>3, <3>4, <3>5 DEF TypeOK
  <2> QED
    BY <2>1, <2>2
<1>16. CASE Yield
  BY <1>16 DEF Yield, Deja, Maneja, ConPcb
<1>17. CASE Exit
  BY <1>17 DEF Exit, Deja, TerminarProceso, Maneja, ConPcb
<1>18. CASE Io
  BY <1>18 DEF Io, Sigue, Maneja, ConPcb
<1>19. CASE FinIo
  BY <1>19 DEF FinIo, Deja, ConPcb
<1>20. CASE Wait
  BY <1>20 DEF Wait, Deja, Maneja, ConPcb
<1>21. CASE WaitBloquea
  BY <1>21 DEF WaitBloquea, Deja, Maneja, ConPcb
<1>22. CASE Signal
  BY <1>22 DEF Signal, Sigue, Maneja, ConPcb
<1>23. CASE Despertar
  <2>1. desalojo' = Hilo("lock", Nadie) \/ desalojo' = Hilo("post_ready", Nadie)
    BY <1>23 DEF Despertar, Deja
  <2>2. UNCHANGED <<pcbs, largo, corto>>
    BY <1>23 DEF Despertar
  <2> QED
    BY <2>1, <2>2 DEF ConPcb
<1>24. CASE RecursoInexistente
  BY <1>24 DEF RecursoInexistente, Deja, TerminarProceso, Maneja, ConPcb
<1>25. CASE FOpenBloquea
  BY <1>25, ConPcbManejo DEF FOpenBloquea, Sigue, Maneja, ConPcb, DeArchivo
<1>26. CASE FOpen
  BY <1>26 DEF FOpen, Deja, Maneja, ConPcb
<1>27. CASE FClose
  BY <1>27 DEF FClose, Deja, Maneja, ConPcb
<1>28. CASE FSeek
  BY <1>28 DEF FSeek, Deja, Maneja, ConPcb
<1>29. CASE FReadWrite
  BY <1>29 DEF FReadWrite, Sigue, Maneja, ConPcb
<1>30. CASE ArchivoNoAbierto
  BY <1>30 DEF ArchivoNoAbierto, hilos
<1>31. CASE Truncate
  BY <1>31 DEF Truncate, Sigue, Maneja, ConPcb
<1>32. CASE FinFs
  BY <1>32 DEF FinFs, Deja, ConPcb
<1>33. CASE CreateSegment
  BY <1>33 DEF CreateSegment, Deja, Sigue, TerminarProceso, Maneja, ConPcb
<1>34. CASE DeleteSegment
  BY <1>34 DEF DeleteSegment, Deja, Maneja, ConPcb
<1>35. CASE PostCpu
  BY <1>35, TrasValores DEF PostCpu, Sigue, ConPcb
<1>36. CASE PostReady
  BY <1>36, TrasValores DEF PostReady, ConPcb
<1>37. CASE PostGrado
  BY <1>37 DEF PostGrado, Deja, ConPcb
<1>38. CASE Unlock
  BY <1>38, TrasValores DEF Unlock, Sigue, ConPcb
<1>39. CASE UNCHANGED vars
  BY <1>39 DEF vars, hilos, recursos, archivos, semaforos, pcbs
<1>40. CASE CrearPcb
  BY <1>40, OtrosHilosRespetan DEF OtrosHilos, Largo, CrearPcb
<1>41. CASE RespuestaIlegible
  BY <1>41 DEF RespuestaIlegible, hilos, recursos, archivos, semaforos
<1> QED
  BY <1>1, <1>2, <1>3, <1>4, <1>5, <1>6, <1>7, <1>8, <1>9, <1>10, <1>11,
     <1>12, <1>13, <1>14, <1>15, <1>16, <1>17, <1>18, <1>19, <1>20, <1>21,
     <1>22, <1>23, <1>24, <1>25, <1>26, <1>27, <1>28, <1>29, <1>30, <1>31,
     <1>32, <1>33, <1>34, <1>35, <1>36, <1>37, <1>38, <1>39, <1>40, <1>41 DEF
     Next, OtrosHilos, Desalojo, Consola, Largo, Corto

-----------------------------------------------------------------------------
(* BLOCKED and the waits for files *)

\* What manejo_desalojo_pcb puts in BLOCKED it takes out before the next one.
LEMMA UnicoPaso ==
    ASSUME TypeOK, HilosConPcb, UnicoBloqueado, NadieDespiertaPorArchivo,
           [Next]_vars
    PROVE  UnicoBloqueado'
<1> USE DEF UnicoBloqueado, Hilo
<1>1. CASE OtrosHilos
  BY <1>1, OtrosHilosRespetan
<1>2. CASE LockExecuting
  BY <1>2 DEF LockExecuting
<1>3. CASE EnviarACpu
  BY <1>3 DEF EnviarACpu, TypeOK, Estados
<1>4. CASE RecibirDeCpu
  BY <1>4 DEF RecibirDeCpu
<1>5. CASE Yield
  BY <1>5, AgregarListas, ConPcbManejo DEF Yield, Deja, Maneja, TypeOK,
     Estados
<1>6. CASE Exit
  BY <1>6, ConPcbManejo DEF Exit, Deja, TerminarProceso, Maneja
<1>7. CASE Io
  <2>1. desalojo.pcb \in Procesos
    BY <1>7, ConPcbManejo DEF Io
  <2>2. lista_estados["BLOCKED"] = <<>>
    BY <1>7 DEF Io, Maneja
  <2> QED
    BY <1>7, <2>1, <2>2, AgregarListas, AppendVacia
       DEF Io, TypeOK, Estados, Sigue
<1>8. CASE FinIo
  BY <1>8 DEF FinIo, TypeOK, Estados, Deja
<1>9. CASE Wait
  BY <1>9, AgregarListas, ConPcbManejo DEF Wait, Deja, Maneja, TypeOK,
     Estados
<1>10. CASE WaitBloquea
  BY <1>10, ConPcbManejo DEF WaitBloquea, Deja, Maneja
<1>11. CASE Signal
  BY <1>11, AgregarListas, ConPcbManejo DEF Signal, Sigue, Maneja, TypeOK,
     Estados
<1>12. CASE Despertar
  <2>1. CASE procesos_bloqueados[Arg] = <<>>
    BY <1>12, <2>1 DEF Despertar, Deja
  <2>2. CASE procesos_bloqueados[Arg] # <<>>
    <3>1. Head(procesos_bloqueados[Arg]) \in Procesos
      BY <1>12, <2>2, HeadTailProperties DEF Despertar, HilosConPcb, TypeOK
    <3>2. lista_estados'["BLOCKED"] = lista_estados["BLOCKED"]
      BY <1>12, <2>2, <3>1, AgregarListas DEF Despertar, TypeOK, Estados
    <3> QED
      BY <1>12, <2>2, <3>2 DEF Despertar, Deja
  <2> QED
    BY <2>1, <2>2
<1>13. CASE RecursoInexistente
  BY <1>13, ConPcbManejo DEF RecursoInexistente, Deja, TerminarProceso,
     Maneja
<1>14. CASE FOpenBloquea
  <2>1. desalojo.pcb \in Procesos
    BY <1>14, ConPcbManejo DEF FOpenBloquea
  <2>2. lista_estados["BLOCKED"] = <<>>
    BY <1>14 DEF FOpenBloquea, Maneja
  <2> QED
    BY <1>14, <2>1, <2>2, AgregarListas, AppendVacia
       DEF FOpenBloquea, TypeOK, Estados, Sigue
<1>15. CASE FOpen
  BY <1>15, AgregarListas, ConPcbManejo DEF FOpen, Deja, Maneja, TypeOK,
     Estados
<1>16. CASE FClose
  BY <1>16, AgregarListas, ConPcbManejo, NadieEspera DEF FClose, TypeOK,
     Estados, Maneja, Deja
<1>17. CASE FSeek
  BY <1>17, AgregarListas, ConPcbManejo DEF FSeek, Deja, Maneja, TypeOK,
     Estados
<1>18. CASE FReadWrite
  <2>1. desalojo.pcb \in Procesos
    BY <1>18, ConPcbManejo DEF FReadWrite
  <2>2. lista_estados["BLOCKED"] = <<>>
    BY <1>18 DEF FReadWrite, Maneja
  <2> QED
    BY <1>18, <2>1, <2>2, AgregarListas, AppendVacia
       DEF FReadWrite, TypeOK, Estados, Sigue
<1>19. CASE ArchivoNoAbierto
  BY <1>19 DEF ArchivoNoAbierto, hilos
<1>20. CASE Truncate
  <2>1. desalojo.pcb \in Procesos
    BY <1>20, ConPcbManejo DEF Truncate
  <2>2. lista_estados["BLOCKED"] = <<>>
    BY <1>20 DEF Truncate, Maneja
  <2> QED
    BY <1>20, <2>1, <2>2, AgregarListas, AppendVacia
       DEF Truncate, TypeOK, Estados, Sigue
<1>21. CASE FinFs
  <2> DEFINE solo == <<desalojo.pcb>>
  <2>1. desalojo.pcb \in Procesos /\ lista_estados["BLOCKED"] = solo
    BY <1>21 DEF FinFs, HilosConPcb, ConPcb
  <2>2. solo \in Seq(Procesos) /\ solo # <<>> /\ Len(solo) = 1
    BY <2>1
  <2> HIDE DEF solo
  <2>3. \A i : SinPosicion(solo, i) = <<>>
    BY <2>2, SinPosicionLargo, SinPosicionTipo, EmptySeq
  <2> QED
    BY <1>21, <2>1, <2>3, MoverListas DEF FinFs, TypeOK, Estados, Deja
<1>22. CASE CreateSegment
  <2>1. desalojo.pcb \in Procesos
    BY <1>22, ConPcbManejo DEF CreateSegment, HilosConPcb, ConPcb
  <2>2. lista_estados'["BLOCKED"] = lista_estados["BLOCKED"]
    BY <1>22, <2>1, AgregarListas DEF CreateSegment, TypeOK, Estados
  <2>3. /\ desalojo.pc \in {"manejo", "reintentar"}
        /\ desalojo'.pc \in {"unlock", "unlock_reintentar",
                             "post_cpu_grado", "reintentar", "lock"}
    BY <1>22 DEF CreateSegment, Maneja, Deja, Sigue, TerminarProceso
  <2> QED
    BY <2>2, <2>3
<1>23. CASE DeleteSegment
  BY <1>23, AgregarListas, ConPcbManejo DEF DeleteSegment, Deja, Maneja,
     TypeOK, Estados
<1>24. CASE PostCpu
  BY <1>24, TrasValores DEF PostCpu, Sigue
<1>25. CASE PostReady
  BY <1>25, NadiePasaLaEspera, TrasValores DEF PostReady
<1>26. CASE PostGrado
  BY <1>26 DEF PostGrado, Deja
<1>27. CASE Unlock
  BY <1>27, TrasValores DEF Unlock, Sigue
<1>28. CASE UNCHANGED vars
  BY <1>28 DEF vars, hilos, recursos, archivos, semaforos, pcbs
<1>29. CASE RespuestaIlegible
  BY <1>29 DEF RespuestaIlegible, hilos, recursos, archivos, semaforos, pcbs
<1> QED
  BY <1>1, <1>2, <1>3, <1>4, <1>5, <1>6, <1>7, <1>8, <1>9, <1>10, <1>11,
     <1>12, <1>13, <1>14, <1>15, <1>16, <1>17, <1>18, <1>19, <1>20, <1>21,
     <1>22, <1>23, <1>24, <1>25, <1>26, <1>27, <1>28, <1>29 DEF Next,
     OtrosHilos, Desalojo

\* Nobody posts the semaphore of a file: F_CLOSE never finds a process queued.
LEMMA NadiePaso ==
    ASSUME TypeOK, HilosConPcb, UnicoBloqueado, NadieDespiertaPorArchivo,
           [Next]_vars
    PROVE  NadieDespiertaPorArchivo'
<1> USE DEF NadieDespiertaPorArchivo, Hilo, archivos
<1>1. CASE OtrosHilos
  BY <1>1, OtrosHilosRespetan
<1>2. CASE LockExecuting
  BY <1>2 DEF LockExecuting
<1>3. CASE EnviarACpu
  BY <1>3 DEF EnviarACpu
<1>4. CASE RecibirDeCpu
  BY <1>4 DEF RecibirDeCpu
<1>5. CASE Yield
  BY <1>5 DEF Yield, Deja, Maneja
<1>6. CASE Exit
  BY <1>6 DEF Exit, Deja, TerminarProceso, Maneja
<1>7. CASE Io
  BY <1>7 DEF Io, Sigue, Maneja
<1>8. CASE FinIo
  BY <1>8 DEF FinIo, Deja
<1>9. CASE Wait
  BY <1>9 DEF Wait, Deja, Maneja
<1>10. CASE WaitBloquea
  BY <1>10 DEF WaitBloquea, Deja, Maneja
<1>11. CASE Signal
  BY <1>11 DEF Signal, Sigue, Maneja
<1>12. CASE Despertar
  BY <1>12 DEF Despertar, Deja
<1>13. CASE RecursoInexistente
  BY <1>13 DEF RecursoInexistente, Deja, TerminarProceso, Maneja
<1>14. CASE FOpenBloquea
  BY <1>14 DEF FOpenBloquea, TypeOK, Sigue, Maneja
<1>15. CASE FOpen
  BY <1>15 DEF FOpen, TypeOK, Deja, Maneja
<1>16. CASE FClose
  BY <1>16, NadieEspera, ConPcbManejo DEF FClose, TypeOK, Deja
<1>17. CASE FSeek
  BY <1>17 DEF FSeek, Deja, Maneja
<1>18. CASE FReadWrite
  BY <1>18 DEF FReadWrite, Sigue, Maneja
<1>19. CASE ArchivoNoAbierto
  BY <1>19 DEF ArchivoNoAbierto, hilos
<1>20. CASE Truncate
  BY <1>20 DEF Truncate, Sigue, Maneja
<1>21. CASE FinFs
  BY <1>21 DEF FinFs, Deja
<1>22. CASE CreateSegment
  BY <1>22 DEF CreateSegment, Deja, Sigue, TerminarProceso, Maneja
<1>23. CASE DeleteSegment
  BY <1>23 DEF DeleteSegment, Deja, Maneja
<1>24. CASE PostCpu
  BY <1>24, TrasValores DEF PostCpu, Sigue
<1>25. CASE PostReady
  BY <1>25, NadiePasaLaEspera, TrasValores DEF PostReady
<1>26. CASE PostGrado
  BY <1>26 DEF PostGrado, Deja
<1>27. CASE Unlock
  BY <1>27, TrasValores DEF Unlock, Sigue
<1>28. CASE UNCHANGED vars
  BY <1>28 DEF vars, hilos, recursos, archivos, semaforos, pcbs
<1>29. CASE RespuestaIlegible
  BY <1>29 DEF RespuestaIlegible, hilos, recursos, archivos, semaforos, pcbs
<1> QED
  BY <1>1, <1>2, <1>3, <1>4, <1>5, <1>6, <1>7, <1>8, <1>9, <1>10, <1>11,
     <1>12, <1>13, <1>14, <1>15, <1>16, <1>17, <1>18, <1>19, <1>20, <1>21,
     <1>22, <1>23, <1>24, <1>25, <1>26, <1>27, <1>28, <1>29 DEF Next,
     OtrosHilos, Desalojo

-----------------------------------------------------------------------------
(* The tokens of READY *)

\* A PCB enters READY with a post of sem_proceso_a_ready_terminado to come, and
\* leaves it with a token the dispatcher has taken.
LEMMA TokensPaso ==
    ASSUME TypeOK, HilosConPcb, UnicoBloqueado, NadieDespiertaPorArchivo,
           TokensDeReady, [Next]_vars
    PROVE  TokensDeReady'
<1> USE DEF TokensDeReady, Uno, Hilo, semaforos
<1>1. ASSUME NEW p \in Procesos, RecibirDeConsola(p) PROVE TokensDeReady'
  BY <1>1 DEF RecibirDeConsola, TypeOK
<1>2. ASSUME NEW p \in Procesos, AgregarNew(p) PROVE TokensDeReady'
  BY <1>2, AgregarListas DEF AgregarNew, Estados, TypeOK
<1>3. ASSUME NEW p \in Procesos, PostInicializar(p) PROVE TokensDeReady'
  BY <1>3 DEF PostInicializar, Post, Semaforos, TypeOK
<1>4. CASE EsperarInicializar
  BY <1>4 DEF EsperarInicializar, Espera, Semaforos, TypeOK
<1>5. CASE TomarNew
  BY <1>5 DEF TomarNew, Espera, Semaforos, TypeOK
<1>6. CASE EsperarGrado
  BY <1>6 DEF EsperarGrado, Espera, Semaforos, TypeOK
<1>7. CASE MoverAReady
  <2>1. largo.pcb \in Procesos
    BY <1>7 DEF MoverAReady, HilosConPcb
  <2>2. Len(lista_estados'["READY"]) = Len(lista_estados["READY"]) + 1
    BY <1>7, <2>1, MoverListas DEF MoverAReady, TypeOK, Estados
  <2>3. /\ largo.pc = "ready" /\ largo'.pc = "soltar"
        /\ UNCHANGED <<sem, corto, desalojo>>
    BY <1>7 DEF MoverAReady
  <2>4. Len(lista_estados["READY"]) \in Nat /\ sem["terminado"] \in Nat
    BY DEF TypeOK, Semaforos, Estados
  <2> QED
    BY <2>2, <2>3, <2>4
<1>8. CASE SoltarNew
  BY <1>8 DEF SoltarNew, Post, Semaforos, TypeOK
<1>9. CASE PostTerminado
  BY <1>9 DEF PostTerminado, Post, Semaforos, TypeOK
<1>10. CASE EsperarCpu
  BY <1>10 DEF EsperarCpu, Espera, Semaforos, TypeOK
<1>11. CASE EsperarTerminado
  BY <1>11 DEF EsperarTerminado, Espera, Semaforos, TypeOK
<1>12. CASE Elegir
  <2>1. CASE lista_estados["READY"] = <<>>
    BY <1>12, <2>1 DEF Elegir
  <2>2. CASE lista_estados["READY"] # <<>>
    <3>1. PICK i \in Elegibles :
             /\ corto' = Hilo("agregar", lista_estados["READY"][i])
             /\ lista_estados' = [lista_estados EXCEPT
                                     !["READY"] = SinPosicion(@, i)]
      BY <1>12, <2>2 DEF Elegir
    <3>2. Len(lista_estados'["READY"]) = Len(lista_estados["READY"]) - 1
      BY <2>2, <3>1, SinPosicionLargo DEF TypeOK, Estados
    <3>3. /\ corto.pc = "elegir" /\ corto'.pc = "agregar"
          /\ UNCHANGED <<sem, largo, desalojo>>
      BY <1>12, <3>1 DEF Elegir
    <3>4. Len(lista_estados["READY"]) \in Nat /\ sem["terminado"] \in Nat
      BY DEF TypeOK, Semaforos, Estados
    <3> QED
      BY <3>2, <3>3, <3>4
  <2> QED
    BY <2>1, <2>2
<1>13. CASE AgregarExecuting
  BY <1>13, AgregarListas DEF AgregarExecuting, TypeOK, Estados, HilosConPcb
<1>14. CASE UnlockExecuting
  BY <1>14 DEF UnlockExecuting, TypeOK
<1>15. CASE LockExecuting
  BY <1>15 DEF LockExecuting, TypeOK
<1>16. CASE EnviarACpu
  BY <1>16 DEF EnviarACpu, TypeOK, Estados
<1>17. CASE RecibirDeCpu
  BY <1>17 DEF RecibirDeCpu, TypeOK
<1>18. CASE Yield
  <2>1. desalojo.pcb \in Procesos
    BY <1>18, ConPcbManejo DEF Yield
  <2>2. Len(lista_estados'["READY"]) = Len(lista_estados["READY"]) + 1
    BY <1>18, <2>1, AgregarListas DEF Yield, TypeOK, Estados
  <2>3. /\ desalojo.pc = "manejo" /\ desalojo'.pc = "post_cpu_ready"
        /\ UNCHANGED <<sem, corto, largo>>
    BY <1>18 DEF Yield, Deja, Maneja
  <2>4. Len(lista_estados["READY"]) \in Nat /\ sem["terminado"] \in Nat
    BY DEF TypeOK, Semaforos, Estados
  <2> QED
    BY <2>2, <2>3, <2>4
<1>19. CASE Exit
  <2>1. /\ desalojo.pc = "manejo" /\ desalojo'.pc = "post_cpu_grado"
        /\ UNCHANGED <<lista_estados, sem, corto, largo>>
    BY <1>19 DEF Exit, Deja, TerminarProceso, Maneja
  <2> QED
    BY <2>1
<1>20. CASE Io
  <2>1. lista_estados'["READY"] = lista_estados["READY"]
    BY <1>20, AgregarListas, ConPcbManejo DEF Io, TypeOK, Estados
  <2>2. /\ desalojo.pc = "manejo" /\ desalojo'.pc = "io"
        /\ UNCHANGED <<sem, corto, largo>>
    BY <1>20 DEF Io, Sigue, Maneja
  <2> QED
    BY <2>1, <2>2
<1>21. CASE FinIo
  <2>1. desalojo.pcb \in Procesos
    BY <1>21 DEF FinIo, HilosConPcb, ConPcb
  <2>2. Len(lista_estados'["READY"]) = Len(lista_estados["READY"]) + 1
    BY <1>21, <2>1, AppendProperties DEF FinIo, TypeOK, Estados
  <2>3. /\ desalojo.pc = "io" /\ desalojo'.pc = "post_cpu_ready"
        /\ UNCHANGED <<sem, corto, largo>>
    BY <1>21 DEF FinIo, Deja
  <2>4. Len(lista_estados["READY"]) \in Nat /\ sem["terminado"] \in Nat
    BY DEF TypeOK, Semaforos, Estados
  <2> QED
    BY <2>2, <2>3, <2>4
<1>22. CASE Wait
  <2>1. lista_estados'["READY"] = lista_estados["READY"]
    BY <1>22, AgregarListas, ConPcbManejo DEF Wait, TypeOK, Estados
  <2>2. /\ desalojo.pc = "manejo" /\ desalojo'.pc = "unlock"
        /\ UNCHANGED <<sem, corto, largo>>
    BY <1>22 DEF Wait, Deja, Maneja
  <2> QED
    BY <2>1, <2>2
<1>23. CASE WaitBloquea
  <2>1. /\ desalojo.pc = "manejo" /\ desalojo'.pc = "post_cpu"
        /\ UNCHANGED <<lista_estados, sem, corto, largo>>
    BY <1>23 DEF WaitBloquea, Deja, Maneja
  <2> QED
    BY <2>1
<1>24. CASE Signal
  <2>1. lista_estados'["READY"] = lista_estados["READY"]
    BY <1>24, AgregarListas, ConPcbManejo DEF Signal, TypeOK, Estados
  <2>2. /\ desalojo.pc = "manejo" /\ desalojo'.pc = "unlock_despertar"
        /\ UNCHANGED <<sem, corto, largo>>
    BY <1>24 DEF Signal, Sigue, Maneja
  <2> QED
    BY <2>1, <2>2
<1>25. CASE Despertar
  <2>1. CASE procesos_bloqueados[Arg] = <<>>
    BY <1>25, <2>1 DEF Despertar, Deja
  <2>2. CASE procesos_bloqueados[Arg] # <<>>
    <3>1. Head(procesos_bloqueados[Arg]) \in Procesos
      BY <1>25, <2>2, HeadTailProperties DEF Despertar, HilosConPcb, TypeOK
    <3>2. Len(lista_estados'["READY"]) = Len(lista_estados["READY"]) + 1
      BY <1>25, <2>2, <3>1, AgregarListas DEF Despertar, TypeOK, Estados
    <3>3. /\ desalojo.pc = "despertar" /\ desalojo'.pc = "post_ready"
          /\ UNCHANGED <<sem, corto, largo>>
      BY <1>25, <2>2 DEF Despertar, Deja
    <3>4. Len(lista_estados["READY"]) \in Nat /\ sem["terminado"] \in Nat
      BY DEF TypeOK, Semaforos, Estados
    <3> QED
      BY <3>2, <3>3, <3>4
  <2> QED
    BY <2>1, <2>2
<1>26. CASE RecursoInexistente
  <2>1. /\ desalojo.pc = "manejo" /\ desalojo'.pc = "post_cpu_grado"
        /\ UNCHANGED <<lista_estados, sem, corto, largo>>
    BY <1>26 DEF RecursoInexistente, Deja, TerminarProceso, Maneja
  <2> QED
    BY <2>1
<1>27. CASE FOpenBloquea
  <2>1. lista_estados'["READY"] = lista_estados["READY"]
    BY <1>27, AgregarListas, ConPcbManejo DEF FOpenBloquea, TypeOK, Estados
  <2>2. /\ desalojo.pc = "manejo" /\ desalojo'.pc = "espera_archivo"
        /\ UNCHANGED <<sem, corto, largo>>
    BY <1>27 DEF FOpenBloquea, Sigue, Maneja
  <2> QED
    BY <2>1, <2>2
<1>28. CASE FOpen
  <2>1. lista_estados'["READY"] = lista_estados["READY"]
    BY <1>28, AgregarListas, ConPcbManejo DEF FOpen, TypeOK, Estados
  <2>2. /\ desalojo.pc = "manejo" /\ desalojo'.pc = "unlock_cpu"
        /\ UNCHANGED <<sem, corto, largo>>
    BY <1>28 DEF FOpen, Deja, Maneja
  <2> QED
    BY <2>1, <2>2
<1>29. CASE FClose
  <2>1. lista_estados'["READY"] = lista_estados["READY"]
    BY <1>29, AgregarListas, ConPcbManejo, NadieEspera
       DEF FClose, TypeOK, Estados
  <2>2. /\ desalojo.pc = "manejo" /\ desalojo'.pc = "unlock_cpu"
        /\ UNCHANGED <<sem, corto, largo>>
    BY <1>29 DEF FClose, Deja, Maneja
  <2> QED
    BY <2>1, <2>2
<1>30. CASE FSeek
  <2>1. lista_estados'["READY"] = lista_estados["READY"]
    BY <1>30, AgregarListas, ConPcbManejo DEF FSeek, TypeOK, Estados
  <2>2. /\ desalojo.pc = "manejo" /\ desalojo'.pc = "unlock_cpu"
        /\ UNCHANGED <<sem, corto, largo>>
    BY <1>30 DEF FSeek, Deja, Maneja
  <2> QED
    BY <2>1, <2>2
<1>31. CASE FReadWrite
  <2>1. lista_estados'["READY"] = lista_estados["READY"]
    BY <1>31, AgregarListas, ConPcbManejo DEF FReadWrite, TypeOK, Estados
  <2>2. /\ desalojo.pc = "manejo" /\ desalojo'.pc = "fs"
        /\ UNCHANGED <<sem, corto, largo>>
    BY <1>31 DEF FReadWrite, Sigue, Maneja
  <2> QED
    BY <2>1, <2>2
<1>32. CASE ArchivoNoAbierto
  <2>1. UNCHANGED <<lista_estados, sem, corto, largo, desalojo>>
    BY <1>32 DEF ArchivoNoAbierto, hilos
  <2> QED
    BY <2>1
<1>33. CASE Truncate
  <2>1. lista_estados'["READY"] = lista_estados["READY"]
    BY <1>33, AgregarListas, ConPcbManejo DEF Truncate, TypeOK, Estados
  <2>2. /\ desalojo.pc = "manejo" /\ desalojo'.pc = "truncate"
        /\ UNCHANGED <<sem, corto, largo>>
    BY <1>33 DEF Truncate, Sigue, Maneja
  <2> QED
    BY <2>1, <2>2
<1>34. CASE FinFs
  <2>1. desalojo.pcb \in Procesos
    BY <1>34 DEF FinFs, HilosConPcb, ConPcb
  <2>2. Len(lista_estados'["READY"]) = Len(lista_estados["READY"]) + 1
    BY <1>34, <2>1, MoverListas DEF FinFs, TypeOK, Estados
  <2> QED
    BY <1>34, <2>2 DEF FinFs, Deja, TypeOK, Semaforos
<1>35. CASE CreateSegment
  <2>1. desalojo.pcb \in Procesos
    BY <1>35, ConPcbManejo DEF CreateSegment, HilosConPcb, ConPcb
  <2>2. lista_estados'["READY"] = lista_estados["READY"]
    BY <1>35, <2>1, AgregarListas DEF CreateSegment, TypeOK, Estados
  <2>3. /\ desalojo.pc \in {"manejo", "reintentar"}
        /\ desalojo'.pc \in {"unlock", "unlock_reintentar",
                             "post_cpu_grado", "reintentar", "lock"}
    BY <1>35 DEF CreateSegment, Maneja, Deja, Sigue, TerminarProceso
  <2> QED
    BY <1>35, <2>2, <2>3 DEF CreateSegment
<1>36. CASE DeleteSegment
  <2>1. lista_estados'["READY"] = lista_estados["READY"]
    BY <1>36, AgregarListas, ConPcbManejo DEF DeleteSegment, TypeOK, Estados
  <2>2. /\ desalojo.pc = "manejo" /\ desalojo'.pc = "unlock"
        /\ UNCHANGED <<sem, corto, largo>>
    BY <1>36 DEF DeleteSegment, Deja, Maneja
  <2> QED
    BY <2>1, <2>2
<1>37. CASE PostCpu
  <2>1. sem'["terminado"] = sem["terminado"]
    BY <1>37 DEF PostCpu, Post, TypeOK, Semaforos
  <2>2. \/ /\ desalojo.pc = "post_cpu_ready" /\ desalojo'.pc = "post_ready"
        \/ /\ desalojo.pc \in {"post_cpu", "post_cpu_grado", "truncate"}
           /\ desalojo'.pc \in {"lock", "post_grado", "fs_truncate"}
    BY <1>37, TrasValores DEF PostCpu, Sigue
  <2>3. UNCHANGED <<lista_estados, corto, largo>>
    BY <1>37 DEF PostCpu
  <2> QED
    BY <2>1, <2>2, <2>3
<1>38. CASE PostReady
  <2>1. desalojo.pc \in {"post_ready", "post_ready_cpu"}
    BY <1>38, NadiePasaLaEspera
  <2>2. desalojo'.pc \in {"lock", "post_cpu"}
    BY <1>38, <2>1, TrasValores DEF PostReady
  <2>3. sem'["terminado"] = sem["terminado"] + 1
    BY <1>38 DEF PostReady, Post, TypeOK, Semaforos
  <2>4. /\ UNCHANGED <<lista_estados, largo, corto>>
        /\ sem["terminado"] \in Nat /\ Len(lista_estados["READY"]) \in Nat
    BY <1>38 DEF PostReady, TypeOK, Semaforos, Estados
  <2> QED
    BY <2>1, <2>2, <2>3, <2>4
<1>39. CASE PostGrado
  BY <1>39 DEF PostGrado, Deja, Post, Semaforos, TypeOK
<1>40. CASE Unlock
  BY <1>40, TrasValores DEF Unlock, Sigue, TypeOK
<1>41. CASE UNCHANGED vars
  BY <1>41 DEF vars, hilos
<1>42. CASE CrearPcb
  BY <1>42 DEF CrearPcb
<1>43. CASE RespuestaIlegible
  BY <1>43 DEF RespuestaIlegible, hilos
<1> QED
  BY <1>1, <1>2, <1>3, <1>4, <1>5, <1>6, <1>7, <1>8, <1>9, <1>10, <1>11,
     <1>12, <1>13, <1>14, <1>15, <1>16, <1>17, <1>18, <1>19, <1>20, <1>21,
     <1>22, <1>23, <1>24, <1>25, <1>26, <1>27, <1>28, <1>29, <1>30, <1>31,
     <1>32, <1>33, <1>34, <1>35, <1>36, <1>37, <1>38, <1>39, <1>40, <1>41,
     <1>42, <1>43 DEF Next, Consola, Largo, Corto, Desalojo

-----------------------------------------------------------------------------
(* The exchanges with Memoria *)

\* The steps in which the kernel reads an answer of Memoria.
LeeMemoria ==
    CrearPcb \/ CreateSegment \/ DeleteSegment \/ RespuestaIlegible

\* No other step touches the mutex or the connection.
LEMMA SoloLeeMemoria ==
    ASSUME [Next]_vars, ~LeeMemoria
    PROVE  UNCHANGED memoria
<1>1. CASE \E p \in Procesos : RecibirDeConsola(p) \/ Consola(p)
  BY <1>1 DEF RecibirDeConsola, Consola, AgregarNew, PostInicializar
<1>2. CASE Largo \/ Corto
  BY <1>2 DEF Largo, EsperarInicializar, TomarNew, EsperarGrado, MoverAReady,
     SoltarNew, PostTerminado, Corto, EsperarCpu, EsperarTerminado, Elegir,
     AgregarExecuting, UnlockExecuting, LeeMemoria
<1>3. CASE LockExecuting \/ EnviarACpu \/ RecibirDeCpu \/ Yield \/ Exit \/ Io \/ FinIo
  BY <1>3 DEF LockExecuting, EnviarACpu, RecibirDeCpu, Yield, Exit, Io, FinIo
<1>4. CASE Wait \/ WaitBloquea \/ Signal \/ Despertar \/ RecursoInexistente
  BY <1>4 DEF Wait, WaitBloquea, Signal, Despertar, RecursoInexistente
<1>5. CASE \/ FOpenBloquea \/ FOpen \/ FClose \/ FSeek \/ FReadWrite
           \/ ArchivoNoAbierto
  BY <1>5 DEF FOpenBloquea, FOpen, FClose, FSeek, FReadWrite, ArchivoNoAbierto
<1>6. CASE Truncate \/ FinFs \/ PostCpu \/ PostReady \/ PostGrado \/ Unlock
  BY <1>6 DEF Truncate, FinFs, PostCpu, PostReady, PostGrado, Unlock
<1>7. CASE UNCHANGED vars
  BY <1>7 DEF vars
<1> QED
  BY <1>1, <1>2, <1>3, <1>4, <1>5, <1>6, <1>7 DEF Next, Desalojo, LeeMemoria

\* What an exchange in step reads is what Memoria answered to it.
LEMMA ContestacionesAlDia ==
    respuestas = "al_dia" => Contestaciones[respuestas] = RespuestasMemoria
  BY DEF Contestaciones

\* An exchange in step leaves the mutex free, and only an OUT_OF_MEMORY leaves
\* the next one out of step.
LEMMA RespuestasPaso ==
    ASSUME TypeOK, RespuestasAlDia, [Next]_vars
    PROVE  RespuestasAlDia'
<1> USE DEF RespuestasAlDia, memoria
<1>1. CASE CrearPcb
  BY <1>1 DEF CrearPcb
<1>2. CASE CreateSegment
  <2>1. CASE respuestas = "al_dia"
    BY <1>2, <2>1, ContestacionesAlDia, MemoriaAssumption DEF CreateSegment
  <2>2. CASE respuestas # "al_dia"
    BY <1>2, <2>2 DEF CreateSegment
  <2> QED
    BY <2>1, <2>2
<1>3. CASE DeleteSegment
  BY <1>3 DEF DeleteSegment
<1>4. CASE RespuestaIlegible
  BY <1>4 DEF RespuestaIlegible
<1>5. CASE ~LeeMemoria
  BY <1>5, SoloLeeMemoria
<1> QED
  BY <1>1, <1>2, <1>3, <1>4, <1>5 DEF LeeMemoria

-----------------------------------------------------------------------------
(* The inductive invariant and the theorems *)

\* main starts with empty lists, and with no PCB in the hands of a thread.
LEMMA InvInicial == Init => InvInductivo
<1> SUFFICES ASSUME Init PROVE InvInductivo
  OBVIOUS
<1>1. TypeOK
  <2>1. sem \in [Semaforos -> Nat]
    BY GradoAssumption DEF Init, Semaforos
  <2>2. /\ lista_estados \in [Estados -> Seq(Procesos)]
        /\ procesos_bloqueados \in [Recursos -> Seq(Procesos)]
        /\ lista_procesos \in [Archivos -> Seq(Procesos)]
    BY EmptySeq DEF Init
  <2>3. /\ largo \in [pc : PcLargo, pcb : Procesos \cup {Nadie}]
        /\ corto \in [pc : PcCorto, pcb : Procesos \cup {Nadie}]
        /\ desalojo \in [pc : PcDesalojo, pcb : Procesos \cup {Nadie}]
    BY DEF Init, Hilo, PcLargo, PcCorto, PcDesalojo
  <2> QED
    BY <2>1, <2>2, <2>3, RecursosAssumption DEF Init, TypeOK, Respuestas
<1>2. HilosConPcb
  BY <1>1, ProgramasAssumption, LenProperties
     DEF Init, HilosConPcb, ConPcb, Hilo, TypeOK
<1>3. UnicoBloqueado
  BY DEF Init, UnicoBloqueado, Hilo, Estados
<1>4. NadieDespiertaPorArchivo
  BY DEF Init, NadieDespiertaPorArchivo
<1>5. TokensDeReady
  BY DEF Init, TokensDeReady, Uno, Hilo, Estados
<1>6. RespuestasAlDia
  BY DEF Init, RespuestasAlDia
<1> QED
  BY <1>1, <1>2, <1>3, <1>4, <1>5, <1>6 DEF InvInductivo

\* InvInductivo holds in every reachable state of the kernel.
THEOREM InvInductivoTeorema == Spec => []InvInductivo
<1>1. InvInductivo /\ [Next]_vars => InvInductivo'
  BY TypeOKPaso, HilosPaso, UnicoPaso, NadiePaso, TokensPaso, RespuestasPaso
     DEF InvInductivo
<1> QED
  BY <1>1, InvInicial, PTL DEF Spec

\* The variables keep their types: in particular the count of instances of a
\* resource and the semaphores never become negative.
THEOREM TypeOKTeorema == Spec => []TypeOK
<1>1. InvInductivo => TypeOK
  BY DEF InvInductivo
<1> QED
  BY <1>1, InvInductivoTeorema, PTL

\* sem_proceso_a_ready_terminado counts the PCBs of READY, whatever the
\* interleaving of the threads that move and post.
THEOREM TokensDeReadyTeorema == Spec => []TokensDeReady
<1>1. InvInductivo => TokensDeReady
  BY DEF InvInductivo
<1> QED
  BY <1>1, InvInductivoTeorema, PTL

\* BLOCKED never has a PCB other than the one of the handler that waits.
THEOREM UnicoBloqueadoTeorema == Spec => []UnicoBloqueado
<1>1. InvInductivo => UnicoBloqueado
  BY DEF InvInductivo
<1> QED
  BY <1>1, InvInductivoTeorema, PTL

-----------------------------------------------------------------------------
(* The CPU *)

\* The cases of manejo_instrucciones for the three operations are not taken.
LEMMA SinPostDeMasManejo ==
    ASSUME SinPostDeMas, TypeOK, HilosConPcb, NEW ops, Maneja(ops)
    PROVE  Instruccion.op \notin {"F_OPEN", "F_CLOSE", "F_SEEK"}
<1>1. /\ desalojo.pcb \in Procesos
      /\ contador[desalojo.pcb] \in 1 .. Len(programa[desalojo.pcb])
  BY DEF Maneja, HilosConPcb, ConPcb
<1>2. programa[desalojo.pcb] \in Programas
  BY <1>1 DEF TypeOK
<1>3. DOMAIN programa[desalojo.pcb] = 1 .. Len(programa[desalojo.pcb])
  BY <1>2, ProgramasAssumption, LenProperties
<1> QED
  BY <1>1, <1>2, <1>3 DEF SinPostDeMas, Instruccion

\* The tokens of the CPU are counted in the naturals, in every state.
LEMMA TokensCpuTipo ==
    /\ TypeOK => TokensCpu \in Nat
    /\ TypeOK' => TokensCpu' \in Nat
<1>1. ASSUME TypeOK
      PROVE  sem["cpu"] \in Nat /\ Len(lista_estados["EXECUTING"]) \in Nat
  BY <1>1 DEF TypeOK, Semaforos, Estados
<1>2. ASSUME TypeOK'
      PROVE  sem'["cpu"] \in Nat /\ Len(lista_estados'["EXECUTING"]) \in Nat
  BY <1>2 DEF TypeOK, Semaforos, Estados
<1> QED
  BY <1>1, <1>2, SMTT(30) DEF TokensCpu, Uno

\* A step keeps the token of the CPU, or loses it and unlocks the mutex of
\* EXECUTING or leaves that of Memoria locked, and the thread goes to no
\* operation that posts sem_cpu_disponible again.
ConservaCpu ==
    /\ \/ TokensCpu' = TokensCpu
       \/ TokensCpu' = TokensCpu - 1 /\ (desalojo'.pc = "unlock" \/ mutex_memoria')
    /\ desalojo'.pc \notin {"unlock_cpu", "espera_archivo"}

\* No step duplicates the token of the CPU ...
LEMMA TokensCpuPaso ==
    ASSUME SinPostDeMas, TypeOK, HilosConPcb, NadieDespiertaPorArchivo,
           desalojo.pc \notin {"unlock_cpu", "espera_archivo"}, [Next]_vars
    PROVE  ConservaCpu
<1> USE DEF ConservaCpu, TokensCpu, Uno, Hilo, semaforos, EnMano
<1>0. sem["cpu"] \in Nat /\ Len(lista_estados["EXECUTING"]) \in Nat
  BY DEF TypeOK, Semaforos, Estados
<1>1. ASSUME NEW p \in Procesos, RecibirDeConsola(p) PROVE ConservaCpu
  BY <1>0, <1>1 DEF RecibirDeConsola, TypeOK
<1>2. ASSUME NEW p \in Procesos, AgregarNew(p) PROVE ConservaCpu
  BY <1>0, <1>2, AgregarListas, SMTT(30) DEF AgregarNew, Estados, TypeOK
<1>3. ASSUME NEW p \in Procesos, PostInicializar(p) PROVE ConservaCpu
  BY <1>0, <1>3, SMTT(30) DEF PostInicializar, Post, Semaforos, TypeOK
<1>4. CASE EsperarInicializar
  BY <1>0, <1>4 DEF EsperarInicializar, Espera, Semaforos, TypeOK
<1>5. CASE TomarNew
  BY <1>0, <1>5 DEF TomarNew, Espera, Semaforos, TypeOK
<1>6. CASE EsperarGrado
  BY <1>0, <1>6 DEF EsperarGrado, Espera, Semaforos, TypeOK
<1>7. CASE MoverAReady
  <2>1. largo.pcb \in Procesos
    BY <1>7 DEF MoverAReady, HilosConPcb
  <2>2. lista_estados'["EXECUTING"] = lista_estados["EXECUTING"]
    BY <1>7, <2>1, MoverListas DEF MoverAReady, TypeOK, Estados
  <2> QED
    BY <1>0, <1>7, <2>2 DEF MoverAReady
<1>8. CASE SoltarNew
  BY <1>0, <1>8, SMTT(30) DEF SoltarNew, Post, Semaforos, TypeOK
<1>9. CASE PostTerminado
  BY <1>0, <1>9, SMTT(30) DEF PostTerminado, Post, Semaforos, TypeOK
<1>10. CASE EsperarCpu
  BY <1>0, <1>10 DEF EsperarCpu, Espera, Semaforos, TypeOK
<1>11. CASE EsperarTerminado
  BY <1>0, <1>11 DEF EsperarTerminado, Espera, Semaforos, TypeOK
<1>12. CASE Elegir
  BY <1>0, <1>12 DEF Elegir, TypeOK, Estados
<1>13. CASE AgregarExecuting
  <2>1. Len(lista_estados'["EXECUTING"]) = Len(lista_estados["EXECUTING"]) + 1
    BY <1>13, AgregarListas DEF AgregarExecuting, TypeOK, Estados, HilosConPcb
  <2>2. /\ corto.pc = "agregar" /\ corto'.pc = "unlock"
        /\ UNCHANGED <<sem, desalojo>>
    BY <1>13 DEF AgregarExecuting
  <2>3. sem'["cpu"] = sem["cpu"] /\ desalojo'.pc = desalojo.pc
    BY <2>2
  <2> DEFINE n == Len(lista_estados["EXECUTING"])
             k == Uno(desalojo.pc \in EnMano
                        \cup {"io", "truncate", "fs", "post_cpu",
                              "post_cpu_ready", "post_cpu_grado",
                              "post_ready_cpu"})
  <2>4. k \in Int /\ n \in Int
    BY <1>0
  <2>5. TokensCpu = sem["cpu"] + 1 + n + k
    BY <2>2
  <2>6. TokensCpu' = sem["cpu"] + 0 + (n + 1) + k
    BY <2>1, <2>2, <2>3
  <2> HIDE DEF TokensCpu, n, k
  <2>7. TokensCpu' = TokensCpu
    BY <1>0, <2>4, <2>5, <2>6
  <2> QED
    BY <2>3, <2>7
<1>14. CASE UnlockExecuting
  BY <1>0, <1>14 DEF UnlockExecuting, TypeOK
<1>15. CASE LockExecuting
  BY <1>0, <1>15 DEF LockExecuting, TypeOK
<1>16. CASE EnviarACpu
  <2>1. CASE lista_estados["EXECUTING"] = <<>>
    BY <1>0, <1>16, <2>1 DEF EnviarACpu
  <2>2. CASE lista_estados["EXECUTING"] # <<>>
    <3>1. Len(lista_estados'["EXECUTING"])
             = Len(lista_estados["EXECUTING"]) - 1
      BY <1>16, <2>2, HeadTailProperties DEF EnviarACpu, TypeOK, Estados
    <3>2. /\ desalojo.pc = "pop" /\ desalojo'.pc = "cpu"
          /\ UNCHANGED <<sem, corto>>
      BY <1>16, <2>2 DEF EnviarACpu
    <3> DEFINE n == Len(lista_estados["EXECUTING"])
               k == Uno(corto.pc \in {"terminado", "elegir", "agregar"})
    <3>3. n \in Int /\ k \in Int /\ sem["cpu"] \in Int
      BY <1>0
    <3>4. TokensCpu = sem["cpu"] + k + n + 0
      BY <3>2
    <3>5. TokensCpu' = sem["cpu"] + k + (n - 1) + 1
      BY <3>1, <3>2
    <3> HIDE DEF TokensCpu, n, k
    <3>6. TokensCpu' = TokensCpu
      BY <3>3, <3>4, <3>5
    <3> QED
      BY <3>2, <3>6
  <2> QED
    BY <2>1, <2>2
<1>17. CASE RecibirDeCpu
  BY <1>0, <1>17 DEF RecibirDeCpu, TypeOK
<1>18. CASE Yield
  <2>1. desalojo.pcb \in Procesos
    BY <1>18, ConPcbManejo DEF Yield
  <2>2. lista_estados'["EXECUTING"] = lista_estados["EXECUTING"]
    BY <1>18, <2>1, AgregarListas DEF Yield, TypeOK, Estados
  <2> QED
    BY <1>0, <1>18, <2>2 DEF Yield, Deja, Maneja
<1>19. CASE Exit
  BY <1>0, <1>19, ConPcbManejo DEF Exit, Deja, TerminarProceso, Maneja,
     TypeOK
<1>20. CASE Io
  <2>1. desalojo.pcb \in Procesos
    BY <1>20, ConPcbManejo DEF Io
  <2>2. lista_estados'["EXECUTING"] = lista_estados["EXECUTING"]
    BY <1>20, <2>1, AgregarListas DEF Io, TypeOK, Estados
  <2> QED
    BY <1>0, <1>20, <2>2 DEF Io, Sigue, Maneja
<1>21. CASE FinIo
  <2>1. desalojo.pcb \in Procesos
    BY <1>21 DEF FinIo, HilosConPcb, ConPcb
  <2>2. lista_estados'["EXECUTING"] = lista_estados["EXECUTING"]
    BY <1>21, <2>1, MoverListas, AgregarListas DEF FinIo, TypeOK, Estados
  <2> QED
    BY <1>0, <1>21, <2>2 DEF FinIo, Deja
<1>22. CASE Wait
  <2>1. desalojo.pcb \in Procesos
    BY <1>22, ConPcbManejo DEF Wait
  <2>2. Len(lista_estados'["EXECUTING"]) = Len(lista_estados["EXECUTING"]) + 1
    BY <1>22, <2>1, AgregarListas DEF Wait, TypeOK, Estados
  <2>3. /\ desalojo.pc = "manejo" /\ desalojo'.pc = "unlock"
        /\ UNCHANGED <<sem, corto>>
    BY <1>22 DEF Wait, Maneja, Deja, Sigue
  <2> QED
    BY <1>0, <2>2, <2>3
<1>23. CASE WaitBloquea
  BY <1>0, <1>23, ConPcbManejo, SMTT(30) DEF WaitBloquea, Deja, Maneja, TypeOK
<1>24. CASE Signal
  <2>1. desalojo.pcb \in Procesos
    BY <1>24, ConPcbManejo DEF Signal
  <2>2. Len(lista_estados'["EXECUTING"]) = Len(lista_estados["EXECUTING"]) + 1
    BY <1>24, <2>1, AgregarListas DEF Signal, TypeOK, Estados
  <2>3. /\ desalojo.pc = "manejo" /\ desalojo'.pc = "unlock_despertar"
        /\ UNCHANGED <<sem, corto>>
    BY <1>24 DEF Signal, Maneja, Deja, Sigue
  <2> QED
    BY <1>0, <2>2, <2>3
<1>25. CASE Despertar
  <2>1. CASE procesos_bloqueados[Arg] = <<>>
    BY <1>0, <1>25, <2>1 DEF Despertar, Deja
  <2>2. CASE procesos_bloqueados[Arg] # <<>>
    <3>1. Head(procesos_bloqueados[Arg]) \in Procesos
      BY <1>25, <2>2, HeadTailProperties DEF Despertar, HilosConPcb, TypeOK
    <3>2. lista_estados'["EXECUTING"] = lista_estados["EXECUTING"]
      BY <1>25, <2>2, <3>1, AgregarListas DEF Despertar, TypeOK, Estados
    <3> QED
      BY <1>0, <1>25, <2>2, <3>2 DEF Despertar, Deja
  <2> QED
    BY <2>1, <2>2
<1>26. CASE RecursoInexistente
  BY <1>0, <1>26, ConPcbManejo DEF RecursoInexistente, Deja,
     TerminarProceso, Maneja, TypeOK
<1>27. CASE FOpenBloquea
  BY <1>0, <1>27, SinPostDeMasManejo DEF FOpenBloquea, Maneja
<1>28. CASE FOpen
  BY <1>0, <1>28, SinPostDeMasManejo DEF FOpen, Maneja
<1>29. CASE FClose
  BY <1>0, <1>29, SinPostDeMasManejo DEF FClose, Maneja
<1>30. CASE FSeek
  BY <1>0, <1>30, SinPostDeMasManejo DEF FSeek, Maneja
<1>31. CASE FReadWrite
  <2>1. desalojo.pcb \in Procesos
    BY <1>31, ConPcbManejo DEF FReadWrite
  <2>2. lista_estados'["EXECUTING"] = lista_estados["EXECUTING"]
    BY <1>31, <2>1, AgregarListas DEF FReadWrite, TypeOK, Estados
  <2> QED
    BY <1>0, <1>31, <2>2 DEF FReadWrite, Sigue, Maneja
<1>32. CASE ArchivoNoAbierto
  BY <1>0, <1>32 DEF ArchivoNoAbierto, hilos
<1>33. CASE Truncate
  <2>1. desalojo.pcb \in Procesos
    BY <1>33, ConPcbManejo DEF Truncate
  <2>2. lista_estados'["EXECUTING"] = lista_estados["EXECUTING"]
    BY <1>33, <2>1, AgregarListas DEF Truncate, TypeOK, Estados
  <2> QED
    BY <1>0, <1>33, <2>2 DEF Truncate, Sigue, Maneja
<1>34. CASE FinFs
  <2>1. desalojo.pcb \in Procesos
    BY <1>34 DEF FinFs, HilosConPcb, ConPcb
  <2>2. lista_estados'["EXECUTING"] = lista_estados["EXECUTING"]
    BY <1>34, <2>1, MoverListas, AgregarListas DEF FinFs, TypeOK, Estados
  <2> QED
    BY <1>0, <1>34, <2>2 DEF FinFs, Deja
<1>35. CASE CreateSegment
  <2>1. desalojo.pcb \in Procesos
    BY <1>35, ConPcbManejo DEF CreateSegment, HilosConPcb, ConPcb
  <2>2. desalojo.pc \in {"manejo", "reintentar"} /\ UNCHANGED <<sem, corto>>
    BY <1>35 DEF CreateSegment, Maneja
  <2>3. \/ /\ Len(lista_estados'["EXECUTING"])
                = Len(lista_estados["EXECUTING"]) + 1
           /\ desalojo'.pc = "unlock"
        \/ /\ lista_estados'["EXECUTING"] = lista_estados["EXECUTING"]
           /\ desalojo'.pc \in {"unlock", "unlock_reintentar",
                                "post_cpu_grado", "reintentar", "lock"}
           /\ desalojo'.pc = "lock" => mutex_memoria'
    BY <1>35, <2>1, AgregarListas DEF CreateSegment, Deja, Sigue,
       TerminarProceso, TypeOK, Estados
  <2>4. CASE desalojo'.pc = "unlock" /\ Len(lista_estados'["EXECUTING"])
                = Len(lista_estados["EXECUTING"]) + 1
    BY <1>0, <2>2, <2>4, SMTT(30)
  <2>5. CASE lista_estados'["EXECUTING"] = lista_estados["EXECUTING"]
    <3>1. CASE desalojo'.pc = "unlock"
      BY <1>0, <2>2, <2>5, <3>1
    <3>2. CASE desalojo'.pc = "lock"
      <4>1. mutex_memoria'
        BY <2>3, <2>5, <3>2, <1>0
      <4> QED
        BY <1>0, <2>2, <2>5, <3>2, <4>1
    <3>3. CASE desalojo'.pc \in {"unlock_reintentar", "post_cpu_grado", "reintentar"}
      BY <1>0, <2>2, <2>5, <3>3
    <3> QED
      BY <2>3, <3>1, <3>2, <3>3
  <2> QED
    BY <2>3, <2>4, <2>5
<1>36. CASE DeleteSegment
  <2>1. desalojo.pcb \in Procesos
    BY <1>36, ConPcbManejo DEF DeleteSegment
  <2>2. Len(lista_estados'["EXECUTING"]) = Len(lista_estados["EXECUTING"]) + 1
    BY <1>36, <2>1, AgregarListas DEF DeleteSegment, TypeOK, Estados
  <2>3. /\ desalojo.pc = "manejo" /\ desalojo'.pc = "unlock"
        /\ UNCHANGED <<sem, corto>>
    BY <1>36 DEF DeleteSegment, Maneja, Deja, Sigue
  <2> QED
    BY <1>0, <2>2, <2>3
<1>37. CASE PostCpu
  <2>1. sem'["cpu"] = sem["cpu"] + 1
    BY <1>37 DEF PostCpu, Post, TypeOK, Semaforos
  <2>2. /\ desalojo.pc \in {"post_cpu", "post_cpu_ready", "post_cpu_grado",
                            "truncate"}
        /\ desalojo'.pc \in {"lock", "post_ready", "post_grado",
                             "fs_truncate"}
        /\ UNCHANGED <<lista_estados, corto>>
    BY <1>37, TrasValores DEF PostCpu, Sigue
  <2> QED
    BY <1>0, <2>1, <2>2, SMTT(30)
<1>38. CASE PostReady
  <2>1. sem'["cpu"] = sem["cpu"]
    BY <1>38 DEF PostReady, Post, TypeOK, Semaforos
  <2>2. \/ desalojo.pc = "post_ready" /\ desalojo'.pc = "lock"
        \/ desalojo.pc = "post_ready_cpu" /\ desalojo'.pc = "post_cpu"
    BY <1>38, NadiePasaLaEspera, TrasValores DEF PostReady
  <2>3. UNCHANGED <<lista_estados, corto>>
    BY <1>38 DEF PostReady
  <2> QED
    BY <1>0, <2>1, <2>2, <2>3
<1>39. CASE PostGrado
  BY <1>0, <1>39 DEF PostGrado, Deja, Post, Semaforos, TypeOK
<1>40. CASE Unlock
  <2>1. \/ /\ desalojo.pc = "unlock_reintentar"
           /\ desalojo'.pc = "reintentar"
        \/ /\ desalojo.pc \in {"unlock", "unlock_despertar"}
           /\ desalojo'.pc \in {"lock", "despertar"}
    BY <1>40, TrasValores DEF Unlock, Sigue
  <2> QED
    BY <1>0, <1>40, <2>1, SMTT(30) DEF Unlock
<1>41. CASE UNCHANGED vars
  BY <1>0, <1>41 DEF vars, hilos
<1>42. CASE CrearPcb
  BY <1>0, <1>42 DEF CrearPcb
<1>43. CASE RespuestaIlegible
  BY <1>0, <1>43 DEF RespuestaIlegible, hilos
<1> QED
  BY <1>1, <1>2, <1>3, <1>4, <1>5, <1>6, <1>7, <1>8, <1>9, <1>10, <1>11,
     <1>12, <1>13, <1>14, <1>15, <1>16, <1>17, <1>18, <1>19, <1>20, <1>21,
     <1>22, <1>23, <1>24, <1>25, <1>26, <1>27, <1>28, <1>29, <1>30, <1>31,
     <1>32, <1>33, <1>34, <1>35, <1>36, <1>37, <1>38, <1>39, <1>40, <1>41,
     <1>42, <1>43 DEF Next, Consola, Largo, Corto, Desalojo

\* ... nor is a PCB left in EXECUTING with no signal to the thread that sends
\* it to the CPU.
LEMMA SenalPaso ==
    ASSUME SinPostDeMas, TypeOK, HilosConPcb, InvCpu, UnaCpu', [Next]_vars
    PROVE  SenalDeExecuting'
<1> USE DEF InvCpu, SenalDeExecuting, Hilo, semaforos
<1>1. ASSUME NEW p \in Procesos, RecibirDeConsola(p) PROVE SenalDeExecuting'
  BY <1>1 DEF RecibirDeConsola
<1>2. ASSUME NEW p \in Procesos, AgregarNew(p) PROVE SenalDeExecuting'
  BY <1>2, AgregarListas DEF AgregarNew, Estados, TypeOK
<1>3. ASSUME NEW p \in Procesos, PostInicializar(p) PROVE SenalDeExecuting'
  BY <1>3 DEF PostInicializar
<1>4. CASE EsperarInicializar
  BY <1>4 DEF EsperarInicializar
<1>5. CASE TomarNew
  BY <1>5 DEF TomarNew
<1>6. CASE EsperarGrado
  BY <1>6 DEF EsperarGrado
<1>7. CASE MoverAReady
  BY <1>7, MoverListas DEF MoverAReady, TypeOK, Estados, HilosConPcb
<1>8. CASE SoltarNew
  BY <1>8 DEF SoltarNew
<1>9. CASE PostTerminado
  BY <1>9 DEF PostTerminado
<1>10. CASE EsperarCpu
  BY <1>10 DEF EsperarCpu
<1>11. CASE EsperarTerminado
  BY <1>11 DEF EsperarTerminado
<1>12. CASE Elegir
  BY <1>12 DEF Elegir, TypeOK, Estados
<1>13. CASE AgregarExecuting
  BY <1>13 DEF AgregarExecuting
<1>14. CASE UnlockExecuting
  BY <1>14 DEF UnlockExecuting
<1>15. CASE LockExecuting
  BY <1>15, TrasValores DEF LockExecuting
<1>16. CASE EnviarACpu
  <2>1. CASE lista_estados["EXECUTING"] = <<>>
    BY <1>16, <2>1 DEF EnviarACpu
  <2>2. CASE lista_estados["EXECUTING"] # <<>>
    <3>1. lista_estados'["EXECUTING"] = Tail(lista_estados["EXECUTING"])
      BY <1>16, <2>2 DEF EnviarACpu, TypeOK, Estados
    <3>2. Len(lista_estados["EXECUTING"]) <= 1
      <4>1. sem["cpu"] \in Nat /\ Len(lista_estados["EXECUTING"]) \in Nat
        BY DEF TypeOK, Semaforos, Estados
      <4> QED
        BY <4>1 DEF UnaCpu, TokensCpu, Uno
    <3>3. lista_estados'["EXECUTING"] = <<>>
      BY <2>2, <3>1, <3>2, HeadTailProperties DEF TypeOK, Estados
    <3> QED
      BY <3>3
  <2> QED
    BY <2>1, <2>2
<1>17. CASE RecibirDeCpu
  BY <1>17, TrasValores DEF RecibirDeCpu
<1>18. CASE Yield
  <2>1. desalojo.pcb \in Procesos
    BY <1>18, ConPcbManejo DEF Yield
  <2>2. lista_estados'["EXECUTING"] = lista_estados["EXECUTING"]
    BY <1>18, <2>1, MoverListas, AgregarListas DEF Yield, TypeOK, Estados
  <2> QED
    BY <1>18, <2>2, TrasValores DEF Yield, Maneja
<1>19. CASE Exit
  BY <1>19, TrasValores DEF Exit, Maneja
<1>20. CASE Io
  <2>1. desalojo.pcb \in Procesos
    BY <1>20, ConPcbManejo DEF Io
  <2>2. lista_estados'["EXECUTING"] = lista_estados["EXECUTING"]
    BY <1>20, <2>1, MoverListas, AgregarListas DEF Io, TypeOK, Estados
  <2> QED
    BY <1>20, <2>2, TrasValores DEF Io, Maneja
<1>21. CASE FinIo
  <2>1. desalojo.pcb \in Procesos
    BY <1>21 DEF FinIo, HilosConPcb, ConPcb
  <2>2. lista_estados'["EXECUTING"] = lista_estados["EXECUTING"]
    BY <1>21, <2>1, MoverListas, AgregarListas DEF FinIo, TypeOK, Estados
  <2> QED
    BY <1>21, <2>2, TrasValores DEF FinIo
<1>22. CASE Wait
  BY <1>22, TrasValores DEF Wait, Deja
<1>23. CASE WaitBloquea
  BY <1>23, TrasValores DEF WaitBloquea, Maneja
<1>24. CASE Signal
  BY <1>24, TrasValores DEF Signal, Sigue
<1>25. CASE Despertar
  <2>1. CASE procesos_bloqueados[Arg] = <<>>
    BY <1>25, <2>1, TrasValores DEF Despertar
  <2>2. CASE procesos_bloqueados[Arg] # <<>>
    <3>1. Head(procesos_bloqueados[Arg]) \in Procesos
      BY <1>25, <2>2, HeadTailProperties DEF Despertar, HilosConPcb, TypeOK
    <3>2. lista_estados'["EXECUTING"] = lista_estados["EXECUTING"]
      BY <1>25, <2>2, <3>1, AgregarListas DEF Despertar, TypeOK, Estados
    <3> QED
      BY <1>25, <2>2, <3>2, TrasValores DEF Despertar
  <2> QED
    BY <2>1, <2>2
<1>26. CASE RecursoInexistente
  BY <1>26, TrasValores DEF RecursoInexistente, Maneja
<1>27. CASE FOpenBloquea
  BY <1>27, SinPostDeMasManejo DEF FOpenBloquea, Maneja
<1>28. CASE FOpen
  BY <1>28, SinPostDeMasManejo DEF FOpen, Maneja
<1>29. CASE FClose
  BY <1>29, SinPostDeMasManejo DEF FClose, Maneja
<1>30. CASE FSeek
  BY <1>30, SinPostDeMasManejo DEF FSeek, Maneja
<1>31. CASE FReadWrite
  <2>1. desalojo.pcb \in Procesos
    BY <1>31, ConPcbManejo DEF FReadWrite
  <2>2. lista_estados'["EXECUTING"] = lista_estados["EXECUTING"]
    BY <1>31, <2>1, MoverListas, AgregarListas DEF FReadWrite, TypeOK, Estados
  <2> QED
    BY <1>31, <2>2, TrasValores DEF FReadWrite, Maneja
<1>32. CASE ArchivoNoAbierto
  BY <1>32 DEF ArchivoNoAbierto, hilos
<1>33. CASE Truncate
  <2>1. desalojo.pcb \in Procesos
    BY <1>33, ConPcbManejo DEF Truncate
  <2>2. lista_estados'["EXECUTING"] = lista_estados["EXECUTING"]
    BY <1>33, <2>1, MoverListas, AgregarListas DEF Truncate, TypeOK, Estados
  <2> QED
    BY <1>33, <2>2, TrasValores DEF Truncate, Maneja
<1>34. CASE FinFs
  <2>1. desalojo.pcb \in Procesos
    BY <1>34 DEF FinFs, HilosConPcb, ConPcb
  <2>2. lista_estados'["EXECUTING"] = lista_estados["EXECUTING"]
    BY <1>34, <2>1, MoverListas, AgregarListas DEF FinFs, TypeOK, Estados
  <2> QED
    BY <1>34, <2>2, TrasValores DEF FinFs
<1>35. CASE CreateSegment
  <2>1. CASE desalojo'.pc \in {"unlock", "unlock_reintentar"}
    BY <2>1, TrasValores
  <2>2. CASE desalojo'.pc \notin {"unlock", "unlock_reintentar"}
    <3>1. UNCHANGED <<lista_estados, executing, corto>>
      BY <1>35, <2>2 DEF CreateSegment, Deja, Sigue
    <3> QED
      BY <1>35, <3>1, TrasValores DEF CreateSegment, Maneja
  <2> QED
    BY <2>1, <2>2
<1>36. CASE DeleteSegment
  BY <1>36, TrasValores DEF DeleteSegment, Deja
<1>37. CASE PostCpu
  BY <1>37, TrasValores DEF PostCpu
<1>38. CASE PostReady
  BY <1>38, TrasValores DEF PostReady
<1>39. CASE PostGrado
  BY <1>39, TrasValores DEF PostGrado
<1>40. CASE Unlock
  BY <1>40 DEF Unlock
<1>41. CASE UNCHANGED vars
  BY <1>41 DEF vars, hilos
<1>42. CASE CrearPcb
  BY <1>42 DEF CrearPcb
<1>43. CASE RespuestaIlegible
  BY <1>43 DEF RespuestaIlegible, hilos
<1> QED
  BY <1>1, <1>2, <1>3, <1>4, <1>5, <1>6, <1>7, <1>8, <1>9, <1>10, <1>11,
     <1>12, <1>13, <1>14, <1>15, <1>16, <1>17, <1>18, <1>19, <1>20, <1>21,
     <1>22, <1>23, <1>24, <1>25, <1>26, <1>27, <1>28, <1>29, <1>30, <1>31,
     <1>32, <1>33, <1>34, <1>35, <1>36, <1>37, <1>38, <1>39, <1>40, <1>41,
     <1>42, <1>43 DEF Next, Consola, Largo, Corto, Desalojo

\* The token of the CPU and the signal, together: each needs the other.
LEMMA InvCpuTeorema ==
    ASSUME SinPostDeMas
    PROVE  Spec => []InvCpu
<1>1. Init => InvCpu
  BY DEF Init, InvCpu, UnaCpu, TokensCpu, SenalDeExecuting, Uno, Hilo, EnMano,
     Estados
<1>2. InvInductivo /\ InvCpu /\ [Next]_vars => InvCpu'
  <2> SUFFICES ASSUME InvInductivo, InvCpu, [Next]_vars PROVE InvCpu'
    OBVIOUS
  <2>1. TypeOK /\ TypeOK' /\ HilosConPcb /\ NadieDespiertaPorArchivo
    BY TypeOKPaso DEF InvInductivo
  <2>2. ConservaCpu
    BY <2>1, TokensCpuPaso DEF InvCpu
  <2>3. TokensCpu \in Nat /\ TokensCpu' \in Nat
    BY <2>1, TokensCpuTipo
  <2>4. UnaCpu'
    BY <2>2, <2>3 DEF InvCpu, UnaCpu, ConservaCpu
  <2> QED
    BY <2>1, <2>2, <2>4, SenalPaso DEF InvCpu, ConservaCpu
<1> QED
  BY <1>1, <1>2, InvInductivoTeorema, PTL DEF Spec

\* One process at most executes, or is being dispatched or evicted.
THEOREM UnaCpuTeorema ==
    ASSUME SinPostDeMas
    PROVE  Spec => []UnaCpu
<1>1. InvCpu => UnaCpu
  BY DEF InvCpu
<1> QED
  BY <1>1, InvCpuTeorema, PTL

\* The unlock of sem_proceso_a_executing is never lost for a PCB in EXECUTING.
THEOREM SenalDeExecutingTeorema ==
    ASSUME SinPostDeMas
    PROVE  Spec => []SenalDeExecuting
<1>1. InvCpu => SenalDeExecuting
  BY DEF InvCpu
<1> QED
  BY <1>1, InvCpuTeorema, PTL

-----------------------------------------------------------------------------
(* Lists without repetitions *)

Inyectiva(s) == \A i, j \in DOMAIN s : s[i] = s[j] => i = j

\* An element more at the end.
LEMMA AppendElementos ==
    ASSUME NEW S, NEW s \in Seq(S), NEW x \in S
    PROVE  /\ Elementos(Append(s, x)) = Elementos(s) \cup {x}
           /\ Inyectiva(s) /\ x \notin Elementos(s) => Inyectiva(Append(s, x))
<1>1. /\ DOMAIN Append(s, x) = 1 .. (Len(s) + 1)
      /\ DOMAIN s = 1 .. Len(s)
      /\ Len(s) \in Nat
      /\ \A i \in 1 .. Len(s) : Append(s, x)[i] = s[i]
      /\ Append(s, x)[Len(s) + 1] = x
  BY AppendProperties, LenProperties
<1>2. \A i \in 1 .. (Len(s) + 1) : i \in 1 .. Len(s) \/ i = Len(s) + 1
  BY <1>1
<1>3. 1 .. Len(s) \subseteq 1 .. (Len(s) + 1) /\ Len(s) + 1 \in 1 .. (Len(s) + 1)
  BY <1>1
<1>4. Elementos(Append(s, x)) = Elementos(s) \cup {x}
  BY <1>1, <1>2, <1>3, Zenon DEF Elementos
<1>5. ASSUME Inyectiva(s), x \notin Elementos(s)
      PROVE  Inyectiva(Append(s, x))
  BY <1>1, <1>2, <1>5, Zenon DEF Inyectiva, Elementos
<1> QED
  BY <1>4, <1>5

\* list_remove of a list without repetitions takes one element.
LEMMA SinPosicionElementos ==
    ASSUME NEW S, NEW s \in Seq(S), Inyectiva(s), NEW i \in DOMAIN s
    PROVE  /\ Elementos(SinPosicion(s, i)) = Elementos(s) \ {s[i]}
           /\ Inyectiva(SinPosicion(s, i))
<1> DEFINE n == Len(s)
           t == SinPosicion(s, i)
<1>1. n \in Nat /\ DOMAIN s = 1 .. n
  BY LenProperties
<1>2. /\ DOMAIN t = 1 .. (n - 1)
      /\ \A j \in 1 .. (n - 1) : t[j] = IF j < i THEN s[j] ELSE s[j + 1]
  BY DEF SinPosicion
<1> HIDE DEF n, t
<1>3. \A j, k \in 1 .. n : s[j] = s[k] => j = k
  BY <1>1 DEF Inyectiva
<1>4. \A j \in 1 .. (n - 1) : \E k \in 1 .. n : k # i /\ t[j] = s[k]
  <2> TAKE j \in 1 .. (n - 1)
  <2>1. CASE j < i
    BY <1>1, <1>2, <2>1
  <2>2. CASE ~(j < i)
    <3>1. j + 1 \in 1 .. n /\ j + 1 # i /\ t[j] = s[j + 1]
      BY <1>1, <1>2, <2>2
    <3> QED
      BY <3>1
  <2> QED
    BY <2>1, <2>2
<1>5. \A k \in 1 .. n : k # i => \E j \in 1 .. (n - 1) : t[j] = s[k]
  <2> SUFFICES ASSUME NEW k \in 1 .. n, k # i
               PROVE  \E j \in 1 .. (n - 1) : t[j] = s[k]
    OBVIOUS
  <2>1. CASE k < i
    BY <1>1, <1>2, <2>1
  <2>2. CASE ~(k < i)
    <3>1. k - 1 \in 1 .. (n - 1) /\ ~(k - 1 < i) /\ (k - 1) + 1 = k
      BY <1>1, <2>2
    <3> QED
      BY <1>2, <3>1
  <2> QED
    BY <2>1, <2>2
<1>6. Elementos(t) = Elementos(s) \ {s[i]}
  <2>1. ASSUME NEW x \in Elementos(t) PROVE x \in Elementos(s) \ {s[i]}
    <3>1. PICK j \in 1 .. (n - 1) : x = t[j]
      BY <1>2, <2>1 DEF Elementos
    <3>2. PICK k \in 1 .. n : k # i /\ t[j] = s[k]
      BY <1>4
    <3>3. s[k] # s[i]
      BY <1>1, <1>3, <3>2
    <3> QED
      BY <1>1, <3>1, <3>2, <3>3 DEF Elementos
  <2>2. ASSUME NEW x \in Elementos(s) \ {s[i]} PROVE x \in Elementos(t)
    <3>1. PICK k \in 1 .. n : x = s[k]
      BY <1>1, <2>2 DEF Elementos
    <3>2. k # i
      BY <2>2, <3>1
    <3>3. PICK j \in 1 .. (n - 1) : t[j] = s[k]
      BY <1>5, <3>2
    <3> QED
      BY <1>2, <3>1, <3>3 DEF Elementos
  <2> QED
    BY <2>1, <2>2
<1>7. ASSUME NEW j \in 1 .. (n - 1), NEW k \in 1 .. (n - 1), t[j] = t[k]
      PROVE  j = k
  BY <1>1, <1>2, <1>3, <1>7
<1> QED
  BY <1>2, <1>6, <1>7 DEF Inyectiva, t

\* list_remove of the first element.
LEMMA TailElementos ==
    ASSUME NEW S, NEW s \in Seq(S), s # <<>>, Inyectiva(s)
    PROVE  /\ Head(s) \in Elementos(s)
           /\ Elementos(Tail(s)) = Elementos(s) \ {Head(s)}
           /\ Inyectiva(Tail(s))
<1>1. /\ Len(s) \in Nat \ {0} /\ DOMAIN s = 1 .. Len(s)
      /\ Head(s) = s[1]
      /\ DOMAIN Tail(s) = 1 .. (Len(s) - 1)
      /\ \A i \in 1 .. (Len(s) - 1) : Tail(s)[i] = s[i + 1]
  BY LenProperties, EmptySeq, HeadTailProperties
<1>2. 1 \in DOMAIN s
  BY <1>1
<1>3. \A i \in 1 .. (Len(s) - 1) : SinPosicion(s, 1)[i] = Tail(s)[i]
  BY <1>1 DEF SinPosicion
<1>4. DOMAIN SinPosicion(s, 1) = DOMAIN Tail(s)
  BY <1>1 DEF SinPosicion
<1>5. Elementos(Tail(s)) = Elementos(SinPosicion(s, 1))
  BY <1>1, <1>3, <1>4 DEF Elementos
<1>6. Inyectiva(Tail(s)) <=> Inyectiva(SinPosicion(s, 1))
  BY <1>1, <1>3, <1>4 DEF Inyectiva
<1>7. s[1] \in Elementos(s)
  BY <1>2 DEF Elementos
<1>8. /\ Elementos(SinPosicion(s, 1)) = Elementos(s) \ {s[1]}
      /\ Inyectiva(SinPosicion(s, 1))
  BY <1>2, SinPosicionElementos
<1> QED
  BY <1>1, <1>5, <1>6, <1>7, <1>8

\* The position list_remove_element finds.
LEMMA PosicionValor ==
    ASSUME NEW s, NEW p \in Elementos(s)
    PROVE  Posicion(s, p) \in DOMAIN s /\ s[Posicion(s, p)] = p
  BY DEF Elementos, Posicion

\* What agregar_a_lista_con_sem does to the elements of the lists.
LEMMA AgregarElementos ==
    ASSUME TypeOK, SinRepetidos, NEW p \in Procesos, NEW e \in Estados,
           Agregar(p, e), p \notin Elementos(lista_estados[e])
    PROVE  /\ Elementos(lista_estados'[e]) = Elementos(lista_estados[e]) \cup {p}
           /\ \A x \in Estados \ {e} : lista_estados'[x] = lista_estados[x]
           /\ \A x \in Estados : Inyectiva(lista_estados'[x])
<1>1. \A x \in Estados : Inyectiva(lista_estados[x])
  BY DEF SinRepetidos, Inyectiva
<1>2. lista_estados \in [Estados -> Seq(Procesos)]
  BY DEF TypeOK
<1>3. /\ lista_estados'[e] = Append(lista_estados[e], p)
      /\ \A x \in Estados \ {e} : lista_estados'[x] = lista_estados[x]
  BY <1>2, AgregarListas
<1>4. lista_estados[e] \in Seq(Procesos)
  BY <1>2
<1>5. /\ Elementos(lista_estados'[e]) = Elementos(lista_estados[e]) \cup {p}
      /\ Inyectiva(lista_estados'[e])
  BY <1>1, <1>3, <1>4, AppendElementos
<1> QED
  BY <1>1, <1>3, <1>5

\* What mover_de_lista_con_sem does to the elements of the lists.
LEMMA MoverElementos ==
    ASSUME TypeOK, SinRepetidos, NEW p \in Procesos,
           NEW e1 \in Estados, NEW e2 \in Estados, e1 # e2, Mover(p, e1, e2),
           p \in Elementos(lista_estados[e1]), p \notin Elementos(lista_estados[e2])
    PROVE  /\ Elementos(lista_estados'[e1]) = Elementos(lista_estados[e1]) \ {p}
           /\ Elementos(lista_estados'[e2]) = Elementos(lista_estados[e2]) \cup {p}
           /\ \A x \in Estados \ {e1, e2} : lista_estados'[x] = lista_estados[x]
           /\ \A x \in Estados : Inyectiva(lista_estados'[x])
<1>1. \A x \in Estados : Inyectiva(lista_estados[x])
  BY DEF SinRepetidos, Inyectiva
<1>2. lista_estados \in [Estados -> Seq(Procesos)]
  BY DEF TypeOK
<1>3. /\ lista_estados'[e1] =
            SinPosicion(lista_estados[e1], Posicion(lista_estados[e1], p))
      /\ lista_estados'[e2] = Append(lista_estados[e2], p)
      /\ \A x \in Estados \ {e1, e2} : lista_estados'[x] = lista_estados[x]
  BY <1>2, MoverListas
<1>4. lista_estados[e1] \in Seq(Procesos) /\ lista_estados[e2] \in Seq(Procesos)
  BY <1>2
<1>5. /\ Elementos(lista_estados'[e1]) = Elementos(lista_estados[e1]) \ {p}
      /\ Inyectiva(lista_estados'[e1])
  BY <1>1, <1>3, <1>4, PosicionValor, SinPosicionElementos
<1>6. /\ Elementos(lista_estados'[e2]) = Elementos(lista_estados[e2]) \cup {p}
      /\ Inyectiva(lista_estados'[e2])
  BY <1>1, <1>3, <1>4, AppendElementos
<1> QED
  BY <1>1, <1>3, <1>5, <1>6

-----------------------------------------------------------------------------
(* The moves *)

\* p goes from the place s to the place t, and no other PCB moves.
Mueve(p, s, t) ==
    /\ p \in Procesos /\ s \in Sitios /\ t \in Sitios
    /\ Esta(p, s)
    /\ \A q \in Procesos : \A x \in Sitios :
          Esta(q, x)' <=> IF q = p THEN x = t ELSE Esta(q, x)

\* No PCB moves.
Quieto ==
    \A q \in Procesos : \A x \in Sitios : Esta(q, x)' <=> Esta(q, x)

\* p is left nowhere, and no other PCB moves.
Pierde(p) ==
    /\ p \in Procesos
    /\ Esta(p, "DESALOJO")
    /\ \A q \in Procesos : \A x \in Sitios :
          Esta(q, x)' <=> q # p /\ Esta(q, x)

\* The lists without repetitions, and the queues that have not changed.
LEMMA SinRepetidosListas ==
    ASSUME SinRepetidos, \A x \in Estados : Inyectiva(lista_estados'[x]),
           UNCHANGED procesos_bloqueados
    PROVE  SinRepetidos'
  BY DEF SinRepetidos, Inyectiva

\* A console's PCB joins NEW.
LEMMA AgregarNewMueve ==
    ASSUME InvInductivo, InvSitios, NEW p \in Procesos, AgregarNew(p)
    PROVE  Mueve(p, "FUERA", "NEW") /\ SinRepetidos'
<1>1. TypeOK /\ UnSitio /\ SinRepetidos
  BY DEF InvInductivo, InvSitios
<1>2. /\ Agregar(p, "NEW")
      /\ consola[p] = "agregar" /\ consola' = [consola EXCEPT ![p] = "post"]
      /\ UNCHANGED <<corto, desalojo, finalizados, recursos>>
  BY DEF AgregarNew
<1>3. \A x \in Sitios : Esta(p, x) <=> x = "FUERA"
  BY <1>1, <1>2 DEF UnSitio, Esta, Sitios, Estados
<1>4. /\ Elementos(lista_estados'["NEW"]) = Elementos(lista_estados["NEW"]) \cup {p}
      /\ \A x \in Estados \ {"NEW"} : lista_estados'[x] = lista_estados[x]
      /\ \A x \in Estados : Inyectiva(lista_estados'[x])
  BY <1>1, <1>2, <1>3, AgregarElementos DEF Esta, Sitios, Estados
<1>5. \A q \in Procesos : \A x \in Sitios :
          Esta(q, x)' <=> IF q = p THEN x = "NEW" ELSE Esta(q, x)
  BY <1>1, <1>2, <1>3, <1>4 DEF Esta, Sitios, Estados, TypeOK, recursos
<1>6. SinRepetidos'
  BY <1>1, <1>2, <1>4, SinRepetidosListas DEF recursos
<1> QED
  BY <1>3, <1>5, <1>6 DEF Mueve, Sitios, Estados

\* enviar_proceso_a_ready moves the PCB it saw at the head of NEW, that is
\* still there.
LEMMA MoverAReadyMueve ==
    ASSUME InvInductivo, InvSitios, MoverAReady
    PROVE  Mueve(largo.pcb, "NEW", "READY") /\ SinRepetidos'
<1>1. /\ TypeOK /\ UnSitio /\ SinRepetidos
      /\ largo.pcb \in Procesos /\ Esta(largo.pcb, "NEW")
  BY DEF InvInductivo, InvSitios, HilosConPcb, MoverAReady
<1> DEFINE p == largo.pcb
<1>2. /\ Mover(p, "NEW", "READY")
      /\ UNCHANGED <<consola, corto, desalojo, finalizados, recursos>>
  BY DEF MoverAReady
<1> HIDE DEF p
<1>3. p \in Procesos /\ Esta(p, "NEW")
  BY <1>1 DEF p
<1>4. \A x \in Sitios : Esta(p, x) <=> x = "NEW"
  BY <1>1, <1>3 DEF UnSitio, Sitios, Estados
<1>5. /\ Elementos(lista_estados'["NEW"]) = Elementos(lista_estados["NEW"]) \ {p}
      /\ Elementos(lista_estados'["READY"]) = Elementos(lista_estados["READY"]) \cup {p}
      /\ \A x \in Estados \ {"NEW", "READY"} : lista_estados'[x] = lista_estados[x]
      /\ \A x \in Estados : Inyectiva(lista_estados'[x])
  BY <1>1, <1>2, <1>3, <1>4, MoverElementos DEF Esta, Sitios, Estados
<1>6. \A q \in Procesos : \A x \in Sitios :
          Esta(q, x)' <=> IF q = p THEN x = "READY" ELSE Esta(q, x)
  BY <1>2, <1>4, <1>5 DEF Esta, Sitios, Estados, recursos
<1>7. SinRepetidos'
  BY <1>1, <1>2, <1>5, SinRepetidosListas DEF recursos
<1> QED
  BY <1>3, <1>6, <1>7 DEF Mueve, Sitios, Estados, p

\* The dispatcher takes one PCB of READY.
LEMMA ElegirMueve ==
    ASSUME InvInductivo, InvSitios, Elegir, lista_estados["READY"] # <<>>
    PROVE  (\E p \in Procesos : Mueve(p, "READY", "CORTO")) /\ SinRepetidos'
<1>1. TypeOK /\ UnSitio /\ SinRepetidos
  BY DEF InvInductivo, InvSitios
<1>2. lista_estados["READY"] \in Seq(Procesos)
  BY <1>1 DEF TypeOK, Estados
<1>3. PICK i \in Elegibles :
          /\ corto' = Hilo("agregar", lista_estados["READY"][i])
          /\ lista_estados' = [lista_estados EXCEPT
                                  !["READY"] = SinPosicion(@, i)]
  BY DEF Elegir
<1>4. i \in DOMAIN lista_estados["READY"]
  BY <1>2, LenProperties, EmptySeq DEF Elegibles
<1> DEFINE p == lista_estados["READY"][i]
<1>5. p \in Procesos /\ Esta(p, "READY")
  BY <1>2, <1>4 DEF Esta, Estados, Elementos
<1>6. /\ corto.pc = "elegir"
      /\ UNCHANGED <<consola, desalojo, finalizados, recursos>>
  BY DEF Elegir
<1>7. /\ corto'.pc = "agregar" /\ corto'.pcb = p
      /\ lista_estados'["READY"] = SinPosicion(lista_estados["READY"], i)
      /\ \A x \in Estados \ {"READY"} : lista_estados'[x] = lista_estados[x]
  BY <1>1, <1>3 DEF Hilo, TypeOK, Estados
<1>8. /\ Elementos(lista_estados'["READY"]) = Elementos(lista_estados["READY"]) \ {p}
      /\ Inyectiva(lista_estados'["READY"])
  BY <1>1, <1>2, <1>4, <1>7, SinPosicionElementos DEF SinRepetidos, Inyectiva,
     Estados
<1>9. \A x \in Estados : Inyectiva(lista_estados'[x])
  BY <1>1, <1>7, <1>8 DEF SinRepetidos, Inyectiva
<1> HIDE DEF p
<1>10. \A x \in Sitios : Esta(p, x) <=> x = "READY"
  BY <1>1, <1>5 DEF UnSitio, Sitios, Estados
<1>11. \A q \in Procesos : \A x \in Sitios :
          Esta(q, x)' <=> IF q = p THEN x = "CORTO" ELSE Esta(q, x)
  BY <1>6, <1>7, <1>8, <1>10 DEF Esta, Sitios, Estados, recursos
<1>12. SinRepetidos'
  BY <1>1, <1>6, <1>9, SinRepetidosListas DEF recursos
<1> QED
  BY <1>5, <1>11, <1>12 DEF Mueve, Sitios, Estados

\* It puts it in EXECUTING.
LEMMA AgregarExecutingMueve ==
    ASSUME InvInductivo, InvSitios, AgregarExecuting
    PROVE  Mueve(corto.pcb, "CORTO", "EXECUTING") /\ SinRepetidos'
<1> DEFINE p == corto.pcb
<1>1. /\ TypeOK /\ UnSitio /\ SinRepetidos
      /\ p \in Procesos /\ Esta(p, "CORTO")
  BY DEF InvInductivo, InvSitios, HilosConPcb, AgregarExecuting, Esta
<1>2. /\ Agregar(p, "EXECUTING")
      /\ corto'.pc = "unlock"
      /\ UNCHANGED <<consola, desalojo, finalizados, recursos>>
  BY DEF AgregarExecuting, Hilo
<1>3. \A q : Esta(q, "CORTO") => q = p
  BY DEF Esta, Estados
<1> HIDE DEF p
<1>4. \A x \in Sitios : Esta(p, x) <=> x = "CORTO"
  BY <1>1 DEF UnSitio, Sitios, Estados
<1>5. /\ Elementos(lista_estados'["EXECUTING"]) =
            Elementos(lista_estados["EXECUTING"]) \cup {p}
      /\ \A x \in Estados \ {"EXECUTING"} : lista_estados'[x] = lista_estados[x]
      /\ \A x \in Estados : Inyectiva(lista_estados'[x])
  BY <1>1, <1>2, <1>4, AgregarElementos DEF Esta, Sitios, Estados
<1>6. \A q \in Procesos : \A x \in Sitios :
          Esta(q, x)' <=> IF q = p THEN x = "EXECUTING" ELSE Esta(q, x)
  BY <1>2, <1>3, <1>4, <1>5 DEF Esta, Sitios, Estados, recursos
<1>7. SinRepetidos'
  BY <1>1, <1>2, <1>5, SinRepetidosListas DEF recursos
<1> QED
  BY <1>1, <1>6, <1>7 DEF Mueve, Sitios, Estados, p

\* The first of EXECUTING is sent to the CPU.
LEMMA EnviarACpuMueve ==
    ASSUME InvInductivo, InvSitios, EnviarACpu,
           lista_estados["EXECUTING"] # <<>>
    PROVE  /\ Mueve(Head(lista_estados["EXECUTING"]), "EXECUTING", "DESALOJO")
           /\ SinRepetidos'
<1> DEFINE p == Head(lista_estados["EXECUTING"])
<1>1. TypeOK /\ UnSitio /\ SinRepetidos
  BY DEF InvInductivo, InvSitios
<1>2. lista_estados["EXECUTING"] \in Seq(Procesos)
  BY <1>1 DEF TypeOK, Estados
<1>3. /\ desalojo.pc = "pop" /\ desalojo'.pc = "cpu" /\ desalojo'.pcb = p
      /\ lista_estados'["EXECUTING"] = Tail(lista_estados["EXECUTING"])
      /\ \A x \in Estados \ {"EXECUTING"} : lista_estados'[x] = lista_estados[x]
      /\ UNCHANGED <<consola, corto, finalizados, recursos>>
  BY <1>1 DEF EnviarACpu, Hilo, TypeOK, Estados
<1>4. /\ p \in Elementos(lista_estados["EXECUTING"])
      /\ Elementos(lista_estados'["EXECUTING"]) =
            Elementos(lista_estados["EXECUTING"]) \ {p}
      /\ Inyectiva(lista_estados'["EXECUTING"])
  BY <1>1, <1>2, <1>3, TailElementos DEF SinRepetidos, Inyectiva, Estados
<1>5. p \in Procesos /\ Esta(p, "EXECUTING")
  BY <1>2, <1>4, HeadTailProperties DEF Esta, Estados
<1>6. \A x \in Estados : Inyectiva(lista_estados'[x])
  BY <1>1, <1>3, <1>4 DEF SinRepetidos, Inyectiva
<1> HIDE DEF p
<1>7. \A x \in Sitios : Esta(p, x) <=> x = "EXECUTING"
  BY <1>1, <1>5 DEF UnSitio, Sitios, Estados
<1>8. \A q \in Procesos : \A x \in Sitios :
          Esta(q, x)' <=> IF q = p THEN x = "DESALOJO" ELSE Esta(q, x)
  BY <1>3, <1>4, <1>7 DEF Esta, Sitios, Estados, recursos, EnMano
<1>9. SinRepetidos'
  BY <1>1, <1>3, <1>6, SinRepetidosListas DEF recursos
<1> QED
  BY <1>5, <1>8, <1>9 DEF Mueve, Sitios, Estados, p

-----------------------------------------------------------------------------
(* The moves of manejo_desalojo_pcb *)

\* From the hands of manejo_desalojo_pcb to the end of a list.
LEMMA ManoALista ==
    ASSUME TypeOK, UnSitio, SinRepetidos, NEW e \in Estados,
           desalojo.pc \in EnMano, desalojo.pcb \in Procesos,
           Agregar(desalojo.pcb, e), desalojo'.pc \notin EnMano,
           UNCHANGED <<consola, corto, finalizados, procesos_bloqueados>>
    PROVE  Mueve(desalojo.pcb, "DESALOJO", e) /\ SinRepetidos'
<1> DEFINE p == desalojo.pcb
<1>1. p \in Procesos /\ Esta(p, "DESALOJO") /\ Agregar(p, e)
  BY DEF Esta
<1>2. \A q : Esta(q, "DESALOJO") => q = p
  BY DEF Esta, Estados
<1> HIDE DEF p
<1>3. \A x \in Sitios : Esta(p, x) <=> x = "DESALOJO"
  BY <1>1 DEF UnSitio, Sitios, Estados
<1>4. /\ Elementos(lista_estados'[e]) = Elementos(lista_estados[e]) \cup {p}
      /\ \A x \in Estados \ {e} : lista_estados'[x] = lista_estados[x]
      /\ \A x \in Estados : Inyectiva(lista_estados'[x])
  BY <1>1, <1>3, AgregarElementos DEF Esta, Sitios, Estados
<1>5. \A q \in Procesos : \A x \in Sitios :
          Esta(q, x)' <=> IF q = p THEN x = e ELSE Esta(q, x)
  BY <1>2, <1>3, <1>4 DEF Esta, Sitios, Estados
<1>6. SinRepetidos'
  BY <1>4, SinRepetidosListas
<1> QED
  BY <1>1, <1>5, <1>6 DEF Mueve, Sitios, Estados, p

\* terminar_proceso.
LEMMA ManoAExit ==
    ASSUME TypeOK, UnSitio, SinRepetidos,
           desalojo.pc \in EnMano, desalojo.pcb \in Procesos, TerminarProceso,
           UNCHANGED <<consola, corto, lista_estados, procesos_bloqueados>>
    PROVE  Mueve(desalojo.pcb, "DESALOJO", "EXIT") /\ SinRepetidos'
<1> DEFINE p == desalojo.pcb
<1>1. p \in Procesos /\ Esta(p, "DESALOJO")
  BY DEF Esta
<1>2. /\ finalizados' = finalizados \cup {p}
      /\ desalojo'.pc \notin EnMano
  BY DEF TerminarProceso, Deja, Hilo, EnMano
<1>3. \A q : Esta(q, "DESALOJO") => q = p
  BY DEF Esta, Estados
<1> HIDE DEF p
<1>4. \A x \in Sitios : Esta(p, x) <=> x = "DESALOJO"
  BY <1>1 DEF UnSitio, Sitios, Estados
<1>5. \A q \in Procesos : \A x \in Sitios :
          Esta(q, x)' <=> IF q = p THEN x = "EXIT" ELSE Esta(q, x)
  BY <1>2, <1>3, <1>4 DEF Esta, Sitios, Estados
<1>6. SinRepetidos'
  BY DEF SinRepetidos
<1> QED
  BY <1>1, <1>5, <1>6 DEF Mueve, Sitios, Estados, p

\* From BLOCKED, where only its PCB is, to READY.
LEMMA BloqueadoAReady ==
    ASSUME TypeOK, UnSitio, SinRepetidos, desalojo.pcb \in Procesos,
           lista_estados["BLOCKED"] = <<desalojo.pcb>>,
           desalojo.pc \notin EnMano, desalojo'.pc \notin EnMano,
           Mover(desalojo.pcb, "BLOCKED", "READY"),
           UNCHANGED <<consola, corto, finalizados, procesos_bloqueados>>
    PROVE  Mueve(desalojo.pcb, "BLOCKED", "READY") /\ SinRepetidos'
<1> DEFINE p == desalojo.pcb
<1>1. /\ p \in Procesos /\ Mover(p, "BLOCKED", "READY")
      /\ p \in Elementos(lista_estados["BLOCKED"])
  BY DEF Elementos
<1> HIDE DEF p
<1>2. Esta(p, "BLOCKED")
  BY <1>1 DEF Esta, Estados
<1>3. \A x \in Sitios : Esta(p, x) <=> x = "BLOCKED"
  BY <1>1, <1>2 DEF UnSitio, Sitios, Estados
<1>4. /\ Elementos(lista_estados'["BLOCKED"]) = Elementos(lista_estados["BLOCKED"]) \ {p}
      /\ Elementos(lista_estados'["READY"]) = Elementos(lista_estados["READY"]) \cup {p}
      /\ \A x \in Estados \ {"BLOCKED", "READY"} : lista_estados'[x] = lista_estados[x]
      /\ \A x \in Estados : Inyectiva(lista_estados'[x])
  BY <1>1, <1>3, MoverElementos DEF Esta, Sitios, Estados
<1>5. \A q \in Procesos : \A x \in Sitios :
          Esta(q, x)' <=> IF q = p THEN x = "READY" ELSE Esta(q, x)
  BY <1>3, <1>4 DEF Esta, Sitios, Estados
<1>6. SinRepetidos'
  BY <1>4, SinRepetidosListas
<1> QED
  BY <1>1, <1>2, <1>5, <1>6 DEF Mueve, Sitios, Estados, p

\* A handler has a PCB in its hands.
LEMMA ManejaEnMano ==
    ASSUME InvInductivo, InvSitios, NEW ops, Maneja(ops)
    PROVE  /\ TypeOK /\ UnSitio /\ SinRepetidos
           /\ desalojo.pc \in EnMano /\ desalojo.pcb \in Procesos
  BY ConPcbManejo DEF InvInductivo, InvSitios, Maneja, EnMano

\* The handlers that send the process back to the CPU.
Continua == Wait \/ Signal \/ FOpen \/ FClose \/ FSeek \/ DeleteSegment

\* They put its PCB in EXECUTING.
LEMMA ContinuaMueve ==
    ASSUME InvInductivo, InvSitios, Continua
    PROVE  Mueve(desalojo.pcb, "DESALOJO", "EXECUTING") /\ SinRepetidos'
<1>1. /\ TypeOK /\ UnSitio /\ SinRepetidos
      /\ desalojo.pc \in EnMano /\ desalojo.pcb \in Procesos
  BY ManejaEnMano DEF Continua, Wait, Signal, FOpen, FClose, FSeek, DeleteSegment
<1>2. UNCHANGED <<consola, corto, finalizados, procesos_bloqueados>>
  BY DEF Continua, Wait, Signal, FOpen, FClose, FSeek, DeleteSegment, recursos
<1>3. desalojo'.pc \notin EnMano
  BY DEF Continua, Wait, Signal, FOpen, FClose, FSeek, DeleteSegment, Deja,
     Sigue, Hilo, EnMano
<1>4. CASE FClose
  <2>1. Arg \in Archivos /\ lista_procesos[Arg] = <<>>
    BY <1>4, ConPcbManejo, NadieEspera DEF FClose, Maneja, DeArchivo, InvInductivo
  <2>2. Agregar(desalojo.pcb, "EXECUTING")
    BY <1>4, <2>1 DEF FClose
  <2> QED
    BY <1>1, <1>2, <1>3, <2>2, ManoALista DEF Estados
<1>5. CASE ~FClose
  <2>1. Agregar(desalojo.pcb, "EXECUTING")
    BY <1>5 DEF Continua, Wait, Signal, FOpen, FSeek, DeleteSegment
  <2> QED
    BY <1>1, <1>2, <1>3, <2>1, ManoALista DEF Estados
<1> QED
  BY <1>4, <1>5

\* The handlers that put the process in BLOCKED.
Bloquea == Io \/ Truncate \/ FReadWrite \/ FOpenBloquea

\* They put the PCB in BLOCKED.
LEMMA BloqueaMueve ==
    ASSUME InvInductivo, InvSitios, Bloquea
    PROVE  Mueve(desalojo.pcb, "DESALOJO", "BLOCKED") /\ SinRepetidos'
<1>1. /\ TypeOK /\ UnSitio /\ SinRepetidos
      /\ desalojo.pc \in EnMano /\ desalojo.pcb \in Procesos
  BY ManejaEnMano DEF Bloquea, Io, Truncate, FReadWrite, FOpenBloquea
<1>2. /\ UNCHANGED <<consola, corto, finalizados, procesos_bloqueados>>
      /\ Agregar(desalojo.pcb, "BLOCKED")
      /\ desalojo'.pc \notin EnMano
  BY DEF Bloquea, Io, Truncate, FReadWrite, FOpenBloquea, recursos, Sigue, Hilo,
     EnMano
<1> QED
  BY <1>1, <1>2, ManoALista DEF Estados

\* I_YIELD
LEMMA YieldMueve ==
    ASSUME InvInductivo, InvSitios, Yield
    PROVE  Mueve(desalojo.pcb, "DESALOJO", "READY") /\ SinRepetidos'
<1>1. /\ TypeOK /\ UnSitio /\ SinRepetidos
      /\ desalojo.pc \in EnMano /\ desalojo.pcb \in Procesos
  BY ManejaEnMano DEF Yield
<1>2. /\ UNCHANGED <<consola, corto, finalizados, procesos_bloqueados>>
      /\ Agregar(desalojo.pcb, "READY")
      /\ desalojo'.pc \notin EnMano
  BY DEF Yield, recursos, Deja, Hilo, EnMano
<1> QED
  BY <1>1, <1>2, ManoALista DEF Estados

\* The cases of manejo_instrucciones that always end the process.
Termina == Exit \/ RecursoInexistente

\* They destroy the PCB.
LEMMA TerminaMueve ==
    ASSUME InvInductivo, InvSitios, Termina
    PROVE  Mueve(desalojo.pcb, "DESALOJO", "EXIT") /\ SinRepetidos'
<1>1. /\ TypeOK /\ UnSitio /\ SinRepetidos
      /\ desalojo.pc \in EnMano /\ desalojo.pcb \in Procesos
  BY ManejaEnMano DEF Termina, Exit, RecursoInexistente
<1>2. /\ UNCHANGED <<consola, corto, lista_estados, procesos_bloqueados>>
      /\ TerminarProceso
  BY DEF Termina, Exit, RecursoInexistente, recursos
<1> QED
  BY <1>1, <1>2, ManoAExit

\* The end of an I/O and the answer of the FileSystem.
Desbloquea == FinIo \/ FinFs

\* They take the PCB from BLOCKED to READY.
LEMMA DesbloqueaMueve ==
    ASSUME InvInductivo, InvSitios, Desbloquea
    PROVE  Mueve(desalojo.pcb, "BLOCKED", "READY") /\ SinRepetidos'
<1>1. /\ TypeOK /\ UnSitio /\ SinRepetidos
      /\ desalojo.pcb \in Procesos
      /\ lista_estados["BLOCKED"] = <<desalojo.pcb>>
      /\ desalojo.pc \notin EnMano
  BY DEF InvInductivo, InvSitios, HilosConPcb, ConPcb, UnicoBloqueado, EnMano,
     Desbloquea, FinIo, FinFs
<1>2. /\ UNCHANGED <<consola, corto, finalizados, procesos_bloqueados>>
      /\ desalojo'.pc \notin EnMano
  BY DEF Desbloquea, FinIo, FinFs, Deja, Hilo, EnMano, recursos
<1>3. Mover(desalojo.pcb, "BLOCKED", "READY")
  <2>1. CASE FinFs
    BY <2>1 DEF FinFs
  <2>2. CASE FinIo
    <3> DEFINE uno == <<desalojo.pcb>>
    <3>1. uno \in Seq(Procesos) /\ uno # <<>> /\ Len(uno) = 1 /\ DOMAIN uno = {1}
      BY <1>1
    <3>2. Posicion(uno, desalojo.pcb) = 1
      BY <3>1, PosicionValor DEF Elementos
    <3>3. Tail(uno) = <<>>
      OBVIOUS
    <3> HIDE DEF uno
    <3>4. SinPosicion(uno, 1) \in Seq(Procesos) /\ Len(SinPosicion(uno, 1)) = 0
      BY <3>1, SinPosicionTipo, SinPosicionLargo
    <3>5. SinPosicion(uno, 1) = <<>>
      BY <3>4, EmptySeq
    <3> QED
      BY <1>1, <2>2, <3>2, <3>3, <3>5 DEF FinIo, Mover, uno
  <2> QED
    BY <2>1, <2>2 DEF Desbloquea
<1> QED
  BY <1>1, <1>2, <1>3, BloqueadoAReady

\* The queues have no repetitions, neither inside one nor between two.
LEMMA ColasSinRepetir ==
    ASSUME SinRepetidos
    PROVE  /\ \A r \in Recursos : Inyectiva(procesos_bloqueados[r])
           /\ \A r, s \in Recursos : r # s =>
                 Elementos(procesos_bloqueados[r])
                    \cap Elementos(procesos_bloqueados[s]) = {}
  BY DEF SinRepetidos, Inyectiva, Elementos

\* ... and neither list nor queue has, when these have none after a step.
LEMMA ColasSinRepetirPrima ==
    ASSUME SinRepetidos, UNCHANGED lista_estados \/
              \A x \in Estados : Inyectiva(lista_estados'[x]),
           \A r \in Recursos : Inyectiva(procesos_bloqueados'[r]),
           \A r, s \in Recursos : r # s =>
              Elementos(procesos_bloqueados'[r])
                 \cap Elementos(procesos_bloqueados'[s]) = {}
    PROVE  SinRepetidos'
  BY DEF SinRepetidos, Inyectiva, Elementos

\* instruccion_wait leaves the process in the queue of the resource.
LEMMA WaitBloqueaMueve ==
    ASSUME InvInductivo, InvSitios, WaitBloquea
    PROVE  Mueve(desalojo.pcb, "DESALOJO", "RECURSO") /\ SinRepetidos'
<1> DEFINE p == desalojo.pcb
           r == Arg
<1>1. /\ TypeOK /\ UnSitio /\ SinRepetidos
      /\ p \in Procesos /\ Esta(p, "DESALOJO")
  BY ManejaEnMano DEF WaitBloquea, Esta
<1>2. /\ r \in Recursos
      /\ procesos_bloqueados' = [procesos_bloqueados EXCEPT ![r] = Append(@, p)]
      /\ desalojo'.pc \notin EnMano
      /\ UNCHANGED <<consola, corto, lista_estados, finalizados>>
  BY DEF WaitBloquea, Deja, Hilo, EnMano
<1>3. \A q : Esta(q, "DESALOJO") => q = p
  BY DEF Esta, Estados
<1> HIDE DEF p, r
<1>4. \A x \in Sitios : Esta(p, x) <=> x = "DESALOJO"
  BY <1>1 DEF UnSitio, Sitios, Estados
<1>5. /\ procesos_bloqueados[r] \in Seq(Procesos)
      /\ procesos_bloqueados'[r] = Append(procesos_bloqueados[r], p)
      /\ \A s \in Recursos \ {r} : procesos_bloqueados'[s] = procesos_bloqueados[s]
  BY <1>1, <1>2 DEF TypeOK
<1>6. \A s \in Recursos : p \notin Elementos(procesos_bloqueados[s])
  BY <1>4 DEF Esta, Sitios, Estados
<1>7. /\ Elementos(procesos_bloqueados'[r]) =
            Elementos(procesos_bloqueados[r]) \cup {p}
      /\ Inyectiva(procesos_bloqueados'[r])
  BY <1>1, <1>2, <1>5, <1>6, AppendElementos, ColasSinRepetir
<1>8. SinRepetidos'
  BY <1>1, <1>2, <1>5, <1>6, <1>7, ColasSinRepetir, ColasSinRepetirPrima
<1>9. \A q \in Procesos : \A x \in Sitios :
          Esta(q, x)' <=> IF q = p THEN x = "RECURSO" ELSE Esta(q, x)
  BY <1>2, <1>3, <1>4, <1>5, <1>7 DEF Esta, Sitios, Estados
<1> QED
  BY <1>1, <1>8, <1>9 DEF Mueve, Sitios, Estados, p

\* instruccion_signal wakes the first of the queue.
LEMMA DespertarMueve ==
    ASSUME InvInductivo, InvSitios, Despertar, procesos_bloqueados[Arg] # <<>>
    PROVE  /\ Mueve(Head(procesos_bloqueados[Arg]), "RECURSO", "READY")
           /\ SinRepetidos'
<1> DEFINE r == Arg
           p == Head(procesos_bloqueados[r])
<1>1. TypeOK /\ UnSitio /\ SinRepetidos /\ r \in Recursos
  BY DEF InvInductivo, InvSitios, HilosConPcb, Despertar
<1>2. /\ procesos_bloqueados[r] \in Seq(Procesos) /\ procesos_bloqueados[r] # <<>>
      /\ Agregar(p, "READY")
      /\ procesos_bloqueados' = [procesos_bloqueados EXCEPT ![r] = Tail(@)]
      /\ desalojo.pc \notin EnMano /\ desalojo'.pc \notin EnMano
      /\ UNCHANGED <<consola, corto, finalizados>>
  BY <1>1 DEF Despertar, Deja, Hilo, EnMano, TypeOK
<1> HIDE DEF r
<1>3. /\ p \in Elementos(procesos_bloqueados[r])
      /\ Elementos(Tail(procesos_bloqueados[r])) =
            Elementos(procesos_bloqueados[r]) \ {p}
      /\ Inyectiva(Tail(procesos_bloqueados[r]))
  BY <1>1, <1>2, TailElementos, ColasSinRepetir
<1>4. p \in Procesos
  BY <1>2, HeadTailProperties
<1> HIDE DEF p
<1>5. /\ procesos_bloqueados'[r] = Tail(procesos_bloqueados[r])
      /\ \A s \in Recursos \ {r} : procesos_bloqueados'[s] = procesos_bloqueados[s]
  BY <1>1, <1>2 DEF TypeOK
<1>6. Esta(p, "RECURSO")
  BY <1>1, <1>3 DEF Esta, Estados
<1>7. \A x \in Sitios : Esta(p, x) <=> x = "RECURSO"
  BY <1>1, <1>4, <1>6 DEF UnSitio, Sitios, Estados
<1>8. /\ Elementos(lista_estados'["READY"]) = Elementos(lista_estados["READY"]) \cup {p}
      /\ \A x \in Estados \ {"READY"} : lista_estados'[x] = lista_estados[x]
      /\ \A x \in Estados : Inyectiva(lista_estados'[x])
  BY <1>1, <1>2, <1>4, <1>7, AgregarElementos DEF Esta, Sitios, Estados
<1>9. \A s \in Recursos : p \notin Elementos(procesos_bloqueados'[s])
  BY <1>1, <1>3, <1>5, ColasSinRepetir
<1>10. \A q \in Procesos : \A x \in Sitios :
          Esta(q, x)' <=> IF q = p THEN x = "READY" ELSE Esta(q, x)
  <2> TAKE q \in Procesos
  <2>1. CASE q = p
    BY <1>2, <1>7, <1>8, <1>9, <2>1 DEF Esta, Sitios, Estados
  <2>2. CASE q # p
    <3>1. \A s \in Recursos : q \in Elementos(procesos_bloqueados'[s])
                                <=> q \in Elementos(procesos_bloqueados[s])
      BY <1>3, <1>5, <2>2
    <3> QED
      BY <1>2, <1>8, <2>2, <3>1 DEF Esta, Sitios, Estados
  <2> QED
    BY <2>1, <2>2
<1>11. /\ \A s \in Recursos : Inyectiva(procesos_bloqueados'[s])
       /\ \A s, t \in Recursos : s # t =>
             Elementos(procesos_bloqueados'[s])
                \cap Elementos(procesos_bloqueados'[t]) = {}
  BY <1>1, <1>3, <1>5, ColasSinRepetir
<1>12. SinRepetidos'
  BY <1>1, <1>8, <1>11, ColasSinRepetirPrima
<1> QED
  BY <1>4, <1>6, <1>10, <1>12 DEF Mueve, Sitios, Estados, p, r

\* A second COMPACTACION, and an answer of no branch, need a Memoria that asks
\* for a compaction or an exchange out of step.
Reintentos == "COMPACTACION" \in RespuestasMemoria \/ respuestas # "al_dia"

\* I_CREATE_SEGMENT: the process goes on, or ends, or keeps waiting for the
\* second answer; or, when the second is not the last, it is lost.
LEMMA CreateSegmentMueve ==
    ASSUME InvInductivo, InvSitios, CreateSegment
    PROVE  /\ SinRepetidos'
           /\ \/ /\ Mueve(desalojo.pcb, "DESALOJO", "EXECUTING")
                 /\ desalojo'.pc = "unlock"
              \/ /\ Mueve(desalojo.pcb, "DESALOJO", "EXIT")
                 /\ desalojo'.pc = "post_cpu_grado"
              \/ /\ Quieto /\ desalojo'.pc \in {"unlock_reintentar", "reintentar"}
                 /\ Reintentos
              \/ /\ Pierde(desalojo.pcb) /\ desalojo'.pc \in {"unlock", "lock"}
                 /\ UNCHANGED lista_estados
                 /\ Reintentos
<1>1. /\ TypeOK /\ UnSitio /\ SinRepetidos
      /\ desalojo.pc \in EnMano /\ desalojo.pcb \in Procesos
  BY ManejaEnMano DEF CreateSegment, InvInductivo, InvSitios, HilosConPcb, ConPcb,
     EnMano
<1>2. UNCHANGED <<consola, corto, procesos_bloqueados>>
  BY DEF CreateSegment, recursos
<1>3. PICK respuesta \in Contestaciones[respuestas] :
          \/ /\ respuesta = "AUX_OK"
             /\ Agregar(desalojo.pcb, "EXECUTING")
             /\ Deja("unlock")
             /\ UNCHANGED finalizados
          \/ /\ respuesta = "COMPACTACION"
             /\ IF desalojo.pc = "reintentar" THEN Deja("unlock")
                                              ELSE Sigue("unlock_reintentar")
             /\ UNCHANGED <<lista_estados, finalizados>>
          \/ /\ respuesta = "OUT_OF_MEMORY"
             /\ TerminarProceso
             /\ UNCHANGED lista_estados
          \/ /\ respuesta = "OTRA"
             /\ IF desalojo.pc = "reintentar" THEN Deja("lock")
                                              ELSE Sigue("reintentar")
             /\ UNCHANGED <<lista_estados, finalizados>>
  BY DEF CreateSegment
<1>8. respuesta \in {"COMPACTACION", "OTRA"} => Reintentos
  BY <1>3, ContestacionesAlDia, MemoriaAssumption DEF Reintentos
<1>4. CASE respuesta = "AUX_OK"
  <2>1. /\ Agregar(desalojo.pcb, "EXECUTING") /\ desalojo'.pc = "unlock"
        /\ desalojo'.pc \notin EnMano /\ UNCHANGED finalizados
    BY <1>3, <1>4 DEF Deja, Hilo, EnMano
  <2> QED
    BY <1>1, <1>2, <2>1, ManoALista DEF Estados
<1>5. CASE respuesta = "OUT_OF_MEMORY"
  <2>1. /\ TerminarProceso /\ UNCHANGED lista_estados
        /\ desalojo'.pc = "post_cpu_grado"
    BY <1>3, <1>5 DEF TerminarProceso, Deja, Hilo
  <2> QED
    BY <1>1, <1>2, <2>1, ManoAExit
<1>6. CASE respuesta \in {"COMPACTACION", "OTRA"} /\ desalojo.pc # "reintentar"
  <2>1. /\ desalojo'.pc \in {"unlock_reintentar", "reintentar"}
        /\ desalojo'.pcb = desalojo.pcb
        /\ UNCHANGED <<lista_estados, finalizados>>
    BY <1>3, <1>6 DEF Sigue, Hilo
  <2>2. Quieto
    BY <1>1, <1>2, <2>1 DEF Quieto, Esta, Sitios, EnMano
  <2> QED
    BY <1>1, <1>2, <1>6, <1>8, <2>1, <2>2, SinRepetidosListas DEF SinRepetidos
<1>7. CASE respuesta \in {"COMPACTACION", "OTRA"} /\ desalojo.pc = "reintentar"
  <2>1. /\ desalojo'.pc \in {"unlock", "lock"} /\ desalojo'.pc \notin EnMano
        /\ UNCHANGED <<lista_estados, finalizados>>
    BY <1>3, <1>7 DEF Deja, Hilo, EnMano
  <2>2. Esta(desalojo.pcb, "DESALOJO")
    BY <1>1 DEF Esta
  <2>3. \A x \in Sitios : Esta(desalojo.pcb, x) <=> x = "DESALOJO"
    BY <1>1, <2>2 DEF UnSitio, Sitios, Estados
  <2>4. Pierde(desalojo.pcb)
    BY <1>1, <1>2, <2>1, <2>2, <2>3 DEF Pierde, Esta, Sitios, Estados
  <2>5. SinRepetidos'
    BY <1>1, <1>2, <2>1 DEF SinRepetidos
  <2> QED
    BY <1>7, <1>8, <2>1, <2>4, <2>5
<1> QED
  BY <1>3, <1>4, <1>5, <1>6, <1>7

-----------------------------------------------------------------------------
(* The other steps *)

\* A step that leaves the lists alone, and the two hands that hold a PCB.
LEMMA QuietoSi ==
    ASSUME SinRepetidos,
           UNCHANGED <<lista_estados, procesos_bloqueados, finalizados>>,
           \A q \in Procesos : consola'[q] \in {"fuera", "agregar"}
                                  <=> consola[q] \in {"fuera", "agregar"},
           \/ corto' = corto
           \/ corto.pc # "agregar" /\ corto'.pc # "agregar",
           \/ desalojo'.pcb = desalojo.pcb
              /\ (desalojo'.pc \in EnMano <=> desalojo.pc \in EnMano)
           \/ desalojo.pc \notin EnMano /\ desalojo'.pc \notin EnMano
    PROVE  Quieto /\ SinRepetidos'
<1>1. SinRepetidos'
  BY DEF SinRepetidos
<1>2. Quieto
  <2> SUFFICES ASSUME NEW q \in Procesos, NEW x \in Sitios
               PROVE  Esta(q, x)' <=> Esta(q, x)
    BY DEF Quieto
  <2>1. CASE x \in Estados \cup {"RECURSO", "EXIT"}
    BY <2>1 DEF Esta, Estados
  <2>2. CASE x = "FUERA"
    BY <2>2 DEF Esta, Estados
  <2>3. CASE x = "CORTO"
    BY <2>3 DEF Esta, Estados
  <2>4. CASE x = "DESALOJO"
    BY <2>4 DEF Esta, Estados
  <2> QED
    BY <2>1, <2>2, <2>3, <2>4 DEF Sitios
<1> QED
  BY <1>1, <1>2

\* The steps of the other threads that only wait, post or look at a list, and
\* those in which the kernel falls before it takes a PCB.
OtrosQuietos ==
    \/ \E p \in Procesos : RecibirDeConsola(p) \/ PostInicializar(p)
    \/ EsperarInicializar \/ TomarNew \/ CrearPcb \/ EsperarGrado \/ SoltarNew
    \/ PostTerminado \/ RespuestaIlegible
    \/ EsperarCpu \/ EsperarTerminado \/ UnlockExecuting
    \/ Elegir /\ lista_estados["READY"] = <<>>

\* The same of manejo_desalojo_pcb.
DesalojoQuieto ==
    \/ LockExecuting \/ RecibirDeCpu \/ ArchivoNoAbierto
    \/ EnviarACpu /\ lista_estados["EXECUTING"] = <<>>
    \/ Despertar /\ procesos_bloqueados[Arg] = <<>>
    \/ PostCpu \/ PostReady \/ PostGrado \/ Unlock

\* They move no PCB.
LEMMA OtrosQuietosQuietos ==
    ASSUME InvInductivo, InvSitios, OtrosQuietos
    PROVE  Quieto /\ SinRepetidos'
<1>1. /\ SinRepetidos /\ consola \in [Procesos -> {"fuera", "agregar", "post", "fin"}]
  BY DEF InvInductivo, TypeOK, InvSitios
<1>2. UNCHANGED <<lista_estados, procesos_bloqueados, finalizados, desalojo>>
  BY DEF OtrosQuietos, RecibirDeConsola, PostInicializar, EsperarInicializar,
     TomarNew, CrearPcb, RespuestaIlegible, EsperarGrado, SoltarNew, PostTerminado, EsperarCpu,
     EsperarTerminado, UnlockExecuting, Elegir, recursos, hilos
<1>3. \A q \in Procesos : consola'[q] \in {"fuera", "agregar"}
                             <=> consola[q] \in {"fuera", "agregar"}
  BY <1>1 DEF OtrosQuietos, RecibirDeConsola, PostInicializar,
     EsperarInicializar, TomarNew, CrearPcb, RespuestaIlegible, EsperarGrado, SoltarNew, PostTerminado,
     EsperarCpu, EsperarTerminado, UnlockExecuting, Elegir, hilos
<1>4. \/ corto' = corto
      \/ corto.pc # "agregar" /\ corto'.pc # "agregar"
  BY DEF OtrosQuietos, RecibirDeConsola, PostInicializar, EsperarInicializar,
     TomarNew, CrearPcb, RespuestaIlegible, EsperarGrado, SoltarNew, PostTerminado, EsperarCpu,
     EsperarTerminado, UnlockExecuting, Elegir, Hilo, hilos
<1> QED
  BY <1>1, <1>2, <1>3, <1>4, QuietoSi

\* Neither do those of manejo_desalojo_pcb.
LEMMA DesalojoQuietoQuieto ==
    ASSUME InvInductivo, InvSitios, DesalojoQuieto
    PROVE  Quieto /\ SinRepetidos'
<1>1. SinRepetidos
  BY DEF InvSitios
<1>2. UNCHANGED <<lista_estados, procesos_bloqueados, finalizados, corto, consola>>
  BY DEF DesalojoQuieto, LockExecuting, RecibirDeCpu, ArchivoNoAbierto,
     EnviarACpu, Despertar, PostCpu, PostReady, PostGrado, Unlock, recursos,
     hilos
<1>3. \/ desalojo'.pcb = desalojo.pcb
         /\ (desalojo'.pc \in EnMano <=> desalojo.pc \in EnMano)
      \/ desalojo.pc \notin EnMano /\ desalojo'.pc \notin EnMano
  <2>1. CASE PostCpu
    BY <2>1, TrasValores DEF PostCpu, Sigue, Hilo, EnMano
  <2>2. CASE PostReady
    BY <2>2, TrasValores DEF PostReady, Hilo, EnMano
  <2>3. CASE Unlock
    BY <2>3, TrasValores DEF Unlock, Sigue, Hilo, EnMano
  <2>4. CASE LockExecuting \/ RecibirDeCpu \/ ArchivoNoAbierto \/ PostGrado
    BY <2>4 DEF LockExecuting, RecibirDeCpu, ArchivoNoAbierto, PostGrado, Deja,
       Hilo, EnMano, hilos
  <2>5. CASE \/ EnviarACpu /\ lista_estados["EXECUTING"] = <<>>
             \/ Despertar /\ procesos_bloqueados[Arg] = <<>>
    BY <2>5 DEF EnviarACpu, Despertar, Deja, Hilo, EnMano
  <2> QED
    BY <2>1, <2>2, <2>3, <2>4, <2>5 DEF DesalojoQuieto
<1> QED
  BY <1>1, <1>2, <1>3, QuietoSi

-----------------------------------------------------------------------------
(* Every step *)

\* The places a PCB goes from and to with the degree of multiprogramming
\* unchanged, except by the dispatcher's AgregarExecuting.
Transiciones ==
    {<<"FUERA", "NEW">>, <<"READY", "CORTO">>, <<"EXECUTING", "DESALOJO">>,
     <<"DESALOJO", "READY">>, <<"DESALOJO", "EXECUTING">>,
     <<"DESALOJO", "BLOCKED">>, <<"DESALOJO", "RECURSO">>,
     <<"BLOCKED", "READY">>, <<"RECURSO", "READY">>}

Cambio ==
    \E p \in Procesos : \E par \in Transiciones : Mueve(p, par[1], par[2])

\* The steps of terminar_proceso.
TerminaPaso ==
    \/ Termina
    \/ CreateSegment /\ desalojo'.pc = "post_cpu_grado"

\* The steps that neither admit a process nor end one.
OtroPaso ==
    \/ OtrosQuietos \/ DesalojoQuieto
    \/ \E p \in Procesos : AgregarNew(p)
    \/ Elegir /\ lista_estados["READY"] # <<>>
    \/ AgregarExecuting
    \/ EnviarACpu /\ lista_estados["EXECUTING"] # <<>>
    \/ Continua \/ Bloquea \/ Yield \/ Desbloquea \/ WaitBloquea
    \/ Despertar /\ procesos_bloqueados[Arg] # <<>>
    \/ CreateSegment /\ desalojo'.pc # "post_cpu_grado"
    \/ UNCHANGED vars

\* There are no other steps.
LEMMA Pasos ==
    ASSUME [Next]_vars
    PROVE  MoverAReady \/ TerminaPaso \/ OtroPaso
<1>1. CASE \E p \in Procesos : RecibirDeConsola(p) \/ Consola(p)
  BY <1>1 DEF Consola, OtroPaso, OtrosQuietos
<1>2. CASE Largo
  BY <1>2 DEF Largo, OtroPaso, OtrosQuietos
<1>3. CASE Corto
  BY <1>3 DEF Corto, OtroPaso, OtrosQuietos
<1>4. CASE Desalojo
  BY <1>4 DEF Desalojo, OtroPaso, DesalojoQuieto, TerminaPaso, Termina, Continua,
     Bloquea, Desbloquea
<1> QED
  BY <1>1, <1>2, <1>3, <1>4 DEF Next, OtroPaso, OtrosQuietos

\* The step that loses a PCB.
PierdePaso ==
    /\ CreateSegment
    /\ Pierde(desalojo.pcb)
    /\ desalojo'.pc \in {"unlock", "lock"}
    /\ UNCHANGED lista_estados
    /\ Reintentos

\* What the other steps move.
LEMMA OtroPasoMueve ==
    ASSUME InvInductivo, InvSitios, OtroPaso
    PROVE  /\ SinRepetidos'
           /\ \/ Quieto
              \/ Cambio
              \/ AgregarExecuting /\ Mueve(corto.pcb, "CORTO", "EXECUTING")
              \/ PierdePaso
<1>1. ASSUME NEW p, NEW s, NEW t, Mueve(p, s, t), <<s, t>> \in Transiciones
      PROVE  Cambio
  <2>1. p \in Procesos /\ Mueve(p, <<s, t>>[1], <<s, t>>[2])
    BY <1>1 DEF Mueve
  <2> QED
    BY <1>1, <2>1 DEF Cambio
<1>2. CASE OtrosQuietos \/ DesalojoQuieto
  BY <1>2, OtrosQuietosQuietos, DesalojoQuietoQuieto
<1>3. CASE \E p \in Procesos : AgregarNew(p)
  BY <1>1, <1>3, AgregarNewMueve DEF Transiciones
<1>4. CASE Elegir /\ lista_estados["READY"] # <<>>
  BY <1>1, <1>4, ElegirMueve DEF Transiciones
<1>5. CASE AgregarExecuting
  BY <1>5, AgregarExecutingMueve
<1>6. CASE EnviarACpu /\ lista_estados["EXECUTING"] # <<>>
  BY <1>1, <1>6, EnviarACpuMueve DEF Transiciones
<1>7. CASE Continua \/ Bloquea
  BY <1>1, <1>7, ContinuaMueve, BloqueaMueve DEF Transiciones
<1>8. CASE Yield \/ Desbloquea \/ WaitBloquea
  BY <1>1, <1>8, YieldMueve, DesbloqueaMueve, WaitBloqueaMueve DEF Transiciones
<1>9. CASE Despertar /\ procesos_bloqueados[Arg] # <<>>
  BY <1>1, <1>9, DespertarMueve DEF Transiciones
<1>10. CASE CreateSegment /\ desalojo'.pc # "post_cpu_grado"
  BY <1>1, <1>10, CreateSegmentMueve DEF Transiciones, PierdePaso
<1>11. CASE UNCHANGED vars
  BY <1>11, QuietoSi DEF InvSitios, vars, hilos, recursos
<1> QED
  BY <1>2, <1>3, <1>4, <1>5, <1>6, <1>7, <1>8, <1>9, <1>10, <1>11 DEF OtroPaso

\* What those of terminar_proceso move.
LEMMA TerminaPasoMueve ==
    ASSUME InvInductivo, InvSitios, TerminaPaso
    PROVE  Mueve(desalojo.pcb, "DESALOJO", "EXIT") /\ SinRepetidos'
  BY TerminaMueve, CreateSegmentMueve DEF TerminaPaso

\* UnSitio survives each kind of move.
LEMMA UnSitioMueve ==
    /\ \A p, s, t : UnSitio /\ Mueve(p, s, t) => UnSitio'
    /\ UnSitio /\ Quieto => UnSitio'
    /\ \A p : UnSitio /\ Pierde(p) => UnSitio'
  BY DEF UnSitio, Mueve, Quieto, Pierde

\* Only its thread moves enviar_proceso_a_ready.
LEMMA LargoSolo ==
    ASSUME [Next]_vars, ~Largo
    PROVE  largo' = largo
<1>1. CASE \E p \in Procesos : RecibirDeConsola(p) \/ Consola(p)
  BY <1>1 DEF RecibirDeConsola, Consola, AgregarNew, PostInicializar
<1>2. CASE Corto
  BY <1>2 DEF Corto, EsperarCpu, EsperarTerminado, Elegir, AgregarExecuting,
     UnlockExecuting
<1>3. CASE LockExecuting \/ EnviarACpu \/ RecibirDeCpu \/ Yield \/ Exit \/ Io \/ FinIo
  BY <1>3 DEF LockExecuting, EnviarACpu, RecibirDeCpu, Yield, Exit, Io, FinIo
<1>4. CASE Wait \/ WaitBloquea \/ Signal \/ Despertar \/ RecursoInexistente
  BY <1>4 DEF Wait, WaitBloquea, Signal, Despertar, RecursoInexistente
<1>5. CASE \/ FOpenBloquea \/ FOpen \/ FClose \/ FSeek \/ FReadWrite
           \/ ArchivoNoAbierto
  BY <1>5 DEF FOpenBloquea, FOpen, FClose, FSeek, FReadWrite, ArchivoNoAbierto,
     hilos
<1>6. CASE \/ Truncate \/ FinFs \/ CreateSegment \/ DeleteSegment
           \/ PostCpu \/ PostReady \/ PostGrado \/ Unlock
  BY <1>6 DEF Truncate, FinFs, CreateSegment, DeleteSegment, PostCpu, PostReady,
     PostGrado, Unlock
<1>7. CASE UNCHANGED vars
  BY <1>7 DEF vars, hilos
<1>8. CASE RespuestaIlegible
  BY <1>8 DEF RespuestaIlegible, hilos
<1> QED
  BY <1>1, <1>2, <1>3, <1>4, <1>5, <1>6, <1>7, <1>8 DEF Next, Desalojo

\* The PCB it saw at the head of NEW stays there until it moves it itself.
LEMMA NewEspera ==
    ASSUME InvInductivo, InvSitios, [Next]_vars,
           largo.pc \in {"memoria", "grado", "ready"}, ~MoverAReady
    PROVE  \A p : p = largo.pcb => Esta(p, "NEW")'
<1> SUFFICES ASSUME NEW p, p = largo.pcb PROVE Esta(p, "NEW")'
  OBVIOUS
<1>1. /\ UnSitio /\ p \in Procesos /\ Esta(p, "NEW")
      /\ "NEW" \in Sitios
  BY DEF InvInductivo, InvSitios, HilosConPcb, Sitios, Estados
<1>2. ASSUME NEW q, NEW s \in Sitios \ {"NEW"}, NEW t, Mueve(q, s, t)
      PROVE  Esta(p, "NEW")'
  <2>1. q # p
    BY <1>1, <1>2 DEF UnSitio, Mueve
  <2> QED
    BY <1>1, <1>2, <2>1 DEF Mueve
<1>3. CASE TerminaPaso
  BY <1>2, <1>3, TerminaPasoMueve DEF Sitios, Estados
<1>4. CASE OtroPaso
  <2>1. CASE Quieto
    BY <1>1, <2>1 DEF Quieto
  <2>2. CASE Cambio
    <3>1. PICK q \in Procesos, par \in Transiciones : Mueve(q, par[1], par[2])
      BY <2>2 DEF Cambio
    <3>2. par[1] \in Sitios \ {"NEW"}
      BY DEF Transiciones, Sitios, Estados
    <3> QED
      BY <1>2, <3>1, <3>2
  <2>3. CASE Mueve(corto.pcb, "CORTO", "EXECUTING")
    BY <1>2, <2>3 DEF Sitios, Estados
  <2>4. CASE Pierde(desalojo.pcb)
    <3>1. desalojo.pcb # p
      BY <1>1, <2>4 DEF UnSitio, Pierde, Sitios, Estados
    <3> QED
      BY <1>1, <2>4, <3>1 DEF Pierde
  <2> QED
    BY <1>4, <2>1, <2>2, <2>3, <2>4, OtroPasoMueve DEF PierdePaso
<1> QED
  BY <1>3, <1>4, Pasos

\* Every step keeps each PCB in one place.
LEMMA InvSitiosPaso ==
    ASSUME InvInductivo, InvSitios, [Next]_vars
    PROVE  InvSitios'
<1>1. UnSitio' /\ SinRepetidos'
  <2>1. CASE MoverAReady
    BY <2>1, MoverAReadyMueve, UnSitioMueve DEF InvSitios
  <2>2. CASE TerminaPaso
    BY <2>2, TerminaPasoMueve, UnSitioMueve DEF InvSitios
  <2>3. CASE OtroPaso
    <3>1. Cambio => UnSitio'
      BY UnSitioMueve DEF InvSitios, Cambio
    <3> QED
      BY <2>3, <3>1, OtroPasoMueve, UnSitioMueve DEF InvSitios, PierdePaso
  <2> QED
    BY <2>1, <2>2, <2>3, Pasos
<1>2. ASSUME largo'.pc \in {"memoria", "grado", "ready"}
      PROVE  \A p : p = largo'.pcb => Esta(p, "NEW")'
  <2>1. CASE TomarNew
    <3>1. /\ lista_estados["NEW"] \in Seq(Procesos) /\ lista_estados["NEW"] # <<>>
          /\ largo'.pcb = Head(lista_estados["NEW"])
          /\ lista_estados' = lista_estados
      BY <1>2, <2>1 DEF TomarNew, Hilo, InvInductivo, TypeOK, Estados
    <3>2. Head(lista_estados["NEW"]) \in Elementos(lista_estados["NEW"])
      BY <3>1, TailElementos DEF InvSitios, SinRepetidos, Inyectiva, Estados
    <3> QED
      BY <3>1, <3>2 DEF Esta, Estados
  <2>2. CASE CrearPcb \/ EsperarGrado
    <3>1. /\ largo'.pcb = largo.pcb /\ largo.pc \in {"memoria", "grado"}
          /\ ~MoverAReady
      BY <2>2 DEF CrearPcb, EsperarGrado, MoverAReady, Hilo
    <3> QED
      BY <3>1, NewEspera
  <2>3. CASE ~Largo
    <3>1. largo' = largo /\ largo.pc \in {"memoria", "grado", "ready"} /\ ~MoverAReady
      BY <1>2, <2>3, LargoSolo DEF Largo
    <3> QED
      BY <3>1, NewEspera
  <2>4. CASE EsperarInicializar \/ MoverAReady \/ SoltarNew \/ PostTerminado
    BY <1>2, <2>4 DEF EsperarInicializar, MoverAReady, SoltarNew, PostTerminado,
       Hilo
  <2> QED
    BY <2>1, <2>2, <2>3, <2>4 DEF Largo
<1>3. largo'.pc \in {"memoria", "grado", "ready"} => Esta(largo.pcb, "NEW")'
  BY <1>2 DEF Esta, Estados
<1> QED
  BY <1>1, <1>3 DEF InvSitios

\* At the start every PCB is outside.
LEMMA InvSitiosInicial == Init => InvSitios
<1> SUFFICES ASSUME Init PROVE InvSitios
  OBVIOUS
<1>1. /\ \A e \in Estados : DOMAIN lista_estados[e] = {}
      /\ \A r \in Recursos : DOMAIN procesos_bloqueados[r] = {}
  BY DEF Init
<1>2. SinRepetidos
  BY <1>1 DEF SinRepetidos
<1>3. /\ \A e \in Estados : Elementos(lista_estados[e]) = {}
      /\ \A r \in Recursos : Elementos(procesos_bloqueados[r]) = {}
  BY <1>1 DEF Elementos
<1>4. \A p \in Procesos : \A s \in Sitios : Esta(p, s) <=> s = "FUERA"
  BY <1>3 DEF Init, Esta, Sitios, Estados, Hilo, EnMano
<1> QED
  BY <1>2, <1>4 DEF Init, InvSitios, UnSitio, Hilo

\* Each PCB is in one of the lists, in the hands of one thread or destroyed,
\* and in no list twice; the one that enviar_proceso_a_ready saw at the head of
\* NEW is still there when the degree of multiprogramming lets it in.
THEOREM InvSitiosTeorema == Spec => []InvSitios
<1>1. InvInductivo /\ InvSitios /\ [Next]_vars => InvSitios'
  BY InvSitiosPaso
<1> QED
  BY <1>1, InvSitiosInicial, InvInductivoTeorema, PTL DEF Spec

-----------------------------------------------------------------------------
(* No PCB is lost or duplicated *)

\* When Memoria asks for no compaction and has room, no PCB is left nowhere.
Ninguno == \A p \in Procesos : ~Perdido(p)

\* The only step that leaves a PCB nowhere is that of a second answer that asks
\* for a third.
LEMMA NingunoPaso ==
    ASSUME RespuestasMemoria \subseteq {"AUX_OK"},
           InvInductivo, InvSitios, Ninguno, [Next]_vars
    PROVE  Ninguno'
<1>1. Quieto => Ninguno'
  BY DEF Quieto, Ninguno, Perdido
<1>2. ASSUME NEW p, NEW s, NEW t, Mueve(p, s, t)
      PROVE  Ninguno'
  BY <1>2 DEF Mueve, Ninguno, Perdido
<1>3. CASE MoverAReady \/ TerminaPaso
  BY <1>2, <1>3, MoverAReadyMueve, TerminaPasoMueve
<1>4. CASE OtroPaso
  <2>1. ~Reintentos
    BY DEF Reintentos, InvInductivo, RespuestasAlDia
  <2> QED
    BY <1>1, <1>2, <1>4, <2>1, OtroPasoMueve DEF Cambio, PierdePaso
<1> QED
  BY <1>3, <1>4, Pasos

\* The element of a list without repetitions has one position.
LEMMA UnaPosicion ==
    ASSUME NEW s, Inyectiva(s), NEW p \in Elementos(s)
    PROVE  \E i \in DOMAIN s : {j \in DOMAIN s : s[j] = p} = {i}
<1>1. PICK i \in DOMAIN s : s[i] = p
  BY DEF Elementos
<1>2. {j \in DOMAIN s : s[j] = p} = {i}
  BY <1>1 DEF Inyectiva
<1> QED
  BY <1>2

\* The places of Lugares, one by one.
LEMMA LugaresValor ==
    ASSUME NEW p, NEW x
    PROVE  x \in Lugares(p) <=>
              \/ \E e \in Estados : \E i \in DOMAIN lista_estados[e] :
                    lista_estados[e][i] = p /\ x = <<e, i>>
              \/ \E r \in Recursos : \E i \in DOMAIN procesos_bloqueados[r] :
                    procesos_bloqueados[r][i] = p /\ x = <<r, i>>
              \/ corto.pc = "agregar" /\ corto.pcb = p /\ x = <<"corto", 0>>
              \/ /\ desalojo.pc \in EnMano /\ desalojo.pcb = p
                 /\ x = <<"desalojo", 0>>
              \/ p \in finalizados /\ x = <<"finalizados", 0>>
<1> DEFINE A == UNION {{<<e, i>> : i \in {j \in DOMAIN lista_estados[e] :
                                    lista_estados[e][j] = p}} : e \in Estados}
           B == UNION {{<<r, i>> : i \in {j \in DOMAIN procesos_bloqueados[r] :
                                    procesos_bloqueados[r][j] = p}} :
                                    r \in Recursos}
           C == {<<h, 0>> : h \in {y \in {"corto"} :
                                  corto.pc = "agregar" /\ corto.pcb = p}}
           D == {<<h, 0>> : h \in {y \in {"desalojo"} :
                                  desalojo.pc \in EnMano /\ desalojo.pcb = p}}
           F == {<<h, 0>> : h \in {y \in {"finalizados"} : p \in finalizados}}
<1>1. x \in A <=> \E e \in Estados : \E i \in DOMAIN lista_estados[e] :
                     lista_estados[e][i] = p /\ x = <<e, i>>
  OBVIOUS
<1>2. x \in B <=> \E r \in Recursos : \E i \in DOMAIN procesos_bloqueados[r] :
                     procesos_bloqueados[r][i] = p /\ x = <<r, i>>
  OBVIOUS
<1>3. x \in C <=> corto.pc = "agregar" /\ corto.pcb = p /\ x = <<"corto", 0>>
  OBVIOUS
<1>4. x \in D <=> /\ desalojo.pc \in EnMano /\ desalojo.pcb = p
                 /\ x = <<"desalojo", 0>>
  OBVIOUS
<1>5. x \in F <=> p \in finalizados /\ x = <<"finalizados", 0>>
  OBVIOUS
<1>6. Lugares(p) = A \cup B \cup C \cup D \cup F
  BY DEF Lugares
<1> HIDE DEF A, B, C, D, F
<1> QED
  BY <1>1, <1>2, <1>3, <1>4, <1>5, <1>6

\* A PCB that has entered NEW and is in one place is in one of Lugares.
LEMMA UnLugar ==
    ASSUME UnSitio, SinRepetidos, NEW p \in Procesos, ~Perdido(p),
           ~Esta(p, "FUERA")
    PROVE  \E x : Lugares(p) = {x}
<1>1. PICK s \in Sitios : Esta(p, s)
  BY DEF Perdido
<1>2. \A t \in Sitios : Esta(p, t) <=> t = s
  BY <1>1 DEF UnSitio
<1>3. \A e \in Estados : s # e => p \notin Elementos(lista_estados[e])
  BY <1>2 DEF Esta, Sitios
<1>4. s # "RECURSO" =>
         \A r \in Recursos : p \notin Elementos(procesos_bloqueados[r])
  BY <1>2 DEF Esta, Sitios
<1>5. /\ corto.pc = "agregar" /\ corto.pcb = p <=> s = "CORTO"
      /\ desalojo.pc \in EnMano /\ desalojo.pcb = p <=> s = "DESALOJO"
      /\ p \in finalizados <=> s = "EXIT"
  BY <1>2 DEF Esta, Sitios, Estados
<1>6. /\ \A e \in Estados : \A i \in DOMAIN lista_estados[e] :
            lista_estados[e][i] = p => s = e
      /\ \A r \in Recursos : \A i \in DOMAIN procesos_bloqueados[r] :
            procesos_bloqueados[r][i] = p => s = "RECURSO"
  BY <1>3, <1>4 DEF Elementos
<1>7. CASE s \in Estados
  <2>1. Inyectiva(lista_estados[s]) /\ p \in Elementos(lista_estados[s])
    BY <1>1, <1>7 DEF SinRepetidos, Inyectiva, Esta, Estados
  <2>2. PICK i \in DOMAIN lista_estados[s] :
            {j \in DOMAIN lista_estados[s] : lista_estados[s][j] = p} = {i}
    BY <2>1, UnaPosicion
  <2>3. \A x : x \in Lugares(p) <=> x = <<s, i>>
    BY <1>5, <1>6, <1>7, <2>2, LugaresValor DEF Estados
  <2>4. Lugares(p) = {<<s, i>>}
    BY <2>3
  <2> QED
    BY <2>4
<1>8. CASE s = "RECURSO"
  <2>1. PICK r \in Recursos : p \in Elementos(procesos_bloqueados[r])
    BY <1>1, <1>8 DEF Esta, Estados
  <2>2. PICK i \in DOMAIN procesos_bloqueados[r] : procesos_bloqueados[r][i] = p
    BY <2>1 DEF Elementos
  <2>3. \A t \in Recursos : \A j \in DOMAIN procesos_bloqueados[t] :
           procesos_bloqueados[t][j] = p => t = r /\ j = i
    BY <2>2 DEF SinRepetidos
  <2>4. \A x : x \in Lugares(p) <=> x = <<r, i>>
    BY <1>5, <1>6, <1>8, <2>2, <2>3, LugaresValor DEF Estados
  <2>5. Lugares(p) = {<<r, i>>}
    BY <2>4
  <2> QED
    BY <2>5
<1>9. CASE s \in {"CORTO", "DESALOJO", "EXIT"}
  <2>1. CASE s = "CORTO"
    <3>1. \A x : x \in Lugares(p) <=> x = <<"corto", 0>>
      BY <1>5, <1>6, <2>1, LugaresValor DEF Estados
    <3>2. Lugares(p) = {<<"corto", 0>>}
      BY <3>1
    <3> QED
      BY <3>2
  <2>2. CASE s = "DESALOJO"
    <3>1. \A x : x \in Lugares(p) <=> x = <<"desalojo", 0>>
      BY <1>5, <1>6, <2>2, LugaresValor DEF Estados
    <3>2. Lugares(p) = {<<"desalojo", 0>>}
      BY <3>1
    <3> QED
      BY <3>2
  <2>3. CASE s = "EXIT"
    <3>1. \A x : x \in Lugares(p) <=> x = <<"finalizados", 0>>
      BY <1>5, <1>6, <2>3, LugaresValor DEF Estados
    <3>2. Lugares(p) = {<<"finalizados", 0>>}
      BY <3>1
    <3> QED
      BY <3>2
  <2> QED
    BY <1>9, <2>1, <2>2, <2>3
<1> QED
  BY <1>1, <1>7, <1>8, <1>9 DEF Sitios

\* No PCB is lost or duplicated, if Memoria always finds room for a segment: a
\* second COMPACTACION in a row would leave the PCB nowhere, and so would the
\* answers read out of step after an OUT_OF_MEMORY.
THEOREM UnSoloLugarTeorema ==
    ASSUME RespuestasMemoria \subseteq {"AUX_OK"}
    PROVE  Spec => []UnSoloLugar
<1>1. Init => Ninguno
  BY DEF Init, Ninguno, Perdido, Esta, Sitios
<1>2. InvInductivo /\ InvSitios /\ Ninguno /\ [Next]_vars => Ninguno'
  BY NingunoPaso
<1>3. InvSitios /\ Ninguno => UnSoloLugar
  <2> SUFFICES ASSUME InvSitios, Ninguno, NEW p \in Procesos,
                      consola[p] \in {"post", "fin"}
               PROVE  Cardinality(Lugares(p)) = 1
    BY DEF UnSoloLugar
  <2>1. ~Esta(p, "FUERA")
    BY DEF Esta, Estados
  <2>2. PICK x : Lugares(p) = {x}
    BY <2>1, UnLugar DEF InvSitios, Ninguno
  <2> QED
    BY <2>2, FS_Singleton
<1> QED
  BY <1>1, <1>2, <1>3, InvSitiosTeorema, InvInductivoTeorema, PTL DEF Spec

=============================================================================

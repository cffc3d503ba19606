---------------------------- MODULE Ciclo_proofs ----------------------------
(***************************************************************************)
(* Theorems about Planificador: the degree of multiprogramming, that the   *)
(* threads implement the life cycle of Ciclo, what stops them all, and     *)
(* that the kernel does not dereference NULL when programs are Sanos.      *)
(*                                                                         *)
(* The place where a PCB is determines the state of its process, so the    *)
(* moves of Planificador_proofs are the steps of the life cycle, or stutters.    *)
(*                                                                         *)
(* Four steps take a PCB, or an instruction, without looking whether there *)
(* is one: they rely on the count of a semaphore.  An invariant says of    *)
(* each of NEW, READY and EXECUTING how many PCBs its tokens stand for.    *)
(* The same counts say what a state where every thread waits looks like.   *)
(***************************************************************************)
EXTENDS Planificador_proofs

-----------------------------------------------------------------------------
(* The state of a process *)

\* The state of a process whose PCB is at each place.
EstadoDe ==
    [s \in Sitios |-> CASE s = "CORTO"    -> "READY"
                        [] s = "DESALOJO" -> "EXECUTING"
                        [] s = "RECURSO"  -> "BLOCKED"
                        [] OTHER          -> s]

\* One by one.
LEMMA EstadoDeValores ==
    /\ EstadoDe["FUERA"] = "FUERA" /\ EstadoDe["NEW"] = "NEW"
    /\ EstadoDe["READY"] = "READY" /\ EstadoDe["CORTO"] = "READY"
    /\ EstadoDe["EXECUTING"] = "EXECUTING" /\ EstadoDe["DESALOJO"] = "EXECUTING"
    /\ EstadoDe["BLOCKED"] = "BLOCKED" /\ EstadoDe["RECURSO"] = "BLOCKED"
    /\ EstadoDe["EXIT"] = "EXIT"
  BY DEF EstadoDe, Sitios, Estados

\* What the place says of the state: a process whose PCB is lost stays as if it
\* executed.
EstadoFiel ==
    \A p \in Procesos :
       /\ \A s \in Sitios : Esta(p, s) => estado[p] = EstadoDe[s]
       /\ Perdido(p) => estado[p] = "EXECUTING"

\* The place determines the state.
LEMMA EstadoSitio == UnSitio => EstadoFiel
<1> SUFFICES ASSUME UnSitio, NEW p \in Procesos
             PROVE  /\ \A s \in Sitios : Esta(p, s) => estado[p] = EstadoDe[s]
                    /\ Perdido(p) => estado[p] = "EXECUTING"
  BY DEF EstadoFiel
<1> DEFINE F == consola[p] \in {"fuera", "agregar"}
           X == p \in finalizados
           N == p \in Elementos(lista_estados["NEW"])
           R == p \in Elementos(lista_estados["READY"])
           C == corto.pc = "agregar" /\ corto.pcb = p
           B == p \in Elementos(lista_estados["BLOCKED"])
           Q == \E r \in Recursos : p \in Elementos(procesos_bloqueados[r])
<1>1. estado[p] = CASE F -> "FUERA" [] X -> "EXIT" [] N -> "NEW"
                    [] R \/ C -> "READY" [] B \/ Q -> "BLOCKED"
                    [] OTHER -> "EXECUTING"
  BY DEF estado
<1>2. /\ Esta(p, "FUERA") <=> F
      /\ Esta(p, "EXIT") <=> X
      /\ Esta(p, "NEW") <=> N
      /\ Esta(p, "READY") <=> R
      /\ Esta(p, "CORTO") <=> C
      /\ Esta(p, "BLOCKED") <=> B
      /\ Esta(p, "RECURSO") <=> Q
  BY DEF Esta, Estados
<1> HIDE DEF F, X, N, R, C, B, Q
<1>3. \A s, t \in Sitios : Esta(p, s) /\ Esta(p, t) => s = t
  BY DEF UnSitio
<1>4. ASSUME NEW s \in Sitios, Esta(p, s)
      PROVE  estado[p] = EstadoDe[s]
  <2>1. \A t \in Sitios : Esta(p, t) <=> t = s
    BY <1>3, <1>4
  <2> QED
    BY <1>1, <1>2, <2>1, EstadoDeValores DEF Sitios, Estados
<1>5. ASSUME Perdido(p)
      PROVE  estado[p] = "EXECUTING"
  BY <1>1, <1>2, <1>5 DEF Perdido, Sitios, Estados
<1> QED
  BY <1>4, <1>5

\* And after a step.
LEMMA EstadoSitioPrima == UnSitio' => EstadoFiel'
  BY EstadoSitio, PTL

\* A PCB that moves changes the state of its process only.
LEMMA EstadoMueve ==
    ASSUME UnSitio, UnSitio', NEW p, NEW s, NEW t, Mueve(p, s, t)
    PROVE  /\ p \in Procesos /\ estado[p] = EstadoDe[s]
           /\ estado' = [estado EXCEPT ![p] = EstadoDe[t]]
<1>1. EstadoFiel /\ EstadoFiel'
  BY EstadoSitio, EstadoSitioPrima
<1>2. p \in Procesos /\ estado[p] = EstadoDe[s] /\ estado'[p] = EstadoDe[t]
  BY <1>1 DEF Mueve, EstadoFiel
<1>3. ASSUME NEW q \in Procesos, q # p PROVE estado'[q] = estado[q]
  <2>1. \A x \in Sitios : Esta(q, x)' <=> Esta(q, x)
    BY <1>3 DEF Mueve
  <2>2. CASE Perdido(q)
    BY <1>1, <2>1, <2>2 DEF EstadoFiel, Perdido
  <2>3. CASE ~Perdido(q)
    <3>1. PICK x \in Sitios : Esta(q, x)
      BY <2>3 DEF Perdido
    <3> QED
      BY <1>1, <2>1, <3>1 DEF EstadoFiel
  <2> QED
    BY <2>2, <2>3
<1>4. /\ estado = [q \in Procesos |-> estado[q]]
      /\ estado' = [q \in Procesos |-> estado'[q]]
  BY DEF estado
<1> QED
  BY <1>2, <1>3, <1>4

\* When none moves, or one is lost, the states stay.
LEMMA EstadoQuieto ==
    ASSUME UnSitio, UnSitio', Quieto \/ \E p : Pierde(p)
    PROVE  estado' = estado
<1>1. EstadoFiel /\ EstadoFiel'
  BY EstadoSitio, EstadoSitioPrima
<1>2. ASSUME NEW q \in Procesos PROVE estado'[q] = estado[q]
  <2>1. CASE Perdido(q)
    <3>1. Perdido(q)'
      BY <2>1 DEF Perdido, Quieto, Pierde
    <3> QED
      BY <1>1, <2>1, <3>1 DEF EstadoFiel
  <2>2. CASE ~Perdido(q)
    <3>1. PICK x \in Sitios : Esta(q, x)
      BY <2>2 DEF Perdido
    <3>2. CASE Esta(q, x)'
      BY <1>1, <3>1, <3>2 DEF EstadoFiel
    <3>3. CASE ~Esta(q, x)'
      <4>1. Pierde(q)
        BY <3>1, <3>3 DEF Quieto, Pierde
      <4>2. Perdido(q)' /\ Esta(q, "DESALOJO") /\ "DESALOJO" \in Sitios
        BY <4>1 DEF Pierde, Perdido, Sitios
      <4> QED
        BY <1>1, <4>2, EstadoDeValores DEF EstadoFiel
    <3> QED
      BY <3>2, <3>3
  <2> QED
    BY <2>1, <2>2
<1>3. /\ estado = [q \in Procesos |-> estado[q]]
      /\ estado' = [q \in Procesos |-> estado'[q]]
  BY DEF estado
<1> QED
  BY <1>2, <1>3

-----------------------------------------------------------------------------
(* The degree of multiprogramming *)

\* The places in the degree that no process has: in the semaphore, with
\* enviar_proceso_a_ready, or about to be posted.
Libres == sem["grado"] + Uno(largo.pc = "ready")
            + Uno(desalojo.pc \in {"post_cpu_grado", "post_grado"})

\* A place is taken by the process that is admitted and given back by the one
\* that ends.
LEMMA LibresPaso ==
    ASSUME InvInductivo, [Next]_vars
    PROVE  /\ MoverAReady => Libres' = Libres - 1
           /\ TerminaPaso => Libres' = Libres + 1
           /\ OtroPaso => Libres' = Libres
<1> USE DEF Libres, Uno, Hilo
<1>0. TypeOK /\ sem["grado"] \in Nat
  BY DEF InvInductivo, TypeOK, Semaforos
<1>1. ASSUME MoverAReady PROVE Libres' = Libres - 1
  BY <1>0, <1>1 DEF MoverAReady, semaforos
<1>2. ASSUME TerminaPaso PROVE Libres' = Libres + 1
  <2>1. /\ desalojo.pc \in {"manejo", "reintentar"}
        /\ desalojo'.pc = "post_cpu_grado"
        /\ UNCHANGED <<sem, largo>>
    BY <1>2 DEF TerminaPaso, Termina, Exit, RecursoInexistente, CreateSegment,
       TerminarProceso, Maneja, Deja, semaforos
  <2> QED
    BY <1>0, <2>1
<1>3. ASSUME OtrosQuietos PROVE Libres' = Libres
  <2>1. CASE EsperarGrado
    BY <1>0, <2>1 DEF EsperarGrado, Espera, TypeOK, Semaforos
  <2>2. CASE ~EsperarGrado
    <3>1. sem'["grado"] = sem["grado"] /\ desalojo' = desalojo
      BY <1>0, <1>3, <2>2 DEF OtrosQuietos, RecibirDeConsola, PostInicializar,
         EsperarInicializar, TomarNew, CrearPcb, RespuestaIlegible, SoltarNew,
         PostTerminado, EsperarCpu, EsperarTerminado, UnlockExecuting, hilos, Elegir, Post, Espera, TypeOK,
         Semaforos, semaforos
    <3>2. (largo.pc = "ready") <=> (largo'.pc = "ready")
      BY <1>3, <2>2 DEF OtrosQuietos, RecibirDeConsola, PostInicializar,
         EsperarInicializar, TomarNew, CrearPcb, RespuestaIlegible, SoltarNew,
         PostTerminado, EsperarCpu, EsperarTerminado, UnlockExecuting, hilos, Elegir
    <3> QED
      BY <1>0, <3>1, <3>2
  <2> QED
    BY <2>1, <2>2
<1>4. ASSUME DesalojoQuieto PROVE Libres' = Libres
  <2>1. CASE PostGrado
    BY <1>0, <2>1 DEF PostGrado, Post, Deja, TypeOK, Semaforos
  <2>2. CASE ~PostGrado
    <3>1. sem'["grado"] = sem["grado"] /\ largo' = largo
      BY <1>0, <1>4, <2>2 DEF DesalojoQuieto, LockExecuting, RecibirDeCpu,
         ArchivoNoAbierto, EnviarACpu, Despertar, PostCpu, PostReady, Unlock,
         Post, TypeOK, Semaforos, semaforos, hilos
    <3>2. (desalojo.pc \in {"post_cpu_grado", "post_grado"})
             <=> (desalojo'.pc \in {"post_cpu_grado", "post_grado"})
      BY <1>4, <2>2, TrasValores DEF DesalojoQuieto, LockExecuting, RecibirDeCpu,
         ArchivoNoAbierto, EnviarACpu, Despertar, PostCpu, PostReady, Unlock,
         Deja, Sigue, hilos
    <3> QED
      BY <1>0, <3>1, <3>2
  <2> QED
    BY <2>1, <2>2
<1>5. ASSUME \/ \E p \in Procesos : AgregarNew(p)
             \/ Elegir \/ AgregarExecuting \/ EnviarACpu
      PROVE  Libres' = Libres
  BY <1>5 DEF AgregarNew, Elegir, AgregarExecuting, EnviarACpu, semaforos
<1>6. ASSUME Continua \/ Bloquea
      PROVE  Libres' = Libres
  <2>1. /\ desalojo.pc = "manejo" /\ UNCHANGED <<sem, largo>>
        /\ desalojo'.pc \notin {"post_cpu_grado", "post_grado"}
    BY <1>6 DEF Continua, Wait, Signal, FOpen, FClose, FSeek, DeleteSegment,
       Bloquea, Io, Truncate, FReadWrite, FOpenBloquea, Maneja, Deja, Sigue,
       semaforos
  <2> QED
    BY <1>0, <2>1
<1>7. ASSUME Yield \/ Desbloquea \/ WaitBloquea \/ Despertar
      PROVE  Libres' = Libres
  BY <1>7 DEF Yield, Desbloquea, FinIo, FinFs, WaitBloquea, Despertar, Maneja,
     Deja, semaforos
<1>8. ASSUME CreateSegment /\ desalojo'.pc # "post_cpu_grado"
      PROVE  Libres' = Libres
  <2>1. /\ desalojo.pc \in {"manejo", "reintentar"} /\ UNCHANGED <<sem, largo>>
        /\ desalojo'.pc \in {"unlock", "unlock_reintentar", "reintentar", "lock"}
    BY <1>8 DEF CreateSegment, TerminarProceso, Maneja, Deja, Sigue, semaforos
  <2> QED
    BY <1>0, <2>1
<1>9. ASSUME UNCHANGED vars
      PROVE  Libres' = Libres
  BY <1>9 DEF vars, hilos, semaforos
<1> QED
  BY <1>1, <1>2, <1>3, <1>4, <1>5, <1>6, <1>7, <1>8, <1>9 DEF OtroPaso

\* The states that count for the degree.
DeActivos == {"READY", "EXECUTING", "BLOCKED"}

\* What the change of one state does to the number of active processes.
LEMMA ActivosCambio ==
    ASSUME IsFiniteSet(Activos), NEW p \in Procesos, NEW e,
           estado' = [estado EXCEPT ![p] = e]
    PROVE  /\ IsFiniteSet(Activos')
           /\ estado[p] \in DeActivos /\ e \notin DeActivos =>
                 Cardinality(Activos') = Cardinality(Activos) - 1
           /\ estado[p] \notin DeActivos /\ e \in DeActivos =>
                 Cardinality(Activos') = Cardinality(Activos) + 1
           /\ (estado[p] \in DeActivos <=> e \in DeActivos) =>
                 Cardinality(Activos') = Cardinality(Activos)
<1>1. /\ Activos = {q \in Procesos : estado[q] \in DeActivos}
      /\ Activos' = {q \in Procesos : estado'[q] \in DeActivos}
  BY DEF Activos, CicloDeVida!Activos, DeActivos
<1>2. /\ estado'[p] = e
      /\ \A q \in Procesos \ {p} : estado'[q] = estado[q]
  BY DEF estado
<1>3. CASE e \in DeActivos
  <2>1. Activos' = Activos \cup {p}
    BY <1>1, <1>2, <1>3
  <2>2. p \in Activos <=> estado[p] \in DeActivos
    BY <1>1
  <2> HIDE DEF Activos
  <2> QED
    BY <1>3, <2>1, <2>2, FS_AddElement
<1>4. CASE e \notin DeActivos
  <2>1. Activos' = Activos \ {p}
    BY <1>1, <1>2, <1>4
  <2>2. p \in Activos <=> estado[p] \in DeActivos
    BY <1>1
  <2> QED
    BY <1>4, <2>1, <2>2, FS_RemoveElement
<1> QED
  BY <1>3, <1>4

\* GradoExacto, of a set of active processes that is finite.
InvGrado == IsFiniteSet(Activos) /\ GradoExacto

\* Every step keeps the count.
LEMMA InvGradoPaso ==
    ASSUME InvInductivo, InvSitios, InvSitios', InvGrado, [Next]_vars
    PROVE  InvGrado'
<1>1. /\ UnSitio /\ UnSitio' /\ IsFiniteSet(Activos)
      /\ Libres \in Nat /\ Libres + Cardinality(Activos) = Grado
      /\ Cardinality(Activos) \in Nat
  <2>1. sem["grado"] \in Nat
    BY DEF InvInductivo, TypeOK, Semaforos
  <2> QED
    BY <2>1, FS_CardinalityType DEF InvSitios, InvGrado, GradoExacto, Libres, Uno
<1>2. SUFFICES /\ IsFiniteSet(Activos')
               /\ Libres' + Cardinality(Activos') = Grado
  <2>1. sem'["grado"] \in Nat
    BY TypeOKPaso DEF InvInductivo, TypeOK, Semaforos
  <2>2. IsFiniteSet(Activos') => Cardinality(Activos') \in Nat
    BY FS_CardinalityType
  <2> QED
    BY <2>1, <2>2 DEF InvGrado, GradoExacto, Libres, Uno
<1>3. CASE MoverAReady
  <2>1. /\ largo.pcb \in Procesos /\ estado[largo.pcb] = "NEW"
        /\ estado' = [estado EXCEPT ![largo.pcb] = "READY"]
    BY <1>1, <1>3, MoverAReadyMueve, EstadoMueve, EstadoDeValores
  <2>2. /\ IsFiniteSet(Activos')
        /\ Cardinality(Activos') = Cardinality(Activos) + 1
    BY <1>1, <2>1, ActivosCambio DEF DeActivos
  <2> QED
    BY <1>1, <1>3, <2>2, LibresPaso
<1>4. CASE TerminaPaso
  <2>1. /\ desalojo.pcb \in Procesos /\ estado[desalojo.pcb] = "EXECUTING"
        /\ estado' = [estado EXCEPT ![desalojo.pcb] = "EXIT"]
    BY <1>1, <1>4, TerminaPasoMueve, EstadoMueve, EstadoDeValores
  <2>2. /\ IsFiniteSet(Activos')
        /\ Cardinality(Activos') = Cardinality(Activos) - 1
    <3>1. "EXECUTING" \in DeActivos /\ "EXIT" \notin DeActivos
      BY DEF DeActivos
    <3> QED
      BY <1>1, <2>1, <3>1, ActivosCambio
  <2> QED
    BY <1>1, <1>4, <2>2, LibresPaso
<1>5. CASE OtroPaso
  <2>1. IsFiniteSet(Activos') /\ Cardinality(Activos') = Cardinality(Activos)
    <3>1. CASE Quieto \/ PierdePaso
      <4>1. estado' = estado
        BY <1>1, <3>1, EstadoQuieto DEF PierdePaso
      <4>2. Activos' = Activos
        BY <4>1 DEF Activos, CicloDeVida!Activos
      <4> QED
        BY <1>1, <4>2
    <3>2. CASE Cambio
      <4>1. PICK p \in Procesos, par \in Transiciones : Mueve(p, par[1], par[2])
        BY <3>2 DEF Cambio
      <4>2. /\ estado[p] = EstadoDe[par[1]]
            /\ estado' = [estado EXCEPT ![p] = EstadoDe[par[2]]]
        BY <1>1, <4>1, EstadoMueve
      <4>3. EstadoDe[par[1]] \in DeActivos <=> EstadoDe[par[2]] \in DeActivos
        BY EstadoDeValores DEF Transiciones, DeActivos
      <4> QED
        BY <1>1, <4>2, <4>3, ActivosCambio
    <3>3. CASE Mueve(corto.pcb, "CORTO", "EXECUTING")
      <4>1. /\ corto.pcb \in Procesos /\ estado[corto.pcb] = "READY"
            /\ estado' = [estado EXCEPT ![corto.pcb] = "EXECUTING"]
        BY <1>1, <3>3, EstadoMueve, EstadoDeValores
      <4> QED
        BY <1>1, <4>1, ActivosCambio DEF DeActivos
    <3> QED
      BY <1>5, <3>1, <3>2, <3>3, OtroPasoMueve
  <2> QED
    BY <1>1, <1>5, <2>1, LibresPaso
<1> QED
  BY <1>3, <1>4, <1>5, Pasos

\* At the start every process is outside.
LEMMA EstadoInicial == Init => estado = [p \in Procesos |-> "FUERA"]
<1> SUFFICES ASSUME Init PROVE estado = [p \in Procesos |-> "FUERA"]
  OBVIOUS
<1>1. EstadoFiel
  BY InvSitiosInicial, EstadoSitio DEF InvSitios
<1>2. \A p \in Procesos : Esta(p, "FUERA")
  BY DEF Init, Esta
<1>3. \A p \in Procesos : estado[p] = "FUERA"
  BY <1>1, <1>2, EstadoDeValores DEF EstadoFiel, Sitios
<1>4. estado = [p \in Procesos |-> estado[p]]
  BY DEF estado
<1> QED
  BY <1>3, <1>4

\* At the start no process is active, and the semaphore has the whole degree.
LEMMA InvGradoInicial == Init => InvGrado
<1> SUFFICES ASSUME Init PROVE InvGrado
  OBVIOUS
<1>1. \A p \in Procesos : estado[p] = "FUERA"
  BY EstadoInicial
<1>2. Activos = {}
  BY <1>1 DEF Activos, CicloDeVida!Activos
<1>3. /\ sem["grado"] = Grado /\ largo.pc = "inicializar"
      /\ desalojo.pc = "lock"
  BY DEF Init, Hilo
<1>4. IsFiniteSet(Activos) /\ Cardinality(Activos) = 0
  BY <1>2, FS_EmptySet
<1>5. /\ Uno(largo.pc = "ready") = 0
      /\ Uno(desalojo.pc \in {"post_cpu_grado", "post_grado"}) = 0
  BY <1>3 DEF Uno
<1> QED
  BY <1>3, <1>4, <1>5, GradoAssumption DEF InvGrado, GradoExacto

\* From the start on.
LEMMA InvGradoTeorema == Spec => []InvGrado
<1>1. InvInductivo /\ InvSitios /\ InvSitios' /\ InvGrado /\ [Next]_vars
         => InvGrado'
  BY InvGradoPaso
<1> QED
  BY <1>1, InvGradoInicial, InvSitiosTeorema, InvInductivoTeorema, PTL
     DEF Spec

\* The processes admitted and not destroyed, with the free places, are exactly
\* GRADO_MAX_MULTIPROGRAMACION, whatever the programs and Memoria's answers.
THEOREM GradoExactoTeorema == Spec => []GradoExacto
<1>1. InvGrado => GradoExacto
  BY DEF InvGrado
<1> QED
  BY <1>1, InvGradoTeorema, PTL

-----------------------------------------------------------------------------
(* The refinement of the life cycle *)

\* Losing a PCB loses the token of the CPU with it.
LEMMA PerdidoSinCpuPaso ==
    ASSUME SinPostDeMas, InvInductivo, InvSitios, InvCpu, PerdidoSinCpu,
           [Next]_vars
    PROVE  PerdidoSinCpu'
<1>1. /\ TypeOK /\ HilosConPcb /\ NadieDespiertaPorArchivo
      /\ TokensCpu <= 1 /\ desalojo.pc \notin {"unlock_cpu", "espera_archivo"}
  BY DEF InvInductivo, InvCpu, UnaCpu
<1>2. /\ TokensCpu \in Nat /\ TokensCpu' \in Nat
      /\ TokensCpu' <= TokensCpu
  BY <1>1, TypeOKPaso, TokensCpuTipo, TokensCpuPaso DEF InvInductivo, ConservaCpu
<1>3. CASE \E p \in Procesos : Perdido(p)
  BY <1>2, <1>3 DEF PerdidoSinCpu
<1>4. CASE PierdePaso
  <2>1. /\ desalojo.pc \in EnMano /\ desalojo'.pc \in {"unlock", "lock"}
        /\ UNCHANGED <<sem, corto, lista_estados>>
    BY <1>4 DEF PierdePaso, CreateSegment, Maneja, EnMano, semaforos
  <2>2. sem["cpu"] \in Nat /\ Len(lista_estados["EXECUTING"]) \in Nat
    BY <1>1 DEF TypeOK, Semaforos, Estados
  <2>3. TokensCpu' = TokensCpu - 1
    BY <2>1, <2>2 DEF TokensCpu, Uno, EnMano
  <2> QED
    BY <1>1, <1>2, <2>3 DEF PerdidoSinCpu
<1>5. CASE ~PierdePaso /\ \A p \in Procesos : ~Perdido(p)
  <2>1. Quieto => \A p \in Procesos : ~Perdido(p)'
    BY <1>5 DEF Quieto, Perdido
  <2>2. ASSUME NEW p, NEW s, NEW t, Mueve(p, s, t)
        PROVE  \A q \in Procesos : ~Perdido(q)'
    BY <1>5, <2>2 DEF Mueve, Perdido
  <2>3. \A p \in Procesos : ~Perdido(p)'
    <3>1. CASE MoverAReady \/ TerminaPaso
      BY <2>2, <3>1, MoverAReadyMueve, TerminaPasoMueve
    <3>2. CASE OtroPaso
      BY <1>5, <2>1, <2>2, <3>2, OtroPasoMueve DEF Cambio
    <3> QED
      BY <3>1, <3>2, Pasos
  <2> QED
    BY <2>3 DEF PerdidoSinCpu
<1> QED
  BY <1>3, <1>4, <1>5

\* Nothing is dispatched, then, after a PCB is lost.
THEOREM PerdidoSinCpuTeorema ==
    ASSUME SinPostDeMas
    PROVE  Spec => []PerdidoSinCpu
<1>1. Init => PerdidoSinCpu
  BY DEF Init, PerdidoSinCpu, Perdido, Esta, Sitios
<1>2. InvInductivo /\ InvSitios /\ InvCpu /\ PerdidoSinCpu /\ [Next]_vars
         => PerdidoSinCpu'
  BY PerdidoSinCpuPaso
<1> QED
  BY <1>1, <1>2, InvInductivoTeorema, InvSitiosTeorema, InvCpuTeorema, PTL
     DEF Spec

\* The dispatcher gives the CPU to a process when no other has it.
LEMMA CpuLibre ==
    ASSUME TypeOK, InvSitios, InvCpu, PerdidoSinCpu, corto.pc = "agregar"
    PROVE  \A q \in Procesos : estado[q] # "EXECUTING"
<1>1. sem["cpu"] \in Nat /\ Len(lista_estados["EXECUTING"]) \in Nat
  BY DEF TypeOK, Semaforos, Estados
<1>2. /\ TokensCpu # 0 /\ desalojo.pc \notin EnMano
      /\ Len(lista_estados["EXECUTING"]) = 0
  BY <1>1 DEF InvCpu, UnaCpu, TokensCpu, Uno
<1>3. lista_estados["EXECUTING"] = <<>>
  BY <1>2, EmptySeq DEF TypeOK, Estados
<1> TAKE q \in Procesos
<1>4. ~Perdido(q)
  BY <1>2 DEF PerdidoSinCpu
<1>5. PICK s \in Sitios : Esta(q, s)
  BY <1>4 DEF Perdido
<1>6. s # "DESALOJO" /\ s # "EXECUTING"
  BY <1>2, <1>3, <1>5 DEF Esta, Elementos, Estados
<1>7. estado[q] = EstadoDe[s]
  BY <1>5, EstadoSitio DEF InvSitios, EstadoFiel
<1> QED
  BY <1>6, <1>7, EstadoDeValores DEF Sitios, Estados

\* The instance of Ciclo counts as this module does.
LEMMA MismaCardinalidad ==
    \A S : CicloDeVida!Cardinality(S) = Cardinality(S)
  BY DEF CicloDeVida!Cardinality, Cardinality

\* Every step of the threads is a step of the life cycle, or none.
LEMMA CicloPaso ==
    ASSUME InvInductivo, InvSitios, InvSitios', InvGrado, InvCpu,
           PerdidoSinCpu, [Next]_vars
    PROVE  [CicloDeVida!Next]_estado
<1>1. UnSitio /\ UnSitio' /\ TypeOK
  BY DEF InvSitios, InvInductivo
<1>2. CASE MoverAReady
  <2> DEFINE p == largo.pcb
  <2>1. /\ p \in Procesos /\ estado[p] = "NEW"
        /\ estado' = [estado EXCEPT ![p] = "READY"]
    BY <1>1, <1>2, MoverAReadyMueve, EstadoMueve, EstadoDeValores
  <2>2. Cardinality(Activos) < Grado
    <3>1. /\ sem["grado"] \in Nat /\ Cardinality(Activos) \in Nat
          /\ largo.pc = "ready"
      BY <1>1, <1>2, FS_CardinalityType
         DEF InvGrado, TypeOK, Semaforos, MoverAReady
    <3> QED
      BY <3>1, GradoAssumption DEF InvGrado, GradoExacto, Uno
  <2> HIDE DEF p
  <2>3. CicloDeVida!Admitir(p)
    BY <2>1, <2>2, MismaCardinalidad
       DEF CicloDeVida!Admitir, CicloDeVida!Pasa, Activos
  <2> QED
    BY <2>1, <2>3 DEF CicloDeVida!Next
<1>3. CASE TerminaPaso
  <2> DEFINE p == desalojo.pcb
  <2>1. /\ p \in Procesos /\ estado[p] = "EXECUTING"
        /\ estado' = [estado EXCEPT ![p] = "EXIT"]
    BY <1>1, <1>3, TerminaPasoMueve, EstadoMueve, EstadoDeValores
  <2> HIDE DEF p
  <2>2. CicloDeVida!Terminar(p)
    BY <2>1 DEF CicloDeVida!Terminar, CicloDeVida!Pasa
  <2> QED
    BY <2>1, <2>2 DEF CicloDeVida!Next
<1>4. CASE Quieto \/ PierdePaso
  BY <1>1, <1>4, EstadoQuieto DEF PierdePaso
<1>5. CASE Cambio
  <2>1. PICK p \in Procesos, par \in Transiciones : Mueve(p, par[1], par[2])
    BY <1>5 DEF Cambio
  <2>2. /\ estado[p] = EstadoDe[par[1]]
        /\ estado' = [estado EXCEPT ![p] = EstadoDe[par[2]]]
    BY <1>1, <2>1, EstadoMueve
  <2> DEFINE de == EstadoDe[par[1]]
             a == EstadoDe[par[2]]
  <2>3. \/ de = "FUERA" /\ a = "NEW"
        \/ de = "EXECUTING" /\ a \in {"READY", "BLOCKED"}
        \/ de = "BLOCKED" /\ a = "READY"
        \/ de = a
    BY EstadoDeValores DEF Transiciones
  <2> HIDE DEF de, a
  <2>4. de = a => estado' = estado
    <3>1. estado = [q \in Procesos |-> estado[q]]
      BY DEF estado
    <3> QED
      BY <2>2, <3>1 DEF de, a
  <2>5. \/ CicloDeVida!Crear(p) \/ CicloDeVida!Desalojar(p)
        \/ CicloDeVida!Bloquear(p) \/ CicloDeVida!Desbloquear(p)
        \/ estado' = estado
    BY <2>2, <2>3, <2>4 DEF CicloDeVida!Crear, CicloDeVida!Desalojar,
       CicloDeVida!Bloquear, CicloDeVida!Desbloquear, CicloDeVida!Pasa, de, a
  <2> QED
    BY <2>5 DEF CicloDeVida!Next
<1>6. CASE AgregarExecuting /\ Mueve(corto.pcb, "CORTO", "EXECUTING")
  <2> DEFINE p == corto.pcb
  <2>1. /\ p \in Procesos /\ estado[p] = "READY"
        /\ estado' = [estado EXCEPT ![p] = "EXECUTING"]
    BY <1>1, <1>6, EstadoMueve, EstadoDeValores
  <2>2. \A q \in Procesos : estado[q] # "EXECUTING"
    BY <1>1, <1>6, CpuLibre DEF AgregarExecuting
  <2> HIDE DEF p
  <2>3. CicloDeVida!Despachar(p)
    BY <2>1, <2>2 DEF CicloDeVida!Despachar, CicloDeVida!Pasa
  <2> QED
    BY <2>1, <2>3 DEF CicloDeVida!Next
<1> QED
  BY <1>2, <1>3, <1>4, <1>5, <1>6, Pasos, OtroPasoMueve

\* The four threads implement the life cycle of five states: a process is
\* admitted only while there is room, and dispatched only when none executes,
\* if no program has an operation that posts sem_cpu_disponible while the
\* process goes on executing.
THEOREM ImplementaCicloTeorema ==
    ASSUME SinPostDeMas
    PROVE  Spec => ImplementaCiclo
<1>1. Init => CicloDeVida!Init
  BY EstadoInicial DEF CicloDeVida!Init
<1>2. InvInductivo /\ InvSitios /\ InvSitios' /\ InvGrado /\ InvCpu
         /\ PerdidoSinCpu /\ [Next]_vars => [CicloDeVida!Next]_estado
  BY CicloPaso
<1> QED
  BY <1>1, <1>2, InvGradoTeorema, InvSitiosTeorema, InvInductivoTeorema,
     InvCpuTeorema, PerdidoSinCpuTeorema, PTL
     DEF Spec, ImplementaCiclo, CicloDeVida!Spec

-----------------------------------------------------------------------------
(* Sane programs *)

\* They have none of the operations that post sem_cpu_disponible too often.
LEMMA SanosSinPost == Sanos => SinPostDeMas
  BY DEF Sanos, SinPostDeMas, DeArchivo

\* The instruction that is handled uses no file, and it is EXIT if it is the
\* last one.
LEMMA SanosManejo ==
    ASSUME Sanos, TypeOK, HilosConPcb, NEW ops, Maneja(ops)
    PROVE  /\ Instruccion.op \notin DeArchivo \ {"TRUNCATE"}
           /\ contador[desalojo.pcb] = Len(programa[desalojo.pcb])
                 => Instruccion.op = "EXIT"
<1>1. /\ desalojo.pcb \in Procesos
      /\ contador[desalojo.pcb] \in 1 .. Len(programa[desalojo.pcb])
  BY DEF Maneja, HilosConPcb, ConPcb
<1>2. programa[desalojo.pcb] \in Programas
  BY <1>1 DEF TypeOK
<1>3. DOMAIN programa[desalojo.pcb] = 1 .. Len(programa[desalojo.pcb])
  BY <1>2, ProgramasAssumption, LenProperties
<1> QED
  BY <1>1, <1>2, <1>3 DEF Sanos, Instruccion

\* Memoria has room, and each exchange reads its own answer.
LEMMA SanosContesta ==
    ASSUME Sanos, InvInductivo
    PROVE  /\ respuestas = "al_dia" /\ ~mutex_memoria
           /\ Contestaciones[respuestas] \subseteq {"AUX_OK"}
  BY ContestacionesAlDia DEF Sanos, InvInductivo, RespuestasAlDia

\* The handlers for files are never called.
LEMMA SinArchivos ==
    ASSUME Sanos, TypeOK, HilosConPcb
    PROVE  ~(FOpenBloquea \/ FOpen \/ FClose \/ FSeek \/ FReadWrite
             \/ ArchivoNoAbierto)
<1>1. ASSUME NEW ops \in SUBSET (DeArchivo \ {"TRUNCATE"}), Maneja(ops)
      PROVE  FALSE
  BY <1>1, SanosManejo DEF Maneja
<1>2. ~(FOpenBloquea \/ FOpen)
  BY <1>1 DEF FOpenBloquea, FOpen, DeArchivo
<1>3. ~(FClose \/ FSeek)
  BY <1>1 DEF FClose, FSeek, DeArchivo
<1>4. ~(FReadWrite \/ ArchivoNoAbierto)
  BY <1>1 DEF FReadWrite, ArchivoNoAbierto, DeArchivo
<1> QED
  BY <1>2, <1>3, <1>4

-----------------------------------------------------------------------------
(* The tokens of EXECUTING *)

\* A handler that sends the process back to the CPU adds a PCB and a signal.
LEMMA VuelveTokens ==
    ASSUME TypeOK, HilosConPcb, TokensDeExecuting, desalojo.pcb \in Procesos,
           Agregar(desalojo.pcb, "EXECUTING"),
           desalojo.pc \in {"manejo", "reintentar"},
           desalojo'.pc \in {"unlock", "unlock_despertar"},
           UNCHANGED <<corto, executing>>
    PROVE  TokensDeExecuting'
<1>1. Len(lista_estados["EXECUTING"]) \in Nat
  BY DEF TypeOK, Estados
<1>2. Len(lista_estados'["EXECUTING"]) = Len(lista_estados["EXECUTING"]) + 1
  BY AgregarListas DEF TypeOK, Estados
<1> QED
  BY <1>1, <1>2 DEF TokensDeExecuting, Uno

\* A step that changes neither EXECUTING nor a thread near it changes nothing.
LEMMA LejosTokens ==
    ASSUME TokensDeExecuting,
           lista_estados'["EXECUTING"] = lista_estados["EXECUTING"],
           UNCHANGED executing,
           \/ corto' = corto
           \/ corto.pc # "unlock" /\ corto'.pc # "unlock",
           \/ desalojo' = desalojo
           \/ /\ desalojo.pc \notin {"pop", "unlock", "unlock_despertar"}
              /\ desalojo'.pc \notin {"pop", "unlock", "unlock_despertar"}
    PROVE  TokensDeExecuting'
  BY DEF TokensDeExecuting, Uno

\* Every step keeps the count: a mutex is never unlocked twice, because one
\* process at most executes.
LEMMA TokensDeExecutingPaso ==
    ASSUME Sanos, InvInductivo, InvCpu, TokensDeExecuting,
           SinReintento, [Next]_vars
    PROVE  TokensDeExecuting'
<1>0. /\ TypeOK /\ HilosConPcb /\ UnaCpu /\ NadieDespiertaPorArchivo
      /\ desalojo.pc # "unlock_cpu"
      /\ Len(lista_estados["EXECUTING"]) \in Nat /\ sem["cpu"] \in Nat
      /\ desalojo.pc \notin {"unlock_reintentar", "reintentar"}
  BY SMTT(30) DEF InvInductivo, InvCpu, TypeOK, Estados, Semaforos, SinReintento
<1>1. Len(lista_estados["EXECUTING"]) <= 1
  BY <1>0 DEF UnaCpu, TokensCpu, Uno
<1>2. CASE (\E p \in Procesos : RecibirDeConsola(p) \/ Consola(p)) \/ Largo
  <2>1. UNCHANGED <<corto, desalojo, executing>>
    BY <1>2 DEF RecibirDeConsola, Consola, AgregarNew, PostInicializar, Largo,
       EsperarInicializar, TomarNew, CrearPcb, EsperarGrado, MoverAReady,
       SoltarNew, PostTerminado, semaforos
  <2>2. lista_estados'["EXECUTING"] = lista_estados["EXECUTING"]
    <3>1. CASE MoverAReady
      BY <1>0, <3>1, MoverListas DEF MoverAReady, HilosConPcb, TypeOK, Estados
    <3>2. CASE \E p \in Procesos : AgregarNew(p)
      BY <1>0, <3>2, AgregarListas DEF AgregarNew, TypeOK, Estados
    <3>3. CASE ~MoverAReady /\ ~(\E p \in Procesos : AgregarNew(p))
      BY <1>2, <3>3 DEF RecibirDeConsola, Consola, PostInicializar, Largo,
         EsperarInicializar, TomarNew, CrearPcb, EsperarGrado, SoltarNew,
         PostTerminado
    <3> QED
      BY <3>1, <3>2, <3>3
  <2> QED
    BY <2>1, <2>2, LejosTokens
<1>3. CASE EsperarCpu \/ EsperarTerminado \/ Elegir
  <2>1. /\ UNCHANGED <<desalojo, executing>>
        /\ lista_estados'["EXECUTING"] = lista_estados["EXECUTING"]
        /\ \/ corto' = corto
           \/ corto.pc # "unlock" /\ corto'.pc # "unlock"
    BY <1>0, <1>3 DEF EsperarCpu, EsperarTerminado, Elegir, Hilo, TypeOK,
       Estados, semaforos
  <2> QED
    BY <2>1, LejosTokens
<1>4. CASE AgregarExecuting
  <2>1. Len(lista_estados'["EXECUTING"]) = Len(lista_estados["EXECUTING"]) + 1
    BY <1>0, <1>4, AgregarListas
       DEF AgregarExecuting, TypeOK, Estados, HilosConPcb
  <2>2. /\ corto.pc = "agregar" /\ corto'.pc = "unlock"
        /\ UNCHANGED <<desalojo, executing>>
    BY <1>4 DEF AgregarExecuting, Hilo, semaforos
  <2> QED
    BY <1>0, <2>1, <2>2 DEF TokensDeExecuting, Uno
<1>5. CASE UnlockExecuting
  <2>1. /\ corto.pc = "unlock" /\ corto'.pc = "cpu" /\ executing' = TRUE
        /\ UNCHANGED <<desalojo, lista_estados>>
    BY <1>5 DEF UnlockExecuting, Hilo
  <2> QED
    BY <1>0, <1>1, <2>1 DEF TokensDeExecuting, Uno
<1>6. CASE LockExecuting
  <2>1. /\ desalojo.pc = "lock" /\ desalojo'.pc = "pop"
        /\ executing = TRUE /\ executing' = FALSE
        /\ UNCHANGED <<corto, lista_estados>>
    BY <1>0, <1>6 DEF LockExecuting, Hilo, TypeOK
  <2> QED
    BY <1>0, <2>1 DEF TokensDeExecuting, Uno
<1>7. CASE EnviarACpu
  <2>1. /\ desalojo.pc = "pop" /\ UNCHANGED <<corto, executing>>
    BY <1>7 DEF EnviarACpu, semaforos
  <2>2. lista_estados["EXECUTING"] # <<>>
    BY <1>0, <2>1 DEF TokensDeExecuting, Uno
  <2>3. /\ Len(lista_estados'["EXECUTING"])
              = Len(lista_estados["EXECUTING"]) - 1
        /\ desalojo'.pc = "cpu"
    BY <1>0, <1>7, <2>2, HeadTailProperties
       DEF EnviarACpu, TypeOK, Estados, Hilo
  <2> QED
    BY <1>0, <2>1, <2>3 DEF TokensDeExecuting, Uno
<1>8. CASE Wait \/ Signal \/ DeleteSegment
  <2>1. desalojo.pcb \in Procesos
    BY <1>0, <1>8, ConPcbManejo DEF Wait, Signal, DeleteSegment
  <2>2. /\ Agregar(desalojo.pcb, "EXECUTING") /\ desalojo.pc = "manejo"
        /\ desalojo'.pc \in {"unlock", "unlock_despertar"}
        /\ UNCHANGED <<corto, executing>>
    BY <1>8 DEF Wait, Signal, DeleteSegment, Maneja, Deja, Sigue, Hilo,
       semaforos
  <2> QED
    BY <1>0, <2>1, <2>2, VuelveTokens
<1>9. CASE CreateSegment
  <2>1. /\ desalojo.pcb \in Procesos /\ desalojo.pc = "manejo"
        /\ UNCHANGED <<corto, executing>>
    BY <1>0, <1>9, ConPcbManejo DEF CreateSegment, semaforos, Maneja
  <2>2. Agregar(desalojo.pcb, "EXECUTING") /\ desalojo'.pc = "unlock"
    BY <1>9, SanosContesta DEF CreateSegment, Deja, Hilo
  <2> QED
    BY <1>0, <2>1, <2>2, VuelveTokens
<1>10. CASE Unlock
  <2>1. /\ executing' = TRUE /\ UNCHANGED <<corto, lista_estados>>
        /\ desalojo.pc \in {"unlock", "unlock_despertar"}
        /\ desalojo'.pc \in {"lock", "despertar"}
    BY <1>0, <1>10, TrasValores DEF Unlock, Sigue, Hilo
  <2> QED
    BY <1>0, <1>1, <2>1 DEF TokensDeExecuting, Uno
<1>11. CASE Yield \/ Io \/ Truncate
  <2>1. desalojo.pcb \in Procesos
    BY <1>0, <1>11, ConPcbManejo DEF Yield, Io, Truncate
  <2>2. lista_estados'["EXECUTING"] = lista_estados["EXECUTING"]
    BY <1>0, <1>11, <2>1, AgregarListas DEF Yield, Io, Truncate, TypeOK, Estados
  <2>3. /\ desalojo.pc = "manejo"
        /\ desalojo'.pc \in {"post_cpu_ready", "io", "truncate"}
        /\ UNCHANGED <<corto, executing>>
    BY <1>11 DEF Yield, Io, Truncate, Maneja, Deja, Sigue, Hilo, semaforos
  <2> QED
    BY <2>2, <2>3, LejosTokens
<1>12. CASE FinIo \/ FinFs
  <2>1. desalojo.pcb \in Procesos
    BY <1>0, <1>12 DEF FinIo, FinFs, HilosConPcb, ConPcb
  <2>2. lista_estados'["EXECUTING"] = lista_estados["EXECUTING"]
    BY <1>0, <1>12, <2>1, MoverListas DEF FinIo, FinFs, TypeOK, Estados
  <2>3. /\ desalojo.pc \in {"io", "fs", "fs_truncate"}
        /\ desalojo'.pc \in {"post_cpu_ready", "post_ready_cpu", "post_ready"}
        /\ UNCHANGED <<corto, executing>>
    BY <1>12 DEF FinIo, FinFs, Deja, Hilo, semaforos
  <2> QED
    BY <2>2, <2>3, LejosTokens
<1>13. CASE Despertar
  <2>1. /\ desalojo.pc = "despertar" /\ desalojo'.pc \in {"lock", "post_ready"}
        /\ UNCHANGED <<corto, executing>>
    BY <1>13 DEF Despertar, Deja, Hilo, semaforos
  <2>2. CASE procesos_bloqueados[Arg] = <<>>
    BY <1>13, <2>1, <2>2, LejosTokens DEF Despertar
  <2>3. CASE procesos_bloqueados[Arg] # <<>>
    <3>1. Head(procesos_bloqueados[Arg]) \in Procesos
      BY <1>0, <1>13, <2>3, HeadTailProperties
         DEF Despertar, HilosConPcb, TypeOK
    <3>2. lista_estados'["EXECUTING"] = lista_estados["EXECUTING"]
      BY <1>0, <1>13, <2>3, <3>1, AgregarListas DEF Despertar, TypeOK, Estados
    <3> QED
      BY <2>1, <3>2, LejosTokens
  <2> QED
    BY <2>2, <2>3
<1>14. CASE RecibirDeCpu \/ Exit \/ WaitBloquea \/ RecursoInexistente
  <2>1. /\ UNCHANGED <<lista_estados, corto, executing>>
        /\ desalojo.pc \in {"cpu", "manejo"}
        /\ desalojo'.pc \in {"cpu", "manejo", "post_cpu_grado", "post_cpu"}
    BY <1>14 DEF RecibirDeCpu, Exit, WaitBloquea, RecursoInexistente,
       TerminarProceso, Maneja, Deja, Hilo, semaforos
  <2> QED
    BY <2>1, LejosTokens
<1>15. CASE PostCpu \/ PostReady \/ PostGrado
  <2>1. /\ UNCHANGED <<lista_estados, corto, executing>>
        /\ desalojo.pc \notin {"pop", "unlock", "unlock_despertar"}
        /\ desalojo'.pc \notin {"pop", "unlock", "unlock_despertar"}
    BY <1>15, TrasValores DEF PostCpu, PostReady, PostGrado, Deja, Sigue, Hilo
  <2> QED
    BY <2>1, LejosTokens
<1>16. CASE UNCHANGED vars
  BY <1>16, LejosTokens DEF vars, hilos, semaforos
<1>17. CASE RespuestaIlegible
  BY <1>17, LejosTokens DEF RespuestaIlegible, hilos, semaforos
<1> QED
  BY <1>0, <1>2, <1>3, <1>4, <1>5, <1>6, <1>7, <1>8, <1>9, <1>10, <1>11,
     <1>12, <1>13, <1>14, <1>15, <1>16, <1>17, SinArchivos
     DEF Next, Corto, Desalojo

-----------------------------------------------------------------------------
(* The tokens of NEW *)

\* A step that changes none of them keeps their count.
LEMMA LejosNew ==
    ASSUME TokensDeNew,
           lista_estados'["NEW"] = lista_estados["NEW"],
           sem'["inicializar"] = sem["inicializar"],
           largo'.pc \in {"new", "memoria", "grado", "ready"}
              <=> largo.pc \in {"new", "memoria", "grado", "ready"},
           Avisan' = Avisan
    PROVE  TokensDeNew'
  BY DEF TokensDeNew, Uno

\* Of the steps of manejo_desalojo_pcb and of the dispatcher, none takes a PCB
\* from NEW or adds one.
LEMMA DesalojoLejosNew ==
    ASSUME InvInductivo, Corto \/ Desalojo
    PROVE  /\ lista_estados'["NEW"] = lista_estados["NEW"]
           /\ sem'["inicializar"] = sem["inicializar"]
           /\ sem'["new"] = sem["new"]
           /\ UNCHANGED <<largo, consola>>
<1>0. /\ TypeOK /\ HilosConPcb /\ NadieDespiertaPorArchivo
      /\ lista_estados \in [Estados -> Seq(Procesos)]
      /\ sem \in [Semaforos -> Nat]
  BY DEF InvInductivo, TypeOK
<1>1. ASSUME NEW p \in Procesos, NEW e \in Estados, e # "NEW", Agregar(p, e)
      PROVE  lista_estados'["NEW"] = lista_estados["NEW"]
  BY <1>0, <1>1, AgregarListas DEF Estados
<1>2. CASE Corto
  <2>1. CASE AgregarExecuting
    BY <1>0, <1>1, <2>1 DEF AgregarExecuting, HilosConPcb, Estados, semaforos
  <2>2. CASE Elegir
    BY <1>0, <2>2 DEF Elegir, Estados, semaforos
  <2>3. CASE EsperarCpu \/ EsperarTerminado \/ UnlockExecuting
    BY <1>0, <2>3 DEF EsperarCpu, EsperarTerminado, UnlockExecuting, Espera,
       Semaforos
  <2> QED
    BY <1>2, <2>1, <2>2, <2>3 DEF Corto
<1>3. CASE Yield \/ Io \/ Wait \/ Signal \/ Truncate \/ DeleteSegment
  <2>1. desalojo.pcb \in Procesos
    BY <1>0, <1>3, ConPcbManejo
       DEF Yield, Io, Wait, Signal, Truncate, DeleteSegment
  <2> QED
    BY <1>1, <1>3, <2>1 DEF Yield, Io, Wait, Signal, Truncate, DeleteSegment,
       Estados, semaforos
<1>4. CASE CreateSegment
  <2>1. desalojo.pcb \in Procesos
    BY <1>0, <1>4, ConPcbManejo DEF CreateSegment, HilosConPcb, ConPcb
  <2> QED
    BY <1>1, <1>4, <2>1 DEF CreateSegment, Estados, semaforos
<1>5. CASE FinIo \/ FinFs
  <2>1. desalojo.pcb \in Procesos
    BY <1>0, <1>5 DEF FinIo, FinFs, HilosConPcb, ConPcb
  <2> QED
    BY <1>0, <1>5, <2>1, MoverListas DEF FinIo, FinFs, Estados, semaforos
<1>6. CASE Despertar
  <2>1. CASE procesos_bloqueados[Arg] # <<>>
    <3>1. Head(procesos_bloqueados[Arg]) \in Procesos
      BY <1>0, <1>6, <2>1, HeadTailProperties
         DEF Despertar, HilosConPcb, TypeOK
    <3> QED
      BY <1>1, <1>6, <2>1, <3>1 DEF Despertar, Estados, semaforos
  <2>2. CASE procesos_bloqueados[Arg] = <<>>
    BY <1>6, <2>2 DEF Despertar, semaforos
  <2> QED
    BY <2>1, <2>2
<1>7. CASE EnviarACpu
  BY <1>0, <1>7 DEF EnviarACpu, Estados, semaforos
<1>8. CASE LockExecuting \/ RecibirDeCpu \/ Exit \/ WaitBloquea
           \/ RecursoInexistente \/ Unlock
  BY <1>8 DEF LockExecuting, RecibirDeCpu, Exit, WaitBloquea,
     RecursoInexistente, Unlock, semaforos
<1>9. CASE PostCpu \/ PostReady \/ PostGrado
  BY <1>0, <1>9 DEF PostCpu, PostReady, PostGrado, Post, Semaforos
<1>10. CASE FOpenBloquea \/ FOpen \/ FSeek \/ FReadWrite
  <2>1. desalojo.pcb \in Procesos
    BY <1>0, <1>10, ConPcbManejo DEF FOpenBloquea, FOpen, FSeek, FReadWrite
  <2> QED
    BY <1>1, <1>10, <2>1 DEF FOpenBloquea, FOpen, FSeek, FReadWrite, Estados,
       semaforos
<1>11. CASE FClose
  <2>1. Maneja({"F_CLOSE"})
    BY <1>11 DEF FClose
  <2>2. desalojo.pcb \in Procesos /\ Arg \in Archivos
    BY <1>0, <2>1, ConPcbManejo DEF Maneja, DeArchivo
  <2>3. lista_procesos[Arg] = <<>>
    BY <1>0, <2>1, <2>2, NadieEspera
  <2>4. Agregar(desalojo.pcb, "EXECUTING")
    BY <1>11, <2>3 DEF FClose
  <2> QED
    BY <1>1, <1>11, <2>2, <2>4 DEF FClose, Estados, semaforos
<1>12. CASE ArchivoNoAbierto
  BY <1>12 DEF ArchivoNoAbierto, hilos, semaforos
<1> QED
  BY <1>2, <1>3, <1>4, <1>5, <1>6, <1>7, <1>8, <1>9, <1>10, <1>11, <1>12
     DEF Desalojo

\* Every step keeps the count.
LEMMA TokensDeNewPaso ==
    ASSUME InvInductivo, TokensDeNew, [Next]_vars
    PROVE  TokensDeNew'
<1>0. /\ TypeOK /\ HilosConPcb
      /\ lista_estados \in [Estados -> Seq(Procesos)]
      /\ lista_estados["NEW"] \in Seq(Procesos)
      /\ Len(lista_estados["NEW"]) \in Nat
      /\ sem \in [Semaforos -> Nat] /\ sem["inicializar"] \in Nat
      /\ consola \in [Procesos -> {"fuera", "agregar", "post", "fin"}]
      /\ IsFiniteSet(Avisan)
      /\ Cardinality(Avisan) \in Nat
  BY FS_CardinalityType, SMTT(30)
     DEF InvInductivo, TypeOK, Estados, Semaforos, TokensDeNew
<1> DEFINE tomado == Uno(largo.pc \in {"new", "memoria", "grado", "ready"})
<1>10. /\ tomado \in Nat
       /\ Len(lista_estados["NEW"])
             = sem["inicializar"] + tomado + Cardinality(Avisan)
  BY DEF TokensDeNew, Uno
<1>11. largo' = largo => tomado' = tomado
  OBVIOUS
<1>12. /\ IsFiniteSet(Avisan')
       /\ Len(lista_estados'["NEW"])
             = sem'["inicializar"] + tomado' + Cardinality(Avisan')
       => TokensDeNew'
  BY DEF TokensDeNew
<1> HIDE DEF tomado
<1>1. CASE \E p \in Procesos : AgregarNew(p)
  <2>1. PICK p \in Procesos : AgregarNew(p)
    BY <1>1
  <2>2. p \notin Avisan /\ Avisan' = Avisan \cup {p}
    BY <1>0, <2>1 DEF AgregarNew, Avisan
  <2>3. /\ IsFiniteSet(Avisan')
        /\ Cardinality(Avisan') = Cardinality(Avisan) + 1
    BY <1>0, <2>2, FS_AddElement
  <2>4. Len(lista_estados'["NEW"]) = Len(lista_estados["NEW"]) + 1
    BY <1>0, <2>1, AgregarListas DEF AgregarNew, Estados
  <2>5. UNCHANGED <<largo, sem>>
    BY <2>1 DEF AgregarNew, semaforos
  <2>6. tomado' = tomado /\ sem'["inicializar"] = sem["inicializar"]
    BY <1>11, <2>5
  <2>7. Len(lista_estados'["NEW"])
             = sem'["inicializar"] + tomado' + Cardinality(Avisan')
    BY <1>0, <1>10, <2>3, <2>4, <2>6
  <2> QED
    BY <1>12, <2>3, <2>7
<1>2. CASE \E p \in Procesos : PostInicializar(p)
  <2>1. PICK p \in Procesos : PostInicializar(p)
    BY <1>2
  <2>2. p \in Avisan /\ Avisan' = Avisan \ {p}
    BY <1>0, <2>1 DEF PostInicializar, Avisan
  <2>3. /\ IsFiniteSet(Avisan')
        /\ Cardinality(Avisan') = Cardinality(Avisan) - 1
    BY <1>0, <2>2, FS_RemoveElement
  <2>4. /\ sem'["inicializar"] = sem["inicializar"] + 1
        /\ UNCHANGED <<largo, lista_estados>>
    BY <1>0, <2>1 DEF PostInicializar, Post, Semaforos
  <2>5. tomado' = tomado /\ Len(lista_estados'["NEW"]) = Len(lista_estados["NEW"])
    BY <1>11, <2>4
  <2>6. Len(lista_estados'["NEW"])
             = sem'["inicializar"] + tomado' + Cardinality(Avisan')
    BY <1>0, <1>10, <2>3, <2>4, <2>5
  <2> QED
    BY <1>12, <2>3, <2>6
<1>3. CASE \E p \in Procesos : RecibirDeConsola(p)
  <2>1. Avisan' = Avisan
    BY <1>0, <1>3 DEF RecibirDeConsola, Avisan
  <2> QED
    BY <1>3, <2>1, LejosNew DEF RecibirDeConsola, semaforos
<1>4. CASE Largo
  <2>1. Avisan' = Avisan
    BY <1>4 DEF Largo, EsperarInicializar, TomarNew, CrearPcb, EsperarGrado,
       MoverAReady, SoltarNew, PostTerminado, Avisan
  <2>2. CASE EsperarInicializar
    <3>1. /\ largo.pc = "inicializar" /\ largo'.pc = "new"
          /\ sem'["inicializar"] = sem["inicializar"] - 1
          /\ UNCHANGED lista_estados
      BY <1>0, <2>2 DEF EsperarInicializar, Espera, Hilo, Semaforos
    <3> QED
      BY <1>0, <2>1, <3>1 DEF TokensDeNew, Uno
  <2>3. CASE MoverAReady
    <3>1. /\ largo.pc = "ready" /\ largo'.pc = "soltar"
          /\ UNCHANGED sem
      BY <2>3 DEF MoverAReady, Hilo, semaforos
    <3>2. lista_estados["NEW"] # <<>>
      BY <1>0, <3>1 DEF TokensDeNew, Uno
    <3>3. lista_estados'["NEW"] =
             SinPosicion(lista_estados["NEW"],
                         Posicion(lista_estados["NEW"], largo.pcb))
      BY <1>0, <2>3, MoverListas DEF MoverAReady, HilosConPcb, Estados
    <3>4. Len(lista_estados'["NEW"]) = Len(lista_estados["NEW"]) - 1
      BY <1>0, <3>2, <3>3, SinPosicionLargo
    <3> QED
      BY <1>0, <2>1, <3>1, <3>4 DEF TokensDeNew, Uno
  <2>4. CASE TomarNew \/ CrearPcb \/ EsperarGrado \/ SoltarNew \/ PostTerminado
    <3>1. /\ sem'["inicializar"] = sem["inicializar"]
          /\ UNCHANGED lista_estados
      BY <1>0, <2>4 DEF TomarNew, CrearPcb, EsperarGrado, SoltarNew,
         PostTerminado, Espera, Post, Semaforos, semaforos
    <3>2. largo'.pc \in {"new", "memoria", "grado", "ready"}
             <=> largo.pc \in {"new", "memoria", "grado", "ready"}
      BY <2>4 DEF TomarNew, CrearPcb, EsperarGrado, SoltarNew, PostTerminado, Hilo
    <3> QED
      BY <2>1, <3>1, <3>2, LejosNew
  <2> QED
    BY <1>4, <2>2, <2>3, <2>4 DEF Largo
<1>5. CASE Corto \/ Desalojo
  BY <1>5, DesalojoLejosNew, LejosNew DEF Avisan
<1>6. CASE UNCHANGED vars
  BY <1>6, LejosNew DEF vars, hilos, semaforos, Avisan
<1>7. CASE RespuestaIlegible
  BY <1>7, LejosNew DEF RespuestaIlegible, hilos, semaforos, Avisan
<1> QED
  BY <1>1, <1>2, <1>3, <1>4, <1>5, <1>6, <1>7 DEF Next, Consola

-----------------------------------------------------------------------------
(* Where the threads wait *)

\* NEW's semaphore is a mutex that enviar_proceso_a_ready holds from the PCB it
\* sees to the one it moves.
NewExclusivo ==
    sem["new"] + Uno(largo.pc \in {"memoria", "grado", "ready", "soltar"}) = 1

\* A PCB that is lost leaves the signal of a process that does not come, or the
\* mutex of Memoria locked.
AlarmaDePerdido ==
    TokensCpu = 0 =>
        executing \/ desalojo.pc \in {"pop", "unlock"} \/ mutex_memoria

\* What a state in which every thread waits rests on.
InvEspera == kernel = "vivo" => NewExclusivo /\ AlarmaDePerdido

\* Only a kernel that is alive takes a step.
LEMMA VivoAntes ==
    ASSUME Next
    PROVE  kernel = "vivo"
<1>1. CASE \E p \in Procesos : RecibirDeConsola(p) \/ Consola(p)
  BY <1>1 DEF RecibirDeConsola, Consola, AgregarNew, PostInicializar, Vive
<1>2. CASE Largo
  BY <1>2 DEF Largo, EsperarInicializar, TomarNew, CrearPcb, EsperarGrado,
     MoverAReady, SoltarNew, PostTerminado, Vive
<1>3. CASE Corto
  BY <1>3 DEF Corto, EsperarCpu, EsperarTerminado, Elegir, AgregarExecuting,
     UnlockExecuting, Vive
<1>4. CASE Desalojo
  BY <1>4 DEF Desalojo, LockExecuting, EnviarACpu, RecibirDeCpu, Yield, Exit,
     Io, FinIo, Wait, WaitBloquea, Signal, Despertar, RecursoInexistente,
     FOpenBloquea, FOpen, FClose, FSeek, FReadWrite, ArchivoNoAbierto, Truncate,
     FinFs, CreateSegment, DeleteSegment, PostCpu, PostReady, PostGrado, Unlock,
     Vive
<1>5. CASE RespuestaIlegible
  BY <1>5 DEF RespuestaIlegible
<1> QED
  BY <1>1, <1>2, <1>3, <1>4, <1>5 DEF Next

\* Every step of a kernel that stays alive keeps the mutex of NEW.
LEMMA NewExclusivoPaso ==
    ASSUME InvInductivo, NewExclusivo, Next, kernel' = "vivo"
    PROVE  NewExclusivo'
<1>0. sem \in [Semaforos -> Nat] /\ sem["new"] \in Nat
  BY DEF InvInductivo, TypeOK, Semaforos
<1>1. CASE UNCHANGED largo /\ sem'["new"] = sem["new"]
  BY <1>1 DEF NewExclusivo
<1>2. CASE \E p \in Procesos : RecibirDeConsola(p) \/ Consola(p)
  BY <1>0, <1>1, <1>2 DEF RecibirDeConsola, Consola, AgregarNew,
     PostInicializar, Post, Semaforos, semaforos
<1>3. CASE \/ EsperarInicializar \/ CrearPcb \/ EsperarGrado \/ MoverAReady
           \/ PostTerminado
  <2>1. /\ sem'["new"] = sem["new"]
        /\ largo'.pc \in {"memoria", "grado", "ready", "soltar"}
              <=> largo.pc \in {"memoria", "grado", "ready", "soltar"}
    BY <1>0, <1>3 DEF EsperarInicializar, CrearPcb, EsperarGrado, MoverAReady,
       PostTerminado, Post, Espera, Semaforos, semaforos, Hilo
  <2> QED
    BY <2>1 DEF NewExclusivo, Uno
<1>4. CASE TomarNew
  <2>1. /\ sem["new"] > 0 /\ sem'["new"] = sem["new"] - 1
        /\ largo.pc = "new" /\ largo'.pc = "memoria"
    BY <1>0, <1>4 DEF TomarNew, Espera, Caer, Semaforos, Hilo
  <2> QED
    BY <1>0, <2>1 DEF NewExclusivo, Uno
<1>5. CASE SoltarNew
  <2>1. /\ sem'["new"] = sem["new"] + 1
        /\ largo.pc = "soltar" /\ largo'.pc = "terminado"
    BY <1>0, <1>5 DEF SoltarNew, Post, Semaforos, Hilo
  <2> QED
    BY <1>0, <2>1 DEF NewExclusivo, Uno
<1>6. CASE Corto \/ Desalojo
  BY <1>1, <1>6, DesalojoLejosNew
<1>7. CASE RespuestaIlegible
  BY <1>1, <1>7 DEF RespuestaIlegible, hilos, semaforos
<1> QED
  BY <1>2, <1>3, <1>4, <1>5, <1>6, <1>7 DEF Next, Largo

\* Nobody unlocks mutex_memoria after an exchange has left it locked.
LEMMA MutexQueda ==
    ASSUME [Next]_vars, TypeOK, mutex_memoria
    PROVE  mutex_memoria'
<1>1. ~LeeMemoria
  BY DEF LeeMemoria, CrearPcb, CreateSegment, DeleteSegment, RespuestaIlegible
<1> QED
  BY <1>1, SoloLeeMemoria DEF memoria

\* The thread that finds EXECUTING empty brings the kernel down, so the signal
\* of the PCB that was lost is never taken by a kernel that stays alive.
LEMMA AlarmaPaso ==
    ASSUME SinPostDeMas, InvInductivo, InvCpu, AlarmaDePerdido, Next,
           kernel = "vivo", kernel' = "vivo"
    PROVE  AlarmaDePerdido'
<1> SUFFICES ASSUME TokensCpu' = 0, desalojo'.pc # "unlock", ~mutex_memoria'
             PROVE  executing' \/ desalojo'.pc \in {"pop", "unlock"}
  BY DEF AlarmaDePerdido
<1>0. /\ TypeOK /\ HilosConPcb /\ NadieDespiertaPorArchivo
      /\ desalojo.pc \notin {"unlock_cpu", "espera_archivo"}
      /\ sem["cpu"] \in Nat /\ lista_estados["EXECUTING"] \in Seq(Procesos)
  BY DEF InvInductivo, TypeOK, InvCpu, Semaforos, Estados
<1>1. TokensCpu = 0
  BY <1>0, TokensCpuPaso DEF ConservaCpu
<1>2. executing \/ desalojo.pc \in {"pop", "unlock"}
  BY <1>0, <1>1, MutexQueda DEF AlarmaDePerdido
<1>3. CASE OtrosHilos
  <2>1. desalojo' = desalojo
    BY <1>0, <1>3, OtrosHilosRespetan
  <2>2. executing => executing'
    BY <1>3 DEF OtrosHilos, RecibirDeConsola, Consola, AgregarNew,
       PostInicializar, Largo, EsperarInicializar, TomarNew, CrearPcb,
       EsperarGrado, MoverAReady, SoltarNew, PostTerminado, Corto, EsperarCpu,
       EsperarTerminado, Elegir, AgregarExecuting, UnlockExecuting, semaforos
  <2> QED
    BY <1>2, <2>1, <2>2
<1>4. CASE LockExecuting
  BY <1>4 DEF LockExecuting, Hilo
<1>5. CASE EnviarACpu
  <2>1. Len(lista_estados["EXECUTING"]) = 0
    <3>1. Len(lista_estados["EXECUTING"]) \in Nat
      BY <1>0
    <3> QED
      BY <1>0, <1>1, <3>1 DEF TokensCpu, Uno
  <2>2. lista_estados["EXECUTING"] = <<>>
    BY <1>0, <2>1, EmptySeq
  <2> QED
    BY <1>5, <2>2 DEF EnviarACpu, Caer
<1>6. CASE Unlock
  BY <1>6 DEF Unlock
<1>7. CASE Desalojo /\ ~(LockExecuting \/ EnviarACpu \/ Unlock)
  <2>1. /\ desalojo.pc \notin {"pop", "unlock"} \/ desalojo' = desalojo
        /\ executing' = executing
    BY <1>7, TrasValores DEF Desalojo, RecibirDeCpu, Yield, Exit, Io, FinIo, Wait,
       WaitBloquea, Signal, Despertar, RecursoInexistente, FOpenBloquea, FOpen,
       FClose, FSeek, FReadWrite, ArchivoNoAbierto, Truncate, FinFs,
       CreateSegment, DeleteSegment, PostCpu, PostReady, PostGrado, Maneja,
       semaforos, hilos
  <2> QED
    BY <1>2, <2>1
<1>8. CASE RespuestaIlegible
  BY <1>2, <1>8 DEF RespuestaIlegible, hilos, semaforos
<1> QED
  BY <1>3, <1>4, <1>5, <1>6, <1>7, <1>8 DEF Next, OtrosHilos

\* The initial state.
LEMMA EsperaInicial == Init => TokensDeNew /\ InvEspera
<1> SUFFICES ASSUME Init PROVE TokensDeNew /\ InvEspera
  OBVIOUS
<1>1. /\ lista_estados["NEW"] = <<>> /\ Avisan = {}
      /\ sem["inicializar"] = 0 /\ sem["new"] = 1 /\ sem["cpu"] = 1
      /\ corto.pc = "cpu" /\ largo.pc = "inicializar" /\ desalojo.pc = "lock"
      /\ lista_estados["EXECUTING"] = <<>>
  BY DEF Init, Estados, Hilo, Avisan
<1>2. IsFiniteSet(Avisan) /\ Cardinality(Avisan) = 0
  BY <1>1, FS_EmptySet
<1>3. Len(lista_estados["NEW"]) = 0 /\ Len(lista_estados["EXECUTING"]) = 0
  BY <1>1
<1>4. TokensCpu = 1
  BY <1>1, <1>3 DEF TokensCpu, Uno, EnMano
<1> QED
  BY <1>1, <1>2, <1>3, <1>4 DEF TokensDeNew, InvEspera, NewExclusivo,
     AlarmaDePerdido, Uno

\* Whatever the programs, sem_proceso_a_ready_inicializar counts the PCBs of NEW.
THEOREM TokensDeNewTeorema == Spec => []TokensDeNew
<1>1. InvInductivo /\ TokensDeNew /\ [Next]_vars => TokensDeNew'
  BY TokensDeNewPaso
<1> QED
  BY <1>1, EsperaInicial, InvInductivoTeorema, PTL DEF Spec

\* NEW's semaphore is a mutex, and a lost PCB leaves a signal.
LEMMA InvEsperaTeorema ==
    ASSUME SinPostDeMas
    PROVE  Spec => []InvEspera
<1>1. InvInductivo /\ InvCpu /\ InvEspera /\ [Next]_vars => InvEspera'
  <2>1. CASE UNCHANGED vars
    BY <2>1 DEF vars, hilos, semaforos, InvEspera, NewExclusivo,
       AlarmaDePerdido, TokensCpu, memoria
  <2>2. ASSUME InvInductivo, InvCpu, InvEspera, Next, kernel' = "vivo"
        PROVE  NewExclusivo' /\ AlarmaDePerdido'
    BY <2>2, VivoAntes, NewExclusivoPaso, AlarmaPaso DEF InvEspera
  <2> QED
    BY <2>1, <2>2 DEF InvEspera
<1> QED
  BY <1>1, EsperaInicial, InvInductivoTeorema, InvCpuTeorema, PTL DEF Spec

\* The processes the resources block.
EnRecurso == {p \in Procesos : Esta(p, "RECURSO")}

\* When every thread waits, EXECUTING is empty and the token of the CPU is in its
\* semaphore, so the dispatcher waits for a PCB of READY, and there is none.
LEMMA EsperanSinCpu ==
    ASSUME InvInductivo, InvCpu, InvEspera, kernel = "vivo", Esperan, ~mutex_memoria
    PROVE  /\ desalojo.pc = "lock" /\ corto.pc \in {"cpu", "terminado"}
           /\ TokensCpu # 0
           /\ \A e \in Estados \ {"NEW"} : lista_estados[e] = <<>>
<1>1. /\ desalojo.pc = "lock" /\ ~executing
      /\ corto.pc \in {"cpu", "terminado"} /\ sem[corto.pc] = 0
      /\ largo.pc \in {"inicializar", "new", "grado"}
  BY DEF InvCpu, Esperan
<1>2. /\ lista_estados \in [Estados -> Seq(Procesos)]
      /\ sem["terminado"] \in Nat
  BY DEF InvInductivo, TypeOK, Semaforos
<1>3. TokensCpu # 0
  BY <1>1 DEF InvEspera, AlarmaDePerdido
<1>4. lista_estados["EXECUTING"] = <<>>
  BY <1>1, TrasValores DEF InvCpu, SenalDeExecuting
<1>5. lista_estados["BLOCKED"] = <<>>
  BY <1>1 DEF InvInductivo, UnicoBloqueado
<1>6. lista_estados["READY"] = <<>>
  <2>1. corto.pc = "terminado"
    <3>1. Len(lista_estados["EXECUTING"]) = 0
      BY <1>4
    <3> QED
      BY <1>1, <1>3, <3>1 DEF TokensCpu, Uno, EnMano
  <2>2. Len(lista_estados["READY"]) = 0
    BY <1>1, <2>1 DEF InvInductivo, TokensDeReady, Uno
  <2> QED
    BY <1>2, <2>2, EmptySeq DEF Estados
<1> QED
  BY <1>1, <1>3, <1>4, <1>5, <1>6 DEF Estados

\* Then a process is outside, in NEW, in the queue of a resource, or it has ended.
LEMMA EsperanSitio ==
    ASSUME InvInductivo, InvCpu, InvEspera, PerdidoSinCpu, kernel = "vivo",
           Esperan, ~mutex_memoria, NEW p \in Procesos
    PROVE  \E s \in {"FUERA", "NEW", "RECURSO", "EXIT"} : Esta(p, s)
<1>1. ~Perdido(p)
  BY EsperanSinCpu DEF PerdidoSinCpu
<1>2. PICK s \in Sitios : Esta(p, s)
  BY <1>1 DEF Perdido
<1>3. s \notin {"READY", "EXECUTING", "BLOCKED"}
  BY <1>2, EsperanSinCpu DEF Esta, Elementos, Estados
<1>4. s \notin {"CORTO", "DESALOJO"}
  BY <1>2, EsperanSinCpu DEF Esta, EnMano, Estados
<1> QED
  BY <1>2, <1>3, <1>4 DEF Sitios, Estados

\* While a PCB is in NEW, or a console waits to add one, enviar_proceso_a_ready
\* waits for the degree, which the processes blocked by resources fill.
LEMMA EsperanGrado ==
    ASSUME InvInductivo, InvSitios, InvGrado, InvCpu, InvEspera, PerdidoSinCpu,
           TokensDeNew, kernel = "vivo", Esperan, ~mutex_memoria,
           lista_estados["NEW"] # <<>> \/ sem["new"] = 0
    PROVE  Cardinality(EnRecurso) = Grado
<1>1. /\ largo.pc \in {"inicializar", "new", "grado"} /\ sem[largo.pc] = 0
      /\ sem \in [Semaforos -> Nat]
      /\ lista_estados["NEW"] \in Seq(Procesos)
      /\ desalojo.pc = "lock"
  BY EsperanSinCpu DEF Esperan, InvInductivo, TypeOK, Estados
<1>2. Avisan = {}
  BY DEF Esperan, Avisan
<1>3. Cardinality(Avisan) = 0
  BY <1>2, FS_EmptySet
<1>4. largo.pc = "grado"
  <2>1. largo.pc # "new"
    BY <1>1 DEF InvEspera, NewExclusivo, Uno
  <2>2. largo.pc # "inicializar"
    <3>1. ASSUME largo.pc = "inicializar" PROVE FALSE
      <4>1. sem["new"] = 1 /\ sem["inicializar"] = 0
        BY <1>1, <3>1 DEF InvEspera, NewExclusivo, Uno, Semaforos
      <4>2. Len(lista_estados["NEW"]) = 0
        BY <1>3, <3>1, <4>1 DEF TokensDeNew, Uno
      <4>3. lista_estados["NEW"] = <<>>
        BY <1>1, <4>2, EmptySeq
      <4> QED
        BY <4>1, <4>3
    <3> QED
      BY <3>1
  <2> QED
    BY <1>1, <2>1, <2>2
<1>5. Cardinality(Activos) = Grado
  <2>1. Cardinality(Activos) \in Nat
    BY FS_CardinalityType DEF InvGrado
  <2> QED
    BY <1>1, <1>4, <2>1 DEF InvGrado, GradoExacto, Uno
<1>6. EnRecurso = Activos
  <2>1. EstadoFiel
    BY EstadoSitio DEF InvSitios
  <2>2. ASSUME NEW p \in Procesos
        PROVE  estado[p] \in DeActivos <=> Esta(p, "RECURSO")
    <3>1. PICK s \in {"FUERA", "NEW", "RECURSO", "EXIT"} : Esta(p, s)
      BY EsperanSitio
    <3>2. estado[p] = EstadoDe[s] /\ (Esta(p, "RECURSO") <=> s = "RECURSO")
      BY <2>1, <3>1 DEF EstadoFiel, InvSitios, UnSitio, Sitios, Estados
    <3> QED
      BY <3>1, <3>2, EstadoDeValores DEF DeActivos
  <2> QED
    BY <2>2 DEF EnRecurso, Activos, CicloDeVida!Activos, DeActivos
<1> QED
  BY <1>5, <1>6

\* While no exchange with Memoria has left mutex_memoria locked, the planner
\* stops for the resources, and for nothing else: when every thread waits,
\* whatever the interleaving before, each process that a console sent and that
\* has not finished waits for a resource, or the processes that do fill
\* GRADO_MAX_MULTIPROGRAMACION.
THEOREM SoloRecursosDetienenTeorema ==
    ASSUME SinPostDeMas
    PROVE  Spec => []SoloRecursosDetienen
<1>1. ASSUME InvInductivo, InvSitios, InvGrado, InvCpu, InvEspera, PerdidoSinCpu,
             TokensDeNew, kernel = "vivo", Esperan, ~mutex_memoria,
             NEW p \in Procesos
      PROVE  \/ consola[p] = "fuera" \/ estado[p] = "EXIT"
             \/ Esta(p, "RECURSO") \/ Cardinality(EnRecurso) = Grado
  <2>1. PICK s \in {"FUERA", "NEW", "RECURSO", "EXIT"} : Esta(p, s)
    BY <1>1, EsperanSitio
  <2>2. CASE s = "FUERA"
    <3>1. consola[p] = "fuera" \/ sem["new"] = 0
      BY <1>1, <2>1, <2>2 DEF Esta, Esperan, Estados
    <3> QED
      BY <1>1, <3>1, EsperanGrado
  <2>3. CASE s = "NEW"
    <3>1. lista_estados["NEW"] # <<>>
      BY <2>1, <2>3 DEF Esta, Elementos, Estados
    <3> QED
      BY <1>1, <3>1, EsperanGrado
  <2>4. CASE s = "EXIT"
    BY <1>1, <2>1, <2>4, EstadoSitio, EstadoDeValores
       DEF EstadoFiel, InvSitios, Sitios
  <2> QED
    BY <2>1, <2>2, <2>3, <2>4
<1>2. InvInductivo /\ InvSitios /\ InvGrado /\ InvCpu /\ InvEspera
         /\ PerdidoSinCpu /\ TokensDeNew => SoloRecursosDetienen
  <2>1. \A p : Esta(p, "RECURSO")
                  <=> \E r \in Recursos : p \in Elementos(procesos_bloqueados[r])
    BY DEF Esta, Estados
  <2>2. EnRecurso = {q \in Procesos : \E r \in Recursos :
                        q \in Elementos(procesos_bloqueados[r])}
    BY <2>1 DEF EnRecurso
  <2> QED
    BY <1>1, <2>1, <2>2 DEF SoloRecursosDetienen
<1> QED
  BY <1>2, InvGradoTeorema, InvInductivoTeorema, InvSitiosTeorema,
     InvCpuTeorema, InvEsperaTeorema, PerdidoSinCpuTeorema, TokensDeNewTeorema, PTL

\* The condition on mutex_memoria holds by itself when Memoria answers no
\* OUT_OF_MEMORY: the locks of kernel.c:95, 525 and 591 are then always released.
THEOREM MutexLibreTeorema ==
    ASSUME "OUT_OF_MEMORY" \notin RespuestasMemoria
    PROVE  Spec => [](~mutex_memoria)
<1>1. InvInductivo => ~mutex_memoria
  BY DEF InvInductivo, RespuestasAlDia
<1> QED
  BY <1>1, InvInductivoTeorema, PTL

-----------------------------------------------------------------------------
(* The end of a program *)

\* The last instruction of a program is handled by Exit.
LEMMA AlFinTerminaPaso ==
    ASSUME Sanos, InvInductivo, AlFinTermina, SinReintento, [Next]_vars
    PROVE  AlFinTermina'
<1>0. /\ TypeOK /\ HilosConPcb /\ NadieDespiertaPorArchivo
      /\ contador \in [Procesos -> Nat]
      /\ desalojo.pc # "reintentar"
  BY DEF InvInductivo, TypeOK, SinReintento
<1>1. CASE RecibirDeCpu
  <2>1. CASE contador[desalojo.pcb] = Len(programa[desalojo.pcb])
    BY <1>1, <2>1 DEF RecibirDeCpu, AlFinTermina
  <2>2. CASE contador[desalojo.pcb] # Len(programa[desalojo.pcb])
    <3>1. /\ contador' = [contador EXCEPT ![desalojo.pcb] = @ + 1]
          /\ desalojo.pc = "cpu" /\ desalojo' = Hilo("manejo", desalojo.pcb)
          /\ UNCHANGED <<programa, finalizados>>
      BY <1>1, <2>2 DEF RecibirDeCpu
    <3>2. \A p \in Procesos : p # desalojo.pcb => contador'[p] = contador[p]
      BY <1>0, <3>1
    <3>3. \A p \in Procesos : p = desalojo.pcb
                                 => desalojo'.pc = "manejo" /\ desalojo'.pcb = p
      BY <3>1 DEF Hilo
    <3> QED
      BY <3>1, <3>2, <3>3 DEF AlFinTermina
  <2> QED
    BY <2>1, <2>2
<1>2. CASE OtrosHilos \/ UNCHANGED vars
  <2>1. UNCHANGED <<pcbs, desalojo>>
    BY <1>0, <1>2, OtrosHilosRespetan DEF vars, hilos
  <2>2. UNCHANGED finalizados
    BY <1>2 DEF OtrosHilos, vars, RecibirDeConsola, Consola, AgregarNew,
       PostInicializar, Largo, EsperarInicializar, TomarNew, CrearPcb,
       EsperarGrado, MoverAReady, SoltarNew, PostTerminado, Corto, EsperarCpu,
       EsperarTerminado, Elegir, AgregarExecuting, UnlockExecuting
  <2> QED
    BY <2>1, <2>2 DEF AlFinTermina, pcbs
<1>3. CASE Exit
  <2>1. /\ finalizados' = finalizados \cup {desalojo.pcb}
        /\ UNCHANGED <<programa, contador>>
    BY <1>3 DEF Exit, TerminarProceso, pcbs
  <2> QED
    BY <2>1 DEF AlFinTermina
<1>4. ASSUME NEW ops, Maneja(ops), "EXIT" \notin ops,
             finalizados \subseteq finalizados', UNCHANGED pcbs
      PROVE  AlFinTermina'
  <2>1. contador[desalojo.pcb] # Len(programa[desalojo.pcb])
    BY <1>0, <1>4, SanosManejo DEF Maneja
  <2> QED
    BY <1>4, <2>1 DEF AlFinTermina, pcbs
<1>5. CASE Yield \/ Io \/ Truncate \/ Wait \/ WaitBloquea \/ Signal
  BY <1>4, <1>5 DEF Yield, Io, Truncate, Wait, WaitBloquea, Signal
<1>6. CASE DeleteSegment \/ RecursoInexistente \/ CreateSegment
  BY <1>0, <1>4, <1>6 DEF DeleteSegment, RecursoInexistente, CreateSegment,
     TerminarProceso
<1>8. CASE RespuestaIlegible
  BY <1>8 DEF RespuestaIlegible, hilos, pcbs, AlFinTermina
<1>7. CASE \/ LockExecuting \/ EnviarACpu \/ FinIo \/ FinFs \/ Despertar
           \/ PostCpu \/ PostReady \/ PostGrado \/ Unlock
  <2>1. desalojo.pc # "manejo"
    BY <1>7, TrasValores DEF LockExecuting, EnviarACpu, FinIo, FinFs,
       Despertar, PostCpu, PostReady, PostGrado, Unlock
  <2>2. UNCHANGED <<programa, contador, finalizados>>
    BY <1>7 DEF LockExecuting, EnviarACpu, FinIo, FinFs, Despertar, PostCpu,
       PostReady, PostGrado, Unlock, pcbs
  <2> QED
    BY <2>1, <2>2 DEF AlFinTermina
<1> QED
  BY <1>0, <1>1, <1>2, <1>3, <1>5, <1>6, <1>7, <1>8, SinArchivos
     DEF Next, OtrosHilos, Desalojo

-----------------------------------------------------------------------------
(* The kernel stays alive *)

\* When Memoria has room the case of I_CREATE_SEGMENT never runs once more.
LEMMA SinReintentoPaso ==
    ASSUME Sanos, InvInductivo, SinReintento, [Next]_vars
    PROVE  SinReintento'
<1>0. /\ TypeOK /\ HilosConPcb
      /\ desalojo.pc \notin {"unlock_reintentar", "reintentar"}
  BY DEF InvInductivo, Sanos, SinReintento
<1>1. CASE OtrosHilos \/ UNCHANGED vars
  BY <1>0, <1>1, OtrosHilosRespetan DEF vars, hilos, SinReintento
<1>2. CASE Desalojo
  <2>1. CASE PostCpu \/ PostReady \/ PostGrado \/ Unlock
    BY <1>0, <2>1, TrasValores DEF PostCpu, PostReady, PostGrado, Unlock, Deja,
       Sigue, Hilo, SinReintento
  <2>2. CASE CreateSegment
    BY <1>0, <2>2, SanosContesta DEF CreateSegment, Deja, Hilo, SinReintento
  <2>3. CASE \/ LockExecuting \/ EnviarACpu \/ RecibirDeCpu \/ FinIo \/ FinFs
             \/ Despertar
    BY <1>0, <2>3 DEF LockExecuting, EnviarACpu, RecibirDeCpu, FinIo, FinFs,
       Despertar, Deja, Hilo, SinReintento
  <2>4. CASE \/ Yield \/ Exit \/ Io \/ Wait \/ WaitBloquea \/ Signal
             \/ RecursoInexistente \/ Truncate \/ DeleteSegment
    BY <1>0, <2>4 DEF Yield, Exit, Io, Wait, WaitBloquea, Signal,
       RecursoInexistente, Truncate, DeleteSegment, TerminarProceso, Deja,
       Sigue, Hilo, SinReintento
  <2>5. CASE FOpenBloquea \/ FOpen \/ FClose \/ FSeek \/ FReadWrite
                \/ ArchivoNoAbierto
    BY <1>0, <2>5 DEF FOpenBloquea, FOpen, FClose, FSeek, FReadWrite,
       ArchivoNoAbierto, Deja, Sigue, Hilo, hilos, SinReintento
  <2> QED
    BY <1>2, <2>1, <2>2, <2>3, <2>4, <2>5 DEF Desalojo
<1>3. CASE RespuestaIlegible
  BY <1>0, <1>3 DEF RespuestaIlegible, hilos, SinReintento
<1> QED
  BY <1>1, <1>2, <1>3 DEF Next, OtrosHilos

\* The four steps that may dereference NULL find what they look for.
LEMMA SinCaidaPaso ==
    ASSUME Sanos, InvInductivo, InvSitios, InvViva, [Next]_vars
    PROVE  SinCaida'
<1>0. /\ TypeOK /\ HilosConPcb /\ kernel = "vivo"
      /\ Cardinality(Avisan) \in Nat
  BY FS_CardinalityType DEF InvInductivo, InvViva, TokensDeNew, SinCaida
<1>6. /\ Len(lista_estados["READY"]) \in Nat
      /\ sem["inicializar"] \in Nat /\ sem["terminado"] \in Nat
  BY <1>0 DEF TypeOK, Estados, Semaforos
<1>1. CASE TomarNew
  <2>1. lista_estados["NEW"] # <<>>
    BY <1>0, <1>6, <1>1 DEF TomarNew, InvViva, TokensDeNew, Uno
  <2> QED
    BY <1>0, <1>1, <2>1 DEF TomarNew, SinCaida
<1>2. CASE Elegir
  <2>1. lista_estados["READY"] # <<>>
    BY <1>6, <1>2 DEF Elegir, InvInductivo, TokensDeReady, Uno
  <2> QED
    BY <1>0, <1>2, <2>1 DEF Elegir, SinCaida
<1>3. CASE EnviarACpu
  <2>1. lista_estados["EXECUTING"] # <<>>
    BY <1>0, <1>3 DEF EnviarACpu, InvViva, TokensDeExecuting, Uno
  <2> QED
    BY <1>0, <1>3, <2>1 DEF EnviarACpu, SinCaida
<1>4. CASE RecibirDeCpu
  <2>1. /\ desalojo.pc = "cpu" /\ desalojo.pcb \in Procesos
        /\ Esta(desalojo.pcb, "DESALOJO")
    BY <1>0, <1>4 DEF RecibirDeCpu, HilosConPcb, ConPcb, Esta, EnMano
  <2>2. desalojo.pcb \notin finalizados
    BY <2>1 DEF InvSitios, UnSitio, Esta, Sitios, Estados
  <2>3. contador[desalojo.pcb] # Len(programa[desalojo.pcb])
    BY <2>1, <2>2 DEF InvViva, AlFinTermina
  <2> QED
    BY <1>0, <1>4, <2>3 DEF RecibirDeCpu, SinCaida
<1>5. CASE ~(TomarNew \/ Elegir \/ EnviarACpu \/ RecibirDeCpu)
  <2>1. ~ArchivoNoAbierto
    BY <1>0, SinArchivos
  <2>2. CASE OtrosHilos
    BY <1>5, <2>2 DEF OtrosHilos, RecibirDeConsola, Consola, AgregarNew,
       PostInicializar, Largo, EsperarInicializar, CrearPcb, EsperarGrado,
       MoverAReady, SoltarNew, PostTerminado, Corto, EsperarCpu, EsperarTerminado,
       AgregarExecuting, UnlockExecuting, Vive, SinCaida
  <2>3. CASE Desalojo
    BY <1>5, <2>1, <2>3 DEF Desalojo, LockExecuting, Yield, Exit, Io, FinIo,
       Wait, WaitBloquea, Signal, Despertar, RecursoInexistente, FOpenBloquea,
       FOpen, FClose, FSeek, FReadWrite, Truncate, FinFs, CreateSegment,
       DeleteSegment, PostCpu, PostReady, PostGrado, Unlock, Vive, SinCaida
  <2>4. CASE UNCHANGED vars
    BY <1>0, <2>4 DEF vars, SinCaida
  <2>5. ~RespuestaIlegible
    BY <1>0, SanosContesta DEF RespuestaIlegible
  <2> QED
    BY <2>2, <2>3, <2>4, <2>5 DEF Next, OtrosHilos
<1> QED
  BY <1>1, <1>2, <1>3, <1>4, <1>5

\* At the start nothing is in any list, and no program is at its end.
LEMMA InvVivaInicial == Sanos /\ Init => InvViva
<1> SUFFICES ASSUME Sanos, Init PROVE InvViva
  OBVIOUS
<1>1. /\ lista_estados["NEW"] = <<>> /\ lista_estados["EXECUTING"] = <<>>
      /\ sem["inicializar"] = 0 /\ executing = FALSE /\ kernel = "vivo"
      /\ corto.pc = "cpu" /\ largo.pc = "inicializar" /\ desalojo.pc = "lock"
  BY DEF Init, Estados, Hilo
<1>2. Len(lista_estados["NEW"]) = 0 /\ Len(lista_estados["EXECUTING"]) = 0
  BY <1>1
<1>3. Avisan = {}
  BY DEF Init, Avisan
<1>4. IsFiniteSet(Avisan) /\ Cardinality(Avisan) = 0
  BY <1>3, FS_EmptySet
<1>5. SinCaida /\ SinReintento /\ TokensDeExecuting /\ TokensDeNew
  BY <1>1, <1>2, <1>4 DEF SinCaida, SinReintento, TokensDeExecuting,
     TokensDeNew, Uno
<1>6. ASSUME NEW p \in Procesos
      PROVE  contador[p] # Len(programa[p])
  <2>1. programa[p] \in Programas /\ contador[p] = 0
    BY DEF Init
  <2>2. programa[p] \in Seq(Instrucciones) /\ programa[p] # <<>>
    BY <2>1, ProgramasAssumption DEF Sanos
  <2> QED
    BY <2>1, <2>2, EmptySeq
<1> QED
  BY <1>5, <1>6 DEF InvViva, AlFinTermina

\* The invariant the kernel's life rests on: the tokens of NEW and of EXECUTING
\* count their PCBs, and a process at the end of its program has ended.
THEOREM InvVivaTeorema ==
    ASSUME Sanos
    PROVE  Spec => []InvViva
<1>1. Init => InvViva
  BY InvVivaInicial
<1>2. InvInductivo /\ InvSitios /\ InvCpu /\ InvViva /\ [Next]_vars => InvViva'
  BY SinCaidaPaso, SinReintentoPaso, TokensDeExecutingPaso, TokensDeNewPaso,
     AlFinTerminaPaso DEF InvViva
<1>3. SinPostDeMas
  BY SanosSinPost
<1>4. Spec => []InvCpu
  BY <1>3, InvCpuTeorema
<1> QED
  BY <1>1, <1>2, <1>4, InvInductivoTeorema, InvSitiosTeorema, PTL DEF Spec

\* Whatever the interleaving of the threads, no thread of the kernel takes a PCB
\* from an empty list, and none decodes an instruction that does not exist.
THEOREM SinCaidaTeorema ==
    ASSUME Sanos
    PROVE  Spec => []SinCaida
<1>1. InvViva => SinCaida
  BY DEF InvViva
<1> QED
  BY <1>1, InvVivaTeorema, PTL

=============================================================================

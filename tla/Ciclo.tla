------------------------------- MODULE Ciclo -------------------------------
(***************************************************************************)
(* What the kernel promises about the life of a process, with no threads,  *)
(* no semaphores and no lists: the five states of pcb_estado (shared.h),   *)
(* the transitions between them, the degree of multiprogramming and the    *)
(* single CPU.  Planificador implements it.                                *)
(***************************************************************************)
EXTENDS Naturals, FiniteSets

CONSTANTS Procesos,   \* the processes that consoles may submit
          Grado       \* GRADO_MAX_MULTIPROGRAMACION

VARIABLE estado       \* the state of every process

Estados == {"FUERA", "NEW", "READY", "EXECUTING", "BLOCKED", "EXIT"}

\* The processes the kernel has admitted to memory and not yet finished.
Activos == {p \in Procesos : estado[p] \in {"READY", "EXECUTING", "BLOCKED"}}

CicloTypeOK == estado \in [Procesos -> Estados]

Init == estado = [p \in Procesos |-> "FUERA"]

Pasa(p, de, a) == estado[p] = de /\ estado' = [estado EXCEPT ![p] = a]

Crear(p) == Pasa(p, "FUERA", "NEW")

\* The long-term scheduler lets p in while there is room for it.
Admitir(p) == Pasa(p, "NEW", "READY") /\ Cardinality(Activos) < Grado

\* The short-term scheduler gives p the CPU, which nobody has.
Despachar(p) ==
    /\ Pasa(p, "READY", "EXECUTING")
    /\ \A q \in Procesos : estado[q] # "EXECUTING"

Desalojar(p) == Pasa(p, "EXECUTING", "READY")

Bloquear(p) == Pasa(p, "EXECUTING", "BLOCKED")

Desbloquear(p) == Pasa(p, "BLOCKED", "READY")

Terminar(p) == Pasa(p, "EXECUTING", "EXIT")

Next == \E p \in Procesos :
            \/ Crear(p)
            \/ Admitir(p)
            \/ Despachar(p)
            \/ Desalojar(p)
            \/ Bloquear(p)
            \/ Desbloquear(p)
            \/ Terminar(p)

Spec == Init /\ [][Next]_estado
=============================================================================

--------------------------- MODULE MCPlanificador ---------------------------
(***************************************************************************)
(* Small instances of Planificador: the programs consoles send, taken from *)
(* the scripts of modules/consola/pruebas without the instructions that    *)
(* the kernel does not see, and variations of them.                        *)
(***************************************************************************)
EXTENDS Planificador, TLC

Simetria == Permutations(Procesos)

SinInstancias == [r \in {} |-> 0]
UnaInstancia == [r \in Recursos |-> 1]

I(op) == [op |-> op, arg |-> ""]
IA(op, arg) == [op |-> op, arg |-> arg]

\* pruebas/deadlock: each takes a resource, sleeps and wants the next one
Interbloqueo(a, b) ==
    <<IA("WAIT", a), I("IO"), IA("WAIT", b), I("YIELD"),
      IA("SIGNAL", b), IA("SIGNAL", a), I("EXIT")>>

\* The circle of deadlock_1 and deadlock_2 closed by two processes, and a third
\* that truncates a file, creates a segment and, as in error_1, waits for a
\* resource that does not exist
ProgramasRecursos ==
    {Interbloqueo("DISCO", "IMPRESORA"), Interbloqueo("IMPRESORA", "DISCO"),
     <<IA("TRUNCATE", "Consoles"), IA("CREATE_SEGMENT", "1"), IA("WAIT", "DISCO"),
       IA("WAIT", "LA_TERCERA_DE_FRANCIA"), I("EXIT")>>}

\* Processes that share one resource and never hold it while they want it
ProgramasExclusion ==
    {<<IA("WAIT", "DISCO"), I("YIELD"), IA("SIGNAL", "DISCO"), I("EXIT")>>,
     <<IA("WAIT", "DISCO"), I("IO"), IA("SIGNAL", "DISCO"), I("EXIT")>>}

\* Every case of manejo_instrucciones, with the errors: a file read without
\* being opened, a file opened twice, a program without EXIT
ProgramasArchivos ==
    {<<IA("F_OPEN", "Consoles"), IA("TRUNCATE", "Consoles"),
       IA("F_SEEK", "Consoles"), IA("F_WRITE", "Consoles"),
       IA("F_CLOSE", "Consoles"), I("EXIT")>>,
     <<IA("CREATE_SEGMENT", "1"), IA("F_READ", "Consoles"), I("EXIT")>>,
     <<IA("DELETE_SEGMENT", "1"), IA("WAIT", "DISCO"), I("IO")>>,
     <<IA("F_CLOSE", "Consoles"), I("EXIT")>>}

\* Two processes of fs_3 with a file each
ProgramasDosArchivos ==
    {<<IA("F_OPEN", f), IA("F_CLOSE", f), I("EXIT")>> : f \in Archivos}
=============================================================================

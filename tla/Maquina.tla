------------------------------ MODULE Maquina ------------------------------
(***************************************************************************)
(* What the CPU and the memory promise to a program: registers of its own, *)
(* that keep their strings while other processes have the CPU, a memory    *)
(* that only changes where an instruction says, and instructions that are  *)
(* executed once each.                                                     *)
(***************************************************************************)
EXTENDS Integers, Sequences

CONSTANTS Pids,
          CANT_REGISTROS,   \* in the order of the struct
          ANCHO,            \* the characters of a register
          NUL,              \* the character that ends a string
          Nombre,           \* the string registers start with
          Valores,          \* the strings SET writes
          Direcciones,      \* the logical addresses programs use
          Largos,           \* how much F_READ reads
          Fisica(_, _, _),  \* the physical address, or -1
          TAM_MEMORIA

Registros == 1 .. CANT_REGISTROS
Celdas == 0 .. (TAM_MEMORIA - 1)

VARIABLES registros,  \* the string in each register of each process
          memoria,    \* the character in each cell
          hechas      \* the instructions each process has executed

vars == <<registros, memoria, hechas>>

\* The string that begins at a cell, no longer than a register.
TextoEn(m, d) ==
    LET nul == {i \in 0 .. (ANCHO - 1) : m[d + i] = NUL}
        largo == IF nul = {} THEN ANCHO
                 ELSE CHOOSE i \in nul : \A j \in nul : i <= j
    IN  [i \in 1 .. largo |-> m[d + i - 1]]

SoloCambian(p, rs) ==
    /\ DOMAIN registros' = Pids
    /\ \A q \in Pids : \A r \in Registros :
          q # p \/ r \notin rs => registros'[q][r] = registros[q][r]

Hecha(p) == hechas' = [hechas EXCEPT ![p] = @ + 1]

\* A string as long as the register leaves its NUL in the next one.
Set(p, r, v) ==
    /\ Hecha(p)
    /\ registros' = [registros EXCEPT ![p] = [s \in Registros |->
          CASE s = r -> v
            [] s = r + 1 /\ Len(v) = ANCHO -> <<>>
            [] OTHER -> registros[p][s]]]
    /\ UNCHANGED memoria

\* A string as long as the register promises nothing of those after it.
MovIn(p, r, d) ==
    /\ Fisica(p, d, ANCHO) # -1
    /\ Hecha(p)
    /\ registros'[p][r] = TextoEn(memoria, Fisica(p, d, ANCHO))
    /\ SoloCambian(p, IF Len(registros'[p][r]) < ANCHO THEN {r}
                      ELSE {s \in Registros : s >= r})
    /\ UNCHANGED memoria

MovOut(p, d, r) ==
    /\ Fisica(p, d, ANCHO) # -1
    /\ Hecha(p)
    /\ TextoEn(memoria', Fisica(p, d, ANCHO)) = registros[p][r]
    /\ \A c \in Celdas : c - Fisica(p, d, ANCHO) \notin 0 .. (ANCHO - 1) =>
          memoria'[c] = memoria[c]
    /\ UNCHANGED registros

\* F_READ: n characters of a file.  Nothing is promised of the memory when the
\* address is not of the process.
LeerDeArchivo(p, d, n) ==
    /\ Hecha(p)
    /\ Fisica(p, d, n) # -1 =>
          \A c \in Celdas : c - Fisica(p, d, n) \notin 0 .. (n - 1) =>
             memoria'[c] = memoria[c]
    /\ UNCHANGED registros

\* Every other one, and those that end in a segmentation fault.
DelKernel(p) == Hecha(p) /\ UNCHANGED <<registros, memoria>>

Next ==
    \E p \in Pids :
       \/ DelKernel(p)
       \/ \E r \in Registros :
             \/ \E v \in Valores : Set(p, r, v)
             \/ \E d \in Direcciones : MovIn(p, r, d) \/ MovOut(p, d, r)
       \/ \E d \in Direcciones, n \in Largos : LeerDeArchivo(p, d, n)

Init ==
    /\ \A p \in Pids, r \in Registros : registros[p][r] = Nombre
    /\ DOMAIN memoria = Celdas
    /\ hechas = [p \in Pids |-> 0]

Spec == Init /\ [][Next]_vars

=============================================================================

-------------------------- MODULE ArchivosDurables --------------------------
(***************************************************************************)
(* What a file system promises of its files, without blocks, pointers or   *)
(* crashes: a file is a sequence of words, a truncation leaves a prefix, a *)
(* write replaces consecutive words of it, and nothing else changes it.    *)
(* The promise ends, file by file, when the file is Roto.                  *)
(***************************************************************************)
EXTENDS Integers, Sequences

CONSTANTS Nombres, NoHay, Roto

VARIABLE archivo  \* of each name, its words, or NoHay, or Roto

Pasa(f, contenido) == archivo' = [archivo EXCEPT ![f] = contenido]

Init == \A f \in Nombres : archivo[f] # Roto

Crear(f) == archivo[f] = NoHay /\ Pasa(f, <<>>)

\* The new size is smaller, or larger with anything in the words that are new.
Truncar(f) ==
    /\ archivo'[f] \notin {NoHay, Roto}
    /\ \A i \in DOMAIN archivo[f] \cap DOMAIN archivo'[f] :
          archivo'[f][i] = archivo[f][i]
    /\ Pasa(f, archivo'[f])

\* Consecutive words of a request, that begins with the word v.
Escribir(f) ==
    \E i \in DOMAIN archivo[f] : \E j \in i .. Len(archivo[f]) :
        Pasa(f, [k \in DOMAIN archivo[f] |->
                    IF k \in i .. j THEN archivo'[f][i] + (k - i)
                                    ELSE archivo[f][k]])

Romper == archivo' = [f \in Nombres |-> IF archivo'[f] = Roto THEN Roto
                                                            ELSE archivo[f]]

Next ==
    \/ Romper
    \/ \E f \in Nombres :
          \/ Crear(f)
          \/ archivo[f] \notin {NoHay, Roto} /\ (Truncar(f) \/ Escribir(f))

Spec == Init /\ [][Next]_archivo

=============================================================================

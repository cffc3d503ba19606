----------------------------- MODULE MCSegmentos -----------------------------
(***************************************************************************)
(* Small instances of Segmentos.                                           *)
(***************************************************************************)
EXTENDS Segmentos

Simetria == Permutations(Pids)

\* Bounds on states that only a compaction that went wrong, or memory that was
\* never given back, lets grow.
MAX_HUECOS == TAM_MEMORIA + 1

Acotada ==
    /\ Len(lista_huecos) <= MAX_HUECOS
    /\ \A h \in Range(lista_huecos) : h.base + h.tamanio <= TAM_MEMORIA
=============================================================================

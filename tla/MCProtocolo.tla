---------------------------- MODULE MCProtocolo ----------------------------
(***************************************************************************)
(* Instances of Protocolo, in the names of codigo_operacion.               *)
(***************************************************************************)
EXTENDS Protocolo

\* "Sony", the first characters that fs_1 writes to a file.
MCTexto == 2037280595

SinMemoriaDelFs == {Op.I_F_OPEN, Op.I_TRUNCATE, Op.I_CREATE_SEGMENT,
                    Op.I_DELETE_SEGMENT, Op.I_YIELD}
SoloEscribir == {Op.I_F_WRITE}

HayLugar == {Op.AUX_OK, Op.COMPACTACION}
=============================================================================

---------------------------- MODULE MCFileSystem ----------------------------
(***************************************************************************)
(* Two files and eight blocks of two words: a file has three blocks at     *)
(* most, and its block of pointers.  The blocks of the two files are       *)
(* interleaved and out of order.                                           *)
(***************************************************************************)
EXTENDS Archivos, TLC

CONSTANTS A1, B1

MCRepartos == {A1 :> <<6, 3, 5, 0>> @@ B1 :> <<1, 4, 7, 2>>}

\* No property speaks of what follows once no file is whole.
AlgunoEntero == roto = Nombres => paso # Ocioso /\ estado = "viva"

=============================================================================

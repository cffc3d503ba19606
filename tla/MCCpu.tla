------------------------------- MODULE MCCpu -------------------------------
(***************************************************************************)
(* Instances of Cpu: registers of two characters and a memory of a segment *)
(* 0, that every process has at base 0, or of that and one more.           *)
(***************************************************************************)
EXTENDS Cpu, TLC

CONSTANTS p1, p2

MCValores == {<<1>>, <<2, 1>>}
MCNombre == <<2>>

Simetria == Permutations({p1, p2})

SegmentoCero == [id |-> 0, base |-> 0, size |-> 3]

MCSoloCero == [p \in Pids |-> {SegmentoCero}]
MCConUno == [p \in Pids |-> {SegmentoCero, [id |-> 1, base |-> 3, size |-> 3]}]
=============================================================================

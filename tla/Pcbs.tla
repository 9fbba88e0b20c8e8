-------------------------------- MODULE Pcbs --------------------------------
(***************************************************************************)
(* The pcbs that the structures of phase 1 link: the entries of            *)
(* pcbFreeTable (pcb.c), and the null pointer.                             *)
(***************************************************************************)
EXTENDS FiniteSets

CONSTANTS PCB, NULL

ASSUME PcbAssumption == IsFiniteSet(PCB) /\ PCB # {} /\ NULL \notin PCB
=============================================================================

------------------------------ MODULE MCShare ------------------------------
(***************************************************************************)
(* The instance of MCMolecule in which nothing fails: it is one of those   *)
(* that the theorems about clean machines speak of.                        *)
(***************************************************************************)
EXTENDS MCMolecule

ASSUME ShareAssumption == CommonLock /\ SerialMounts /\ Undisturbed
=============================================================================

------------------------- MODULE MoleculeRefinement -------------------------
(***************************************************************************)
(* Molecule implements AtomicMolecule, for callers that have one lock and  *)
(* run one Mount at a time for each metadata directory: Mount takes effect *)
(* when the overlay is mounted, Umount when it is unmounted.               *)
(***************************************************************************)
EXTENDS Molecule

CONSTANT Off

ASSUME OffAssumption == Off \notin Overlay /\ NoDevice \notin Hashes

Phase == [p \in Procs |-> IF pc[p] \in Final THEN pc[p]
                          ELSE IF pc[p] \in Releasing THEN "tookOff" ELSE "running"]

Live == [t \in Targets |-> IF ovl[t] = << >> THEN Off ELSE Last(ovl[t])]

Dev == [a \in Atoms |-> IF Present(a) THEN dm[a].hash ELSE NoDevice]

Release == [p \in Procs |-> IF pc[p] \in Releasing THEN lower[p] ELSE << >>]

Atomic == INSTANCE AtomicMolecule
            WITH command <- cmd, phase <- Phase, live <- Live, dev <- Dev,
                 release <- Release

(* Users see molecules appear and disappear in one step, and nothing of    *)
(* one changes in between: the purpose of the lock, the existence check    *)
(* and the order of the steps in molecule.go:203-310 and 323-441.          *)
ImplementsAtomic == Atomic!AtomicSpec
=============================================================================

--------------------------- MODULE MCSignalStore ---------------------------
(***************************************************************************)
(* Small instances of SignalStore.  Terminals and recipients are           *)
(* interchangeable: no action or property names one of them.               *)
(***************************************************************************)
EXTENDS SignalStore, TLC

CONSTANTS t1, t2, a, b

Symmetry == Permutations(Terminals) \cup Permutations(Members)
=============================================================================

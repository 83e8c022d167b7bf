--------------------------- MODULE MCConfigStore ---------------------------
(***************************************************************************)
(* Instances of ConfigStore for TLC: processes on one directory, and one   *)
(* more on a directory of its own that shares only the master key.         *)
(***************************************************************************)
EXTENDS ConfigStore

CONSTANTS p1, p2, d1, d2

OneDir  == [p \in Procs |-> d1]
TwoDirs == [p \in Procs |-> IF p = p1 THEN d1 ELSE d2]
=============================================================================

-------------------------- MODULE MCFileOperations --------------------------
(***************************************************************************)
(* A file, a directory, one free name and one object another process may   *)
(* bring in.                                                               *)
(***************************************************************************)
EXTENDS FileOperations

CONSTANTS a, b, c, f, d, x

MCHome == [n \in {a, b, c} |-> IF n = a THEN f ELSE IF n = b THEN d ELSE NoEntry]

=============================================================================

-------------------------- MODULE MCUploadOperations --------------------------
(* Small instances of UploadOperations. *)
EXTENDS UploadOperations

CONSTANTS i1, i2, r1, r2, r3, a, b

MCOpOf == [r \in Requests |-> i1]
MCContentOf == [r \in Requests |-> IF r = r2 THEN b ELSE a]
==============================================================================

------------------------------ MODULE MCDataLake ------------------------------
(* Small instances of DataLake.                                            *)
EXTENDS DataLake

(* The vendors take turns.                                                 *)
MCVendorOf == [o \in Offsets |-> IF o % 2 = 1 THEN "edr" ELSE "aws"]
=============================================================================

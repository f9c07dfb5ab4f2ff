------------------------------ MODULE MCMemory ------------------------------
(* A heap that holds the table and one row, or a row and what a worker has;  *)
(* a request for one unit takes two, one for three takes four and sometimes  *)
(* two more than it needs.                                                   *)
EXTENDS AdpMemory

MCSizeOf == [k \in Kind |-> IF k = "table" THEN 2 ELSE 1]

=============================================================================

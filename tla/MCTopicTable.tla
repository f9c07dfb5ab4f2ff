---------------------------- MODULE MCTopicTable ----------------------------
(* One task sets the tables up, as in the applications, while two others     *)
(* publish and route.                                                        *)
EXTENDS AdpTopicTable, TLC

CONSTANTS main, r1, r2, q1, q2, t1, t2, t3, cb

Symmetry == Permutations(Reader) \cup Permutations(Queue) \cup Permutations(Topic)

=============================================================================

------------------------------ MODULE MCKernel ------------------------------
(* A task h of the highest priority that sends to a queue of one message and *)
(* receives from it, m below it, and l and r at the bottom.  All but r log,  *)
(* and h and l share a list that a mutex protects.                           *)
EXTENDS RtosKernel

CONSTANTS h, m, l, r, LIST

MCPriority == [t \in Task |-> CASE t = h -> 2 [] t = m -> 1 [] OTHER -> 0]
MCUses == [t \in Task |-> CASE t = h -> {"receive", "send", LIST, LOG}
                            [] t = m -> {"send", "delay", LOG}
                            [] t = l -> {"send", LIST, LOG}
                            [] t = r -> {"receive"}]

\* h and l share LIST: l with a task above it, and h is above all.
ASSUME InstanceYields == YieldsSuffice

=============================================================================

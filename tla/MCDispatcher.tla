---------------------------- MODULE MCDispatcher ----------------------------
(***************************************************************************)
(* Two dispatchers, as in the MQTT application (MQTT and IPNET): d1 owns   *)
(* t1, which has two subscribers (rows 1 and 3), d2 owns t2 (row 2); t3 is *)
(* registered nowhere.  The callback of row 1 publishes to its own         *)
(* dispatcher, those of rows 2 and 3 to the other one, so full queues can  *)
(* stall a dispatcher on itself and two on each other.                     *)
(***************************************************************************)
EXTENDS AdpDispatcher, TLC

CONSTANTS d1, d2, t1, t2, t3, p1, b1

MCOwner     == (t1 :> d1) @@ (t2 :> d2) @@ (t3 :> NULL)
MCSlotTopic == <<t1, t2, t1>>
MCEmits     == <<{t1, t3}, {t1}, {t2}>>

=============================================================================

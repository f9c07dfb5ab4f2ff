----------------------------- MODULE MCConsole -----------------------------
(* Two letters, a buffer of four bytes (argc, three of the line), and the   *)
(* command that print_info publishes every minute.                          *)
EXTENDS AdpConsole

CONSTANTS d, b

MCInjected == {<<d, b, ENTER, UNPRINTABLE>>}

=============================================================================

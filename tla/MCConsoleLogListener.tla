------------------------- MODULE MCConsoleLogListener -------------------------
(* Values for the constants of ConsoleLogListener. *)
EXTENDS ConsoleLogListener

CONSTANTS f1, f2
================================================================================

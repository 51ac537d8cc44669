--------------------------- MODULE MCLogStore ---------------------------
(* Values for the constants of LogStore. *)
EXTENDS LogStore

TruncationMarker == <<"marker">>
================================================================================

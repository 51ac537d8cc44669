-------------------------- MODULE MCOpenShockClient ---------------------------
(* Values for the constants of OpenShockClient. *)
EXTENDS OpenShockClient

CONSTANTS c1, c2
================================================================================

------------------------------- MODULE MCRequest -------------------------------
(***************************************************************************)
(* Request on a small instance: one call, two retries, one status of each  *)
(* class the code tells apart.  Calls share nothing here, so one is enough. *)
(***************************************************************************)
EXTENDS Request
================================================================================

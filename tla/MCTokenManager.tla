---------------------------- MODULE MCTokenManager ----------------------------
(***************************************************************************)
(* TokenManager on a small instance: two goroutines, tokens that expire    *)
(* within the run, a timeout longer than the skew.                         *)
(***************************************************************************)
EXTENDS TokenManager
================================================================================

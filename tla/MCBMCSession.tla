----------------------------- MODULE MCBMCSession -----------------------------
(* BMCSession for TLC: two plans, the second with two retries. *)
EXTENDS BMCSession

Retries == <<0, 2>>
================================================================================

----------------------------- MODULE MCVoidVault -----------------------------
(* The instance of VoidVault for TLC: one secret, three shards, two calls. *)
EXTENDS VoidVault
CONSTANTS a, b
===============================================================================
